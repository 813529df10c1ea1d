----------------------------- MODULE AuditLogger -----------------------------
(* The batch audit log: src/src/audit/auditLogger.ts and auditConsumer.ts.  A   *)
(* transition is logged in one transaction that takes the batch's transaction   *)
(* lock, reads the highest sequence number, and inserts the next.  The lock is  *)
(* on a 32-bit hash of the batch: batches may share one.  Statements read what  *)
(* is committed when they start (READ COMMITTED).                               *)
EXTENDS Naturals, Sequences
CONSTANTS Writers,         \* calls of logTransition; each is its own transition
          Subjects,        \* batches
          HashText         \* batch -> the lock key its name hashes to
ASSUME HashAssumption == DOMAIN HashText = Subjects
VARIABLES auditRows,       \* committed rows: batch, sequence, transition
          commits,         \* batch -> its transitions in the order they committed
          xactLock,        \* lock key -> writers that hold it
          writer           \* writer -> pc, batch, next sequence

auditVars == <<auditRows, commits, xactLock, writer>>
RowsOf(b) == {r \in auditRows : r.batch = b}
MaxSequence(b) == IF RowsOf(b) = {} THEN 0
                  ELSE CHOOSE n \in {r.sequence : r \in RowsOf(b)} :
                         \A r \in RowsOf(b) : r.sequence <= n

AuditInit ==
    /\ auditRows = {} /\ commits = [b \in Subjects |-> <<>>]
    /\ xactLock = [k \in {HashText[b] : b \in Subjects} |-> {}]
    /\ writer \in [Writers -> [pc : {"idle"}, batch : Subjects, next : {0}]]

AuditGoto(w, pc) == writer' = [writer EXCEPT ![w].pc = pc]
Held(w) == [k \in DOMAIN xactLock |-> xactLock[k] \ {w}]

BeginAudit(w) == /\ writer[w].pc = "idle" /\ AuditGoto(w, "lock")
                 /\ UNCHANGED <<auditRows, commits, xactLock>>

TakeXactLockShared(w) ==                                        \* mutant
    LET k == HashText[writer[w].batch] IN
    /\ writer[w].pc = "lock"
    /\ xactLock' = [xactLock EXCEPT ![k] = @ \cup {w}]
    /\ AuditGoto(w, "max") /\ UNCHANGED <<auditRows, commits>>
TakeXactLock(w) ==
    LET k == HashText[writer[w].batch] IN
    /\ writer[w].pc = "lock" /\ xactLock[k] = {}
    /\ xactLock' = [xactLock EXCEPT ![k] = {w}]
    /\ AuditGoto(w, "max") /\ UNCHANGED <<auditRows, commits>>

NextSequenceOfAll(w) ==                                         \* mutant
    /\ writer[w].pc = "max"
    /\ writer' = [writer EXCEPT ![w].pc = "insert",
                    ![w].next = MaxSequence(CHOOSE b \in Subjects : \A c \in Subjects : MaxSequence(c) <= MaxSequence(b)) + 1]
    /\ UNCHANGED <<auditRows, commits, xactLock>>
NextSequence(w) ==
    /\ writer[w].pc = "max"
    /\ writer' = [writer EXCEPT ![w].pc = "insert", ![w].next = MaxSequence(writer[w].batch) + 1]
    /\ UNCHANGED <<auditRows, commits, xactLock>>

(* A sequence number the batch already has committed is refused by the table;   *)
(* one that another open transaction has inserted waits for it to end.          *)
InsertAudit(w) ==
    LET same(r) == r.batch = writer[w].batch /\ r.sequence = writer[w].next IN
    /\ writer[w].pc = "insert"
    /\ \A v \in Writers : writer[v].pc = "commit" =>
          writer[v].batch # writer[w].batch \/ writer[v].next # writer[w].next
    /\ AuditGoto(w, IF \E r \in auditRows : same(r) THEN "rollback" ELSE "commit")
    /\ UNCHANGED <<auditRows, commits, xactLock>>

(* Committing makes the row visible and frees the lock at once.                 *)
CommitAudit(w) ==
    LET b == writer[w].batch IN
    /\ writer[w].pc = "commit"
    /\ auditRows' = auditRows \cup {[batch |-> b, sequence |-> writer[w].next, transition |-> w]}
    /\ commits' = [commits EXCEPT ![b] = Append(@, w)]
    /\ xactLock' = Held(w) /\ AuditGoto(w, "done")

(* Any statement may fail, and the connection with it.                          *)
AuditFails(w) == /\ writer[w].pc \in {"lock", "max", "insert", "commit"}
                 /\ AuditGoto(w, "rollback") /\ UNCHANGED <<auditRows, commits, xactLock>>
RollbackAudit(w) == /\ writer[w].pc = "rollback"
                    /\ xactLock' = Held(w) /\ AuditGoto(w, "failed")
                    /\ UNCHANGED <<auditRows, commits>>

AuditNext == \E w \in Writers :
    \/ BeginAudit(w) \/ TakeXactLock(w) \/ NextSequence(w) \/ InsertAudit(w)
    \/ CommitAudit(w) \/ AuditFails(w) \/ RollbackAudit(w)
AuditSpec == AuditInit /\ [][AuditNext]_auditVars

(* What getAuditLogs and replayBatch return: the rows in sequence order.        *)
ReplayBatch(b) == [n \in {r.sequence : r \in RowsOf(b)} |-> (CHOOSE r \in RowsOf(b) : r.sequence = n).transition]
------------------------------------------------------------------------------
AuditTypeOK ==
    /\ auditRows \subseteq [batch : Subjects, sequence : Nat, transition : Writers]
    /\ commits \in [Subjects -> Seq(Writers)]
    /\ xactLock \in [{HashText[b] : b \in Subjects} -> SUBSET Writers]
    /\ writer \in [Writers -> [pc : {"idle", "lock", "max", "insert", "commit", "rollback", "done", "failed"},
                               batch : Subjects, next : Nat]]

(* Sequence numbers are dense and unique per batch, and replaying them gives    *)
(* the transitions in the order they were committed, whatever failed between    *)
(* (auditLogger.ts:11-15, 19-50; auditConsumer.ts:10-15).                       *)
ReplayIsCommitOrder == \A b \in Subjects : ReplayBatch(b) = commits[b]

(* The lock spares every call the unique constraint: no call of logTransition   *)
(* finds its number taken (auditLogger.ts:24-40).                               *)
NumbersAreFree ==
    \A w \in Writers : writer[w].pc = "insert" =>
        \A r \in auditRows : r.batch = writer[w].batch => r.sequence # writer[w].next

(* The audit log of a batch is the history of its commits, and no writer races  *)
(* another for a number (auditLogger.ts:19-50).                                 *)
LogFollowsCommits == ReplayIsCommitOrder /\ NumbersAreFree
==============================================================================
