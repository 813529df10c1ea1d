----------------------------- MODULE MintService -----------------------------
(* Certificate minting: src/src/certificate/mintService.ts.  A call holds one   *)
(* pooled client and takes a session lock on the batch; it reads the batch's    *)
(* row, registers its intent as a 'minting' row, mints, and records the id.     *)
(* Any statement may fail, which sends the call to its catch block; a client    *)
(* may lose its connection, which frees its lock and fails all that follows;    *)
(* the process may die.  The lock key is an unsigned 64-bit hash handed to a    *)
(* signed bigint: half of all batches have a key the database refuses.          *)
EXTENDS Integers, FiniteSets
CONSTANTS MintCalls, Batches,
          Lockable,        \* batches whose key fits the signed bigint
          ListenerBatch,   \* the batch the event listener asks for
          PoolClients,     \* clients of the pool
          MaxMintFaults    \* bound: failed statements, lost connections, deaths
ASSUME BatchesAssumption == Lockable \subseteq Batches /\ ListenerBatch \in Batches
ASSUME ClientsAssumption == PoolClients \in Nat
VARIABLES certificates,    \* batch -> its row: status none, minting or minted, and id
          mintLock,        \* batch -> the calls whose session holds its lock
          call,            \* call -> pc, batch, the id it minted, its answer
          minted,          \* the certificates on the chain: batch and id
          cancelled,       \* batch -> intents deleted by a catch block
          leaked,          \* clients never given back to the pool
          abandoned,       \* whether some intent lost its call without a cleanup
          mintFaults

mintVars == <<certificates, mintLock, call, minted, cancelled, leaked, abandoned, mintFaults>>
NoCertificate == [status |-> "none", id |-> 0]
Underway == {"lock", "check", "insert", "recheck", "mint", "update", "catch", "unlock", "doomed"}
IsUnderway(c) == call[c].pc \in Underway

MintInit ==
    /\ certificates = [b \in Batches |-> NoCertificate]
    /\ mintLock = [b \in Batches |-> {}]
    /\ call = [c \in MintCalls |-> [pc |-> "idle", batch |-> ListenerBatch, id |-> 0, answer |-> 0]]
    /\ minted = {} /\ cancelled = [b \in Batches |-> 0]
    /\ leaked = 0 /\ abandoned = FALSE /\ mintFaults = 0

Goto(c, pc) == call' = [call EXCEPT ![c].pc = pc]
Answer(c, id) == call' = [call EXCEPT ![c].pc = "unlock", ![c].answer = id]
Fault == mintFaults < MaxMintFaults /\ mintFaults' = mintFaults + 1
UnlessFault == UNCHANGED mintFaults

Mint(c, b) ==
    /\ call[c].pc = "idle"
    /\ Cardinality({d \in MintCalls : IsUnderway(d)}) + leaked < PoolClients
    /\ call' = [call EXCEPT ![c].pc = "lock", ![c].batch = b]
    /\ UnlessFault /\ UNCHANGED <<certificates, mintLock, minted, cancelled, leaked, abandoned>>

(* Every 5 s, whether or not the previous poll has ended.                       *)
Poll(c) == Mint(c, ListenerBatch)

KeyFits(b) == b \in Lockable
Lock(c) ==
    /\ call[c].pc = "lock"
    /\ LET b == call[c].batch IN
       IF KeyFits(b)
       THEN /\ mintLock[b] = {} /\ mintLock' = [mintLock EXCEPT ![b] = {c}]
            /\ Goto(c, "check")
       ELSE Goto(c, "catch") /\ UNCHANGED mintLock
    /\ UnlessFault /\ UNCHANGED <<certificates, minted, cancelled, leaked, abandoned>>

AnswerFrom(c, row, absent) ==
    CASE row.status = "minted"  -> Answer(c, row.id)
      [] row.status = "minting" -> Answer(c, 0)
      [] OTHER                  -> absent

Check(c) ==
    /\ call[c].pc = "check"
    /\ AnswerFrom(c, certificates[call[c].batch], Goto(c, "insert"))
    /\ UnlessFault /\ UNCHANGED <<certificates, mintLock, minted, cancelled, leaked, abandoned>>

(* A conflicting row is left alone and read again; if it is gone by then, the   *)
(* call fails.                                                                  *)
InsertIntent(c) ==
    LET b == call[c].batch
        free == certificates[b].status = "none"
    IN /\ call[c].pc = "insert"
       /\ certificates' = [certificates EXCEPT ![b] = IF free THEN [status |-> "minting", id |-> 0] ELSE @]
       /\ Goto(c, IF free THEN "mint" ELSE "recheck")
       /\ UnlessFault /\ UNCHANGED <<mintLock, minted, cancelled, leaked, abandoned>>
Recheck(c) ==
    /\ call[c].pc = "recheck"
    /\ AnswerFrom(c, certificates[call[c].batch], Goto(c, "catch"))
    /\ UnlessFault /\ UNCHANGED <<certificates, mintLock, minted, cancelled, leaked, abandoned>>

(* The call to the chain; it goes on although the connection is lost.           *)
SorobanMint(c) ==
    LET id == Cardinality(minted) + 1 IN
    /\ call[c].pc \in {"mint", "doomed"}
    /\ minted' = minted \cup {[batch |-> call[c].batch, id |-> id]}
    /\ call' = [call EXCEPT ![c].pc = IF @ = "mint" THEN "update" ELSE "lost", ![c].id = id]
    /\ leaked' = leaked + (IF call[c].pc = "doomed" THEN 1 ELSE 0)
    /\ UnlessFault /\ UNCHANGED <<certificates, mintLock, cancelled, abandoned>>

(* The update names the batch only: whatever row is there takes the id.         *)
RecordCertificate(c) ==
    LET b == call[c].batch IN
    /\ call[c].pc = "update"
    /\ certificates' = [certificates EXCEPT ![b] =
                          IF @.status = "none" THEN @ ELSE [status |-> "minted", id |-> call[c].id]]
    /\ Answer(c, call[c].id)
    /\ UnlessFault /\ UNCHANGED <<mintLock, minted, cancelled, leaked, abandoned>>

StatementFails(c) ==
    /\ call[c].pc \in {"lock", "check", "insert", "recheck", "update"}
    /\ Fault /\ Goto(c, "catch")
    /\ UNCHANGED <<certificates, mintLock, minted, cancelled, leaked, abandoned>>

(* The catch block deletes the batch's 'minting' row, whoever registered it.    *)
CatchKeeping(c) ==                                              \* mutant
    /\ call[c].pc = "catch"
    /\ Answer(c, 0)
    /\ UnlessFault /\ UNCHANGED <<certificates, mintLock, minted, cancelled, leaked, abandoned>>
CatchDeletingAll(c) ==                                          \* mutant
    LET b == call[c].batch IN
    /\ call[c].pc = "catch"
    /\ certificates' = [certificates EXCEPT ![b] = NoCertificate]
    /\ cancelled' = [cancelled EXCEPT ![b] = @ + (IF certificates[b].status = "minting" THEN 1 ELSE 0)]
    /\ Answer(c, 0)
    /\ UnlessFault /\ UNCHANGED <<mintLock, minted, leaked, abandoned>>
Catch(c) ==
    LET b == call[c].batch
        intent == certificates[b].status = "minting"
    IN /\ call[c].pc = "catch"
       /\ certificates' = [certificates EXCEPT ![b] = IF intent THEN NoCertificate ELSE @]
       /\ cancelled' = [cancelled EXCEPT ![b] = @ + (IF intent THEN 1 ELSE 0)]
       /\ Answer(c, 0)
       /\ UnlessFault /\ UNCHANGED <<mintLock, minted, leaked, abandoned>>

CatchFails(c) ==
    /\ call[c].pc = "catch" /\ Fault
    /\ Answer(c, 0) /\ abandoned' = TRUE
    /\ UNCHANGED <<certificates, mintLock, minted, cancelled, leaked>>

UnlockKeepingLock(c) ==                                         \* mutant
    /\ call[c].pc = "unlock" /\ KeyFits(call[c].batch)
    /\ Goto(c, "done")
    /\ UnlessFault /\ UNCHANGED <<certificates, mintLock, minted, cancelled, leaked, abandoned>>
Unlock(c) ==
    /\ call[c].pc = "unlock" /\ KeyFits(call[c].batch)
    /\ mintLock' = [b \in Batches |-> mintLock[b] \ {c}]
    /\ Goto(c, "done")
    /\ UnlessFault /\ UNCHANGED <<certificates, minted, cancelled, leaked, abandoned>>

(* An unlock that fails, as that of a key the database refuses always does,     *)
(* throws before release(): the client, and the lock its session may hold, stay *)
(* with nobody.                                                                 *)
UnlockFails(c) ==
    /\ call[c].pc = "unlock"
    /\ IF KeyFits(call[c].batch) THEN Fault ELSE UnlessFault
    /\ Goto(c, "lost") /\ leaked' = leaked + 1
    /\ UNCHANGED <<certificates, mintLock, minted, cancelled, abandoned>>

(* A lost connection frees the lock.  The statements that follow all fail, the  *)
(* unlock among them; a call on its way to the chain first ends that.           *)
ConnectionLost(c) ==
    /\ IsUnderway(c) /\ call[c].pc # "doomed" /\ Fault
    /\ mintLock' = [b \in Batches |-> mintLock[b] \ {c}]
    /\ leaked' = leaked + (IF call[c].pc = "mint" THEN 0 ELSE 1) /\ abandoned' = TRUE
    /\ Goto(c, IF call[c].pc = "mint" THEN "doomed" ELSE "lost")
    /\ UNCHANGED <<certificates, minted, cancelled>>

ProcessDies ==
    /\ Fault
    /\ call' = [c \in MintCalls |-> IF IsUnderway(c) THEN [call[c] EXCEPT !.pc = "lost"] ELSE call[c]]
    /\ mintLock' = [b \in Batches |-> {}] /\ leaked' = 0 /\ abandoned' = TRUE
    /\ UNCHANGED <<certificates, minted, cancelled>>

MintNext ==
    \/ \E c \in MintCalls :
         \/ Poll(c) \/ \E b \in Batches : Mint(c, b)
         \/ Lock(c) \/ Check(c) \/ InsertIntent(c) \/ Recheck(c) \/ SorobanMint(c) \/ RecordCertificate(c)
         \/ Catch(c) \/ Unlock(c)
         \/ StatementFails(c) \/ CatchFails(c) \/ UnlockFails(c) \/ ConnectionLost(c)
    \/ ProcessDies
MintSpec == MintInit /\ [][MintNext]_mintVars
------------------------------------------------------------------------------
MintTypeOK ==
    /\ certificates \in [Batches -> [status : {"none", "minting", "minted"}, id : Nat]]
    /\ mintLock \in [Batches -> SUBSET MintCalls] /\ \A b \in Batches : Cardinality(mintLock[b]) <= 1
    /\ \A c \in MintCalls : call[c].pc \in Underway \cup {"idle", "done", "lost"}
    /\ leaked \in 0 .. PoolClients /\ cancelled \in [Batches -> Nat]

(* A batch gets a second certificate only if a catch block deleted an intent,   *)
(* its own after a failed record or, after a failed lock or check, another      *)
(* call's (mintService.ts:25-86).                                               *)
ExtraMintsWereCancelled ==
    \A b \in Batches : Cardinality({m \in minted : m.batch = b}) <= 1 + cancelled[b]

(* While no intent of the batch was deleted, every id a call was given is the   *)
(* one the row holds, and the row holds a certificate that exists               *)
(* (mintService.ts:35-75).                                                      *)
AnswersAreRecorded ==
    \A c \in MintCalls : call[c].answer # 0 /\ cancelled[call[c].batch] = 0 =>
        /\ certificates[call[c].batch] = [status |-> "minted", id |-> call[c].answer]
        /\ [batch |-> call[c].batch, id |-> call[c].answer] \in minted

(* A 'minting' row, which turns every later call away, belongs to a call that   *)
(* still runs, unless the process died, a connection was lost or a cleanup      *)
(* failed (mintService.ts:40-47, 76-80).                                        *)
IntentsAreOwned ==
    abandoned \/ \A b \in Batches : certificates[b].status = "minting" =>
        \E c \in MintCalls : call[c].batch = b /\ call[c].pc \in {"mint", "update", "catch"}

(* A session lock is held by a call that runs, or by the client of one whose    *)
(* unlock failed: that client is leaked (mintService.ts:81-85).                 *)
LocksAreHeld ==
    \A b \in Batches : \A c \in mintLock[b] : IsUnderway(c) \/ (call[c].pc = "lost" /\ leaked > 0)

(* Certificates, answers, intents and locks of a batch are accounted for,       *)
(* whatever calls race and whatever fails (mintService.ts:21-86).               *)
CertificatesAccounted ==
    ExtraMintsWereCancelled /\ AnswersAreRecorded /\ IntentsAreOwned /\ LocksAreHeld
==============================================================================
