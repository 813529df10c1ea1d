----------------------------- MODULE SyncEngine -----------------------------
(***************************************************************************)
(* The reconnection flush (src/attestation/sync-engine.ts) over the        *)
(* buffer, the dedup filter and the connectivity monitor.  A flush loop    *)
(* and a resetSyncing() run interleaved, one step per store or transport   *)
(* call; stop() and start() can leave an old loop running beside a new     *)
(* one.  The filter is the set of identifiers added to it; an identifier   *)
(* of FalsePositives may be found in it all the same.                      *)
(***************************************************************************)
EXTENDS OfflineBuffer

CONSTANTS Loops,         \* flush loops that may overlap
          BatchSize,     \* FLUSH_BATCH_SIZE
          FalsePositives,
          Effort         \* bound: records, connectivity losses, stops and
                         \* faults, taken together

ASSUME EngineAssumption == BatchSize \in Nat \ {0} /\ FalsePositives \subseteq RecordIds

VARIABLES engine,        \* SyncEngine._state
          listening,     \* whether the handlers are registered
          online,        \* ConnectivityMonitor._online
          filter,        \* identifiers added to the dedup filter
          pc,            \* where each loop is
          batch,         \* the records it has in hand
          work,          \* the store writes it has still to make
          stale,         \* what a resetSyncing() read and has still to write
          delivered,     \* records the server has accepted
          orphans,       \* syncing records whose flush died, or got no answer
          spent          \* connectivity losses, stops and faults so far

loopVars == <<pc, batch, work>>
vars == <<bufferVars, engine, listening, online, filter, loopVars, stale, delivered, orphans, spent>>

Init ==
  /\ BufferInit
  /\ engine = "idle" /\ listening = FALSE /\ online = TRUE
  /\ filter = {}
  /\ pc = [l \in Loops |-> "off"]
  /\ batch = [l \in Loops |-> {}]
  /\ work = [l \in Loops |-> {}]
  /\ stale = {}
  /\ delivered = {} /\ orphans = {}
  /\ spent = 0

MightContain(id) == id \in filter \cup FalsePositives

\* A write to make: the partition to move a record to, whether the filter
\* learns of it, and whether the record has been read for it.
Write(id, st, learn) == [id |-> id, st |-> st, learn |-> learn, found |-> FALSE]
Writes(ids, st) == {Write(id, st, FALSE) : id \in ids}

Goto(l, label, held, writes) ==
  /\ pc' = [pc EXCEPT ![l] = label]
  /\ batch' = [batch EXCEPT ![l] = held]
  /\ work' = [work EXCEPT ![l] = writes]

\* The mutant: a rejected record is acknowledged with the others.
ResultsIgnored(answered, accepted) == {Write(id, "acknowledged", TRUE) : id \in answered}

\* The result items, in whatever order the server gives them.
Results(answered, accepted) ==
  {Write(id, IF id \in accepted THEN "acknowledged" ELSE "failed", id \in accepted) : id \in answered}

(***************************************************************************)
(* runFlushLoop.                                                           *)
(***************************************************************************)
\* The writes of a stage, or what follows once there are none.
Enter(l, stage, held, writes) ==
  IF writes # {} THEN Goto(l, stage, held, writes)
  ELSE CASE stage = "dups" /\ held # {} -> Goto(l, "wait", held, {})
         [] stage = "failed" -> Goto(l, "rebase", {}, {})
         [] OTHER -> Goto(l, "scan", {}, {})

\* The loop's condition, and dequeueBatch's read.  The deadline may be past.
Scan(l) ==
  /\ pc[l] = "scan"
  /\ \/ Goto(l, "rebase", {}, {})
     \/ /\ engine = "flushing"
        /\ LET oldest == OldestPending(BatchSize)
           IN  oldest # {} /\ Goto(l, "mark", oldest, Writes(oldest, "syncing"))
  /\ UNCHANGED <<bufferVars, engine, listening, online, filter, stale, delivered, orphans, spent>>

\* Records the filter knows were delivered before.
SplitDuplicates(l) ==
  Enter(l, "dups", {id \in batch[l] : ~MightContain(id)},
        Writes({id \in batch[l] : MightContain(id)}, "acknowledged"))

MarkSyncing(l) ==
  /\ pc[l] = "mark"
  /\ \E w \in work[l] :
       /\ PutStale(w.id, "syncing")
       /\ IF work[l] # {w} THEN Goto(l, "mark", batch[l], work[l] \ {w}) ELSE SplitDuplicates(l)
  /\ UNCHANGED <<nextId, room, admitted, nacked, engine, listening, online, filter, stale, delivered, orphans, spent>>

\* ack() and nack() read the record, and do nothing if it is gone.
Learn(w) == filter' = IF w.learn THEN filter \cup {w.id} ELSE filter

ReadRecord(l) ==
  /\ pc[l] \in {"dups", "results", "failed"}
  /\ ~ \E w \in work[l] : w.found
  /\ \E w \in work[l] :
       IF w.id \in Ids
       THEN Goto(l, pc[l], batch[l], (work[l] \ {w}) \cup {[w EXCEPT !.found = TRUE]}) /\ UNCHANGED filter
       ELSE Enter(l, pc[l], batch[l], work[l] \ {w}) /\ Learn(w)
  /\ UNCHANGED <<bufferVars, engine, listening, online, stale, delivered, orphans, spent>>

\* And write it, wherever it is by then.
SettleRecord(l) ==
  /\ pc[l] \in {"dups", "results", "failed"}
  /\ \E w \in work[l] :
       /\ w.found
       /\ PutStale(w.id, w.st)
       /\ nacked' = IF w.st = "failed" THEN nacked \cup {w.id} ELSE nacked
       /\ Learn(w)
       /\ Enter(l, pc[l], batch[l], work[l] \ {w})
  /\ UNCHANGED <<nextId, room, admitted, engine, listening, online, stale, delivered, orphans, spent>>

Spend == spent + nextId =< Effort /\ spent' = spent + 1

\* The server answers the batch with a verdict on each record, or leaves
\* some out: those are not settled.
Answer(l) ==
  /\ pc[l] = "wait"
  /\ \E answered \in SUBSET batch[l] : \E accepted \in SUBSET answered :
       /\ IF answered = batch[l] THEN UNCHANGED spent ELSE Spend
       /\ delivered' = delivered \cup accepted
       /\ orphans' = orphans \cup (batch[l] \ answered)
       /\ Enter(l, "results", {}, Results(answered, accepted))
  /\ UNCHANGED <<bufferVars, engine, listening, online, filter, stale>>

\* The transport throws, whether or not the server had taken the batch.
TransportFails(l) ==
  /\ pc[l] = "wait" /\ Spend
  /\ delivered' \in {delivered, delivered \cup batch[l]}
  /\ Goto(l, "failed", {}, Writes(batch[l], "failed"))
  /\ UNCHANGED <<bufferVars, engine, listening, online, filter, stale, orphans>>

\* The last look at the pending partition, the rebase, and the end of the
\* flush: the filter is emptied when nothing is pending.
Rebase(l) ==
  /\ pc[l] = "rebase"
  /\ filter' = IF In("pending") = {} THEN {} ELSE filter
  /\ engine' = IF engine = "stopped" THEN engine ELSE "idle"
  /\ Goto(l, "off", {}, {})
  /\ UNCHANGED <<bufferVars, listening, online, stale, delivered, orphans, spent>>

(***************************************************************************)
(* Connectivity, start, stop and crash.                                    *)
(***************************************************************************)
HandleOnline(state) ==
  IF state \in {"flushing", "stopped"}
  THEN engine' = state /\ UNCHANGED loopVars
  ELSE /\ engine' = "flushing"
       /\ \E l \in Loops : pc[l] = "off" /\ Goto(l, "scan", {}, {})

GoOnline ==
  /\ ~online /\ online' = TRUE
  /\ IF listening THEN HandleOnline(engine) ELSE UNCHANGED <<engine, loopVars>>
  /\ UNCHANGED <<bufferVars, listening, filter, stale, delivered, orphans, spent>>

\* resetSyncing reads every syncing record, then writes them one by one.  Resets
\* at one time write together; a record they share is written once.
GoOffline ==
  /\ Spend /\ online /\ online' = FALSE
  /\ stale' = IF listening THEN stale \cup In("syncing") ELSE stale
  /\ UNCHANGED <<bufferVars, engine, listening, filter, loopVars, delivered, orphans>>

\* The mutant: a reset that marks what it wrote as being sent.
ResetOneSyncing ==
  /\ \E id \in stale : PutStale(id, "syncing") /\ stale' = stale \ {id} /\ orphans' = orphans \ {id}
  /\ UNCHANGED <<nextId, room, admitted, nacked, engine, listening, online, filter, loopVars, delivered, spent>>

ResetOne ==
  /\ \E id \in stale : PutStale(id, "pending") /\ stale' = stale \ {id} /\ orphans' = orphans \ {id}
  /\ UNCHANGED <<nextId, room, admitted, nacked, engine, listening, online, filter, loopVars, delivered, spent>>

Start ==
  /\ ~listening /\ listening' = TRUE
  /\ IF online THEN HandleOnline("idle") ELSE engine' = "idle" /\ UNCHANGED loopVars
  /\ UNCHANGED <<bufferVars, online, filter, stale, delivered, orphans, spent>>

Stop ==
  /\ Spend /\ listening /\ listening' = FALSE
  /\ engine' = "stopped"
  /\ UNCHANGED <<bufferVars, online, filter, loopVars, stale, delivered, orphans>>

\* The store persists; the engine, the filter and the calls in progress do not.
Crash ==
  /\ Spend
  /\ engine' = "idle" /\ listening' = FALSE /\ online' = TRUE
  /\ filter' = {} /\ stale' = {}
  /\ pc' = [l \in Loops |-> "off"]
  /\ batch' = [l \in Loops |-> {}]
  /\ work' = [l \in Loops |-> {}]
  /\ room' = [p \in Producers |-> Idle]
  /\ orphans' = In("syncing")
  /\ UNCHANGED <<store, nextId, admitted, revivals, nacked, delivered>>

Produce == \E p \in Producers : Enqueue(p) /\ spent + nextId' =< Effort + 1
           /\ UNCHANGED <<engine, listening, online, filter, loopVars, stale, delivered, orphans, spent>>

Flush(l) ==
  \/ Scan(l) \/ MarkSyncing(l) \/ ReadRecord(l) \/ SettleRecord(l)
  \/ Answer(l) \/ TransportFails(l) \/ Rebase(l)

Next == Produce \/ GoOnline \/ GoOffline \/ ResetOne \/ Start \/ Stop \/ Crash \/ \E l \in Loops : Flush(l)

Spec == Init /\ [][Next]_vars

\* The event loop runs what is ready, and the transport answers or throws.
FairSpec == Spec /\ WF_vars(ResetOne) /\ \A l \in Loops : WF_vars(Flush(l))

(***************************************************************************)
(* Properties.                                                             *)
(***************************************************************************)
TypeOK ==
  /\ store \in [RecordIds -> Status \cup {"absent"}]
  /\ engine \in {"idle", "flushing", "stopped"}
  /\ \A l \in Loops :
       /\ pc[l] \in {"off", "scan", "mark", "dups", "wait", "results", "failed", "rebase"}
       /\ pc[l] \in {"mark", "dups", "results", "failed"} <=> work[l] # {}

\* offline-buffer.ts:80-95, sync-engine.ts:113-175: a record is acknowledged
\* only when the server has accepted it or the filter takes it for another, and
\* so is one the filter knows.
AckedWasDelivered == In("acknowledged") \cup filter \subseteq delivered \cup FalsePositives

\* offline-buffer.ts:218-250: an undelivered record that was never failed is
\* not evicted, whatever the flush and the reset write meanwhile.
UnansweredIsKept == admitted \subseteq Ids \cup delivered \cup nacked \cup FalsePositives

\* offline-buffer.ts:80-250, sync-engine.ts:113-175: no record is lost on the
\* way: it is acknowledged only after its delivery, and evicted only after an
\* answer.
NothingIsLost == AckedWasDelivered /\ UnansweredIsKept

\* sync-engine.ts:119-162: a syncing record is in the hands of a flush, unless
\* the flush died with it or the server's answer left it out.
SyncingIsOwned ==
  \A id \in In("syncing") \ orphans :
    \E l \in Loops : \/ pc[l] \in {"mark", "dups", "wait"} /\ id \in batch[l]
                     \/ \E w \in work[l] : w.id = id

\* offline-buffer.ts:12-14: the record limit is overrun by at most the calls
\* of enqueue() that race, and as often as a late write has put an evicted
\* record back.
OverrunBounded == Cardinality(Ids) =< MaxRecords + Cardinality(Producers) - 1 + revivals

\* offline-buffer.ts:101-188: however flushes, resets and producers write over
\* each other, the partitions stay sound and the buffer within its overrun.
PartitionsAreSound == TypeOK /\ SyncingIsOwned /\ OverrunBounded

\* sync-engine.ts:113-175: every flush ends.
EveryFlushEnds == \A l \in Loops : pc[l] # "off" ~> pc[l] = "off"
=============================================================================
