--------------------------- MODULE OfflineBuffer ----------------------------
(***************************************************************************)
(* The attestation buffer (src/attestation/offline-buffer.ts): the         *)
(* partition each record is in, and the callers of enqueue(), which evict  *)
(* records to make room, one step per call of the store.  Every record     *)
(* counts one unit, of the record limit and of the byte limit alike.       *)
(* Identifiers grow with createdAt; the order of lastModified, in which a  *)
(* partition is evicted, is left open.                                     *)
(***************************************************************************)
EXTENDS Integers, FiniteSets

CONSTANTS Producers,     \* concurrent callers of enqueue()
          MaxRecords,    \* maxRecords
          MaxId          \* bound: records ever produced

ASSUME CapacityAssumption ==
  MaxRecords \in Nat \ {0} /\ MaxId \in Nat /\ IsFiniteSet(Producers) /\ Producers # {}

VARIABLES store,         \* the partition of each record
          nextId,        \* the next record to be produced
          room,          \* what each producer knows while it makes room
          admitted,      \* records accepted by enqueue()
          revivals,      \* writes that have put an evicted record back
          nacked         \* records that have been failed once

bufferVars == <<store, nextId, room, admitted, revivals, nacked>>

RecordIds == 1..MaxId
Status == {"pending", "syncing", "acknowledged", "failed"}
Idle == [id |-> 0, count |-> 0, part |-> "none", list |-> {}]

BufferInit ==
  /\ store = [id \in RecordIds |-> "absent"]
  /\ nextId = 1
  /\ room = [p \in Producers |-> Idle]
  /\ admitted = {}
  /\ revivals = 0
  /\ nacked = {}

Ids == {id \in RecordIds : store[id] # "absent"}
In(st) == {id \in RecordIds : store[id] = st}

Put(id, st) == store' = [store EXCEPT ![id] = st]
Delete(id) == store' = [store EXCEPT ![id] = "absent"]

\* The mutant: failed records are dequeued again.
OldestUnsettled(size) ==
  LET all == In("pending") \cup In("failed") IN {id \in all : Cardinality({i \in all : i < id}) < size}

\* dequeueBatch: the oldest pending records.
OldestPending(size) ==
  {id \in In("pending") : Cardinality({i \in In("pending") : i < id}) < size}

\* The mutant: a late write of an evicted record goes unnoticed.
PutUnnoticed(id, st) == Put(id, st) /\ UNCHANGED revivals

\* A write of a record read earlier.
PutStale(id, st) ==
  /\ Put(id, st)
  /\ revivals' = IF id \in Ids THEN revivals ELSE revivals + 1

(***************************************************************************)
(* enqueue and ensureCapacity.                                             *)
(***************************************************************************)
CheckRoom(p) ==
  /\ room[p] = Idle /\ nextId =< MaxId
  /\ nextId' = nextId + 1
  /\ room' = [room EXCEPT ![p] = [id |-> nextId, count |-> Cardinality(Ids), part |-> "none", list |-> {}]]
  /\ UNCHANGED <<store, admitted, revivals, nacked>>

\* The mutant: the limit is compared inclusively.
HasRoomInclusive(p) == room[p].count =< MaxRecords

HasRoom(p) == room[p].count < MaxRecords

\* The count goes down even if the record is gone by now.
EvictOne(p) ==
  \E id \in room[p].list :
    /\ ~HasRoom(p)
    /\ Delete(id)
    /\ room' = [room EXCEPT ![p].list = @ \ {id}, ![p].count = @ - 1]
    /\ UNCHANGED <<nextId, admitted, revivals, nacked>>

\* The mutant: pending records are evicted before the buffer is called full.
NextPartitionPending(p) ==
  /\ room[p] # Idle /\ ~HasRoom(p) /\ room[p].list = {}
  /\ \/ room[p].part = "none"
        /\ room' = [room EXCEPT ![p].part = "acknowledged", ![p].list = In("acknowledged")]
     \/ room[p].part = "acknowledged"
        /\ room' = [room EXCEPT ![p].part = "failed", ![p].list = In("failed") \cup In("pending")]
  /\ UNCHANGED <<store, nextId, admitted, revivals, nacked>>

\* The acknowledged records are candidates first, then the failed ones.
NextPartition(p) ==
  /\ room[p] # Idle /\ ~HasRoom(p) /\ room[p].list = {}
  /\ \E part \in {"acknowledged", "failed"} :
       /\ <<room[p].part, part>> \in {<<"none", "acknowledged">>, <<"acknowledged", "failed">>}
       /\ room' = [room EXCEPT ![p].part = part, ![p].list = In(part)]
  /\ UNCHANGED <<store, nextId, admitted, revivals, nacked>>

\* BufferFullError.
Refuse(p) ==
  /\ ~HasRoom(p) /\ room[p].list = {} /\ room[p].part = "failed"
  /\ room' = [room EXCEPT ![p] = Idle]
  /\ UNCHANGED <<store, nextId, admitted, revivals, nacked>>

Admit(p) ==
  /\ room[p] # Idle /\ HasRoom(p)
  /\ Put(room[p].id, "pending")
  /\ admitted' = admitted \cup {room[p].id}
  /\ room' = [room EXCEPT ![p] = Idle]
  /\ UNCHANGED <<nextId, revivals, nacked>>

Enqueue(p) == CheckRoom(p) \/ EvictOne(p) \/ NextPartition(p) \/ Refuse(p) \/ Admit(p)
=============================================================================
