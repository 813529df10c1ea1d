------------------------- MODULE SyncEngine_proofs -------------------------
(***************************************************************************)
(* What the attestation sync guarantees for any number of producers, flush *)
(* loops, records, losses and faults: no record is acknowledged that was   *)
(* not delivered, none is lost unanswered, a syncing record has an owner,  *)
(* and the buffer is overrun by no more than the races account for.        *)
(***************************************************************************)
EXTENDS SyncEngine, FiniteSetTheorems, TLAPS

(***************************************************************************)
(* The inductive invariant.                                                *)
(***************************************************************************)
Labels == {"off", "scan", "mark", "dups", "wait", "results", "failed", "rebase"}
Rooms == [id : 0..MaxId, count : Int, part : {"none", "acknowledged", "failed"}, list : SUBSET RecordIds]
WriteItems == [id : RecordIds, st : Status, learn : BOOLEAN, found : BOOLEAN]

BufferTypes ==
  /\ store \in [RecordIds -> Status \cup {"absent"}]
  /\ nextId \in 1..(MaxId + 1)
  /\ room \in [Producers -> Rooms]
  /\ \A p \in Producers : room[p] # Idle => room[p].id \in RecordIds
  /\ revivals \in Nat
  /\ stale \subseteq RecordIds
  /\ engine \in {"idle", "flushing", "stopped"}

\* What a loop at a place has in hand.  What it will acknowledge, or tell the
\* filter, is known to be delivered.
LoopOK(label, held, writes, known) ==
  /\ label \in Labels /\ held \subseteq RecordIds /\ writes \subseteq WriteItems
  /\ label \in {"mark", "dups", "results", "failed"} <=> writes # {}
  /\ label = "wait" => held # {}
  /\ label = "mark" => \A w \in writes : w.id \in held
  /\ label \in {"dups", "results", "failed"} => \A w \in writes : w.st \in {"acknowledged", "failed"}
  /\ \A w \in writes : w.st = "acknowledged" \/ w.learn => w.id \in known

LoopsOK ==
  /\ pc = [l \in Loops |-> pc[l]] /\ batch = [l \in Loops |-> batch[l]] /\ work = [l \in Loops |-> work[l]]
  /\ \A l \in Loops : LoopOK(pc[l], batch[l], work[l], delivered \cup FalsePositives)

\* What is acknowledged was delivered, what failed is on record as such, and
\* only such records are candidates for eviction.
Kept ==
  /\ AckedWasDelivered /\ UnansweredIsKept
  /\ In("failed") \subseteq nacked
  /\ \A p \in Producers : room[p].list \subseteq delivered \cup nacked \cup FalsePositives

\* The size a producer will have counted once it has evicted what is left of
\* its candidates that somebody else has not.
Estimate(p) == room[p].count - Cardinality(room[p].list \ Ids)
Ahead(n) == {p \in Producers : room[p] # Idle /\ Estimate(p) =< n}

\* The producers that think they have room or nearly so are no more than the
\* room there is, the overrun and the revivals allow.
WithinOverrun ==
  \A n \in Int : n >= MaxRecords - 1 =>
    Cardinality(Ahead(n)) + Cardinality(Ids) =< n + Cardinality(Producers) + revivals

SyncInv == BufferTypes /\ LoopsOK /\ SyncingIsOwned /\ Kept /\ WithinOverrun

LEMMA FiniteIds == /\ IsFiniteSet(RecordIds) /\ IsFiniteSet(Ids)
                   /\ Cardinality(Ids) \in Nat
                   /\ \A S \in SUBSET RecordIds : IsFiniteSet(S) /\ Cardinality(S) \in Nat
<1>1. IsFiniteSet(RecordIds) BY CapacityAssumption, FS_Interval DEF RecordIds
<1>2. Ids \subseteq RecordIds BY DEF Ids
<1> QED BY <1>1, <1>2, FS_Subset, FS_CardinalityType

LEMMA FiniteAhead == ASSUME NEW n PROVE /\ IsFiniteSet(Ahead(n)) /\ Cardinality(Ahead(n)) \in Nat
                                        /\ Cardinality(Ahead(n)) =< Cardinality(Producers)
                                        /\ Cardinality(Producers) \in Nat
<1>1. Ahead(n) \subseteq Producers BY DEF Ahead
<1> QED BY <1>1, CapacityAssumption, FS_Subset, FS_CardinalityType

(***************************************************************************)
(* The overrun.                                                            *)
(***************************************************************************)
\* A write leaves the estimates where they are, or raises them.
LEMMA WriteKeepsEstimates ==
  ASSUME BufferTypes, room' = room, Ids \subseteq Ids', Ids' \subseteq RecordIds, NEW n \in Int
  PROVE  Ahead(n)' \subseteq Ahead(n)
<1>1. ASSUME NEW p \in Producers PROVE Estimate(p) =< Estimate(p)' /\ Estimate(p) \in Int /\ Estimate(p)' \in Int
  <2>1. room[p].count \in Int /\ room[p].list \subseteq RecordIds BY DEF BufferTypes, Rooms
  <2>2. /\ room[p].list \ Ids' \subseteq room[p].list \ Ids
        /\ room[p].list \ Ids \in SUBSET RecordIds /\ room[p].list \ Ids' \in SUBSET RecordIds
    BY <2>1
  <2>3. /\ Cardinality(room[p].list \ Ids') =< Cardinality(room[p].list \ Ids)
        /\ Cardinality(room[p].list \ Ids') \in Nat /\ Cardinality(room[p].list \ Ids) \in Nat
    BY <2>2, FiniteIds, FS_Subset
  <2> QED BY <2>1, <2>3 DEF Estimate
<1>2. ASSUME NEW p \in Ahead(n)' PROVE p \in Ahead(n)
  <2>1. p \in Producers /\ room[p] # Idle /\ Estimate(p)' =< n BY <1>2 DEF Ahead, Idle
  <2>2. Estimate(p) =< n BY <1>1, <2>1
  <2> QED BY <2>1, <2>2 DEF Ahead
<1> QED BY <1>2

\* Steps that change neither the partitions' members nor what producers know.
LEMMA SameRooms ==
  ASSUME WithinOverrun, Ids' = Ids, room' = room, revivals' = revivals
  PROVE  WithinOverrun'
BY DEF WithinOverrun, Ahead, Estimate, Idle

\* A late write, of a record that is there or is not.
LEMMA LateWrite ==
  ASSUME BufferTypes, WithinOverrun, NEW id \in RecordIds, NEW st \in Status, PutStale(id, st), room' = room
  PROVE  WithinOverrun' /\ Ids' = Ids \cup {id} /\ revivals' \in Nat
<1>1. /\ store' = [store EXCEPT ![id] = st] /\ st # "absent"
      /\ revivals' = IF id \in Ids THEN revivals ELSE revivals + 1
  BY DEF PutStale, Put, Status
<1>2. Ids' = Ids \cup {id} BY <1>1 DEF Ids, BufferTypes
<1>3. CASE id \in Ids
  <2>1. Ids' = Ids /\ revivals' = revivals BY <1>1, <1>2, <1>3
  <2> QED BY <1>2, <2>1, SameRooms DEF BufferTypes
<1>4. CASE id \notin Ids
  <2>1. revivals' = revivals + 1 /\ Cardinality(Ids') = Cardinality(Ids) + 1
    BY <1>1, <1>2, <1>4, FiniteIds, FS_AddElement
  <2>2. Ids' \subseteq RecordIds BY <1>2 DEF Ids
  <2>3. ASSUME NEW n \in Int, n >= MaxRecords - 1
        PROVE  Cardinality(Ahead(n)') + Cardinality(Ids') =< n + Cardinality(Producers) + revivals'
    <3>1. Ahead(n)' \subseteq Ahead(n) BY <1>2, <2>2, WriteKeepsEstimates
    <3>2. Cardinality(Ahead(n)') =< Cardinality(Ahead(n)) /\ Cardinality(Ahead(n)') \in Nat
      BY <3>1, FiniteAhead, FS_Subset, FS_CardinalityType
    <3>3. Cardinality(Ahead(n)) + Cardinality(Ids) =< n + Cardinality(Producers) + revivals
      BY <2>3 DEF WithinOverrun
    <3> QED BY <2>1, <3>2, <3>3, FiniteIds, FiniteAhead DEF BufferTypes
  <2>4. WithinOverrun' BY <2>3 DEF WithinOverrun
  <2>5. revivals' \in Nat BY <2>1 DEF BufferTypes
  <2> QED BY <1>2, <2>4, <2>5
<1> QED BY <1>3, <1>4

\* The invariant bounds the overrun.
LEMMA OverrunFollows == ASSUME BufferTypes, WithinOverrun PROVE OverrunBounded
<1>1. MaxRecords - 1 \in Int BY CapacityAssumption
<1>2. Cardinality(Ahead(MaxRecords - 1)) + Cardinality(Ids) =< MaxRecords - 1 + Cardinality(Producers) + revivals
  BY <1>1 DEF WithinOverrun
<1> QED BY <1>2, FiniteAhead, FiniteIds, CapacityAssumption DEF OverrunBounded, BufferTypes

(***************************************************************************)
(* Producers and the overrun.                                              *)
(***************************************************************************)
\* The steps of enqueue keep the types.
LEMMA EnqueueTypes ==
  ASSUME NEW p \in Producers, BufferTypes, Enqueue(p)
  PROVE  /\ store' \in [RecordIds -> Status \cup {"absent"}]
         /\ nextId' \in 1..(MaxId + 1)
         /\ room' \in [Producers -> Rooms]
         /\ \A q \in Producers : room'[q] # Idle => room'[q].id \in RecordIds
         /\ revivals' \in Nat
<1> USE DEF BufferTypes
<1>1. Idle \in Rooms BY CapacityAssumption DEF Idle, Rooms
<1>2. Cardinality(Ids) \in Int BY FiniteIds
<1>3. room[p] \in Rooms OBVIOUS
<1>4. CASE CheckRoom(p)
  <2>1. nextId \in RecordIds /\ nextId' = nextId + 1 /\ nextId' \in 1..(MaxId + 1)
    BY <1>4, CapacityAssumption DEF CheckRoom, RecordIds
  <2>2. [id |-> nextId, count |-> Cardinality(Ids), part |-> "none", list |-> {}] \in Rooms
    BY <1>2, <2>1, CapacityAssumption DEF Rooms, RecordIds
  <2> QED BY <1>4, <2>1, <2>2 DEF CheckRoom
<1>5. CASE EvictOne(p)
  <2>1. PICK id \in room[p].list : Delete(id) /\ room' = [room EXCEPT ![p].list = @ \ {id}, ![p].count = @ - 1]
    BY <1>5 DEF EvictOne
  <2>2. id \in RecordIds /\ room[p] # Idle BY <2>1, <1>3 DEF Rooms, Idle
  <2>3. store' \in [RecordIds -> Status \cup {"absent"}] BY <2>1, <2>2 DEF Delete
  <2>4. [room[p] EXCEPT !.list = @ \ {id}, !.count = @ - 1] \in Rooms
        /\ [room[p] EXCEPT !.list = @ \ {id}, !.count = @ - 1].id = room[p].id
    <3>1. room[p].count - 1 \in Int /\ room[p].list \ {id} \in SUBSET RecordIds BY <1>3 DEF Rooms
    <3> QED BY <1>3, <3>1 DEF Rooms
  <2>5. room' = [room EXCEPT ![p] = [room[p] EXCEPT !.list = @ \ {id}, !.count = @ - 1]] BY <2>1
  <2> QED BY <1>5, <2>2, <2>3, <2>4, <2>5 DEF EvictOne
<1>6. CASE NextPartition(p)
  <2>1. PICK part \in {"acknowledged", "failed"} : room' = [room EXCEPT ![p].part = part, ![p].list = In(part)]
    BY <1>6 DEF NextPartition
  <2>2. In(part) \subseteq RecordIds BY DEF In
  <2>3. [room[p] EXCEPT !.part = part, !.list = In(part)] \in Rooms
        /\ [room[p] EXCEPT !.part = part, !.list = In(part)].id = room[p].id
    BY <1>3, <2>2 DEF Rooms
  <2>4. room' = [room EXCEPT ![p] = [room[p] EXCEPT !.part = part, !.list = In(part)]] BY <2>1
  <2> QED BY <1>6, <2>3, <2>4 DEF NextPartition
<1>7. CASE Refuse(p) BY <1>1, <1>7 DEF Refuse
<1>8. CASE Admit(p)
  <2>1. room[p].id \in RecordIds BY <1>8 DEF Admit
  <2> QED BY <1>1, <1>8, <2>1 DEF Admit, Put, Status
<1> QED BY <1>4, <1>5, <1>6, <1>7, <1>8 DEF Enqueue

\* The set Ahead(n) after a step, if what changes is one producer's room.
LEMMA CountIsAhead ==
  ASSUME NEW p \in Producers, BufferTypes, WithinOverrun, CheckRoom(p)
  PROVE  WithinOverrun'
<1>1. /\ Ids' = Ids /\ revivals' = revivals
      /\ room' = [room EXCEPT ![p] = [id |-> nextId, count |-> Cardinality(Ids), part |-> "none", list |-> {}]]
  BY DEF CheckRoom, Ids
<1>2. room' = [q \in Producers |-> room'[q]] /\ room = [q \in Producers |-> room[q]]
  BY <1>1 DEF BufferTypes
<1>3. Estimate(p)' = Cardinality(Ids)
  <2>1. room'[p].count = Cardinality(Ids) /\ room'[p].list = {} BY <1>1, <1>2
  <2>2. room'[p].list \ Ids' = {} BY <2>1
  <2>3. Cardinality(room'[p].list \ Ids') = 0 BY <2>2, FS_EmptySet
  <2>4. Estimate(p)' = Cardinality(Ids) - 0 BY <2>1, <2>3 DEF Estimate
  <2> QED BY <2>4, FiniteIds
<1>4. \A q \in Producers \ {p} : room'[q] = room[q] /\ Estimate(q)' = Estimate(q)
  BY <1>1, <1>2 DEF Estimate
<1>5. ASSUME NEW n \in Int, n >= MaxRecords - 1
      PROVE  Cardinality(Ahead(n)') + Cardinality(Ids') =< n + Cardinality(Producers) + revivals'
  <2>1. CASE n >= Cardinality(Ids)
    <3>1. Ahead(n)' \subseteq Producers BY DEF Ahead
    <3>2. Cardinality(Ahead(n)') =< Cardinality(Producers) /\ Cardinality(Ahead(n)') \in Nat
      BY <3>1, CapacityAssumption, FS_Subset, FS_CardinalityType
    <3> QED BY <1>1, <2>1, <3>2, FiniteIds, FiniteAhead DEF BufferTypes
  <2>2. CASE n < Cardinality(Ids)
    <3>1. Ahead(n)' \subseteq Ahead(n)
      <4>1. ASSUME NEW q \in Ahead(n)' PROVE q \in Ahead(n)
        <5>1. q \in Producers /\ room'[q] # Idle /\ Estimate(q)' =< n BY <4>1 DEF Ahead, Idle
        <5>2. q # p BY <1>3, <2>2, <5>1, FiniteIds
        <5> QED BY <1>4, <5>1, <5>2 DEF Ahead
      <4> QED BY <4>1
    <3>2. Cardinality(Ahead(n)') =< Cardinality(Ahead(n)) /\ Cardinality(Ahead(n)') \in Nat
      BY <3>1, FiniteAhead, FS_Subset, FS_CardinalityType
    <3>3. Cardinality(Ahead(n)) + Cardinality(Ids) =< n + Cardinality(Producers) + revivals
      BY <1>5 DEF WithinOverrun
    <3> QED BY <1>1, <3>2, <3>3, FiniteIds, FiniteAhead DEF BufferTypes
  <2> QED BY <2>1, <2>2, <1>5, FiniteIds
<1> QED BY <1>5 DEF WithinOverrun

\* An eviction takes at most one from the store and from every estimate.
LEMMA EvictionIsCounted ==
  ASSUME NEW p \in Producers, BufferTypes, WithinOverrun, EvictOne(p)
  PROVE  WithinOverrun'
<1>1. PICK id \in room[p].list : Delete(id) /\ room' = [room EXCEPT ![p].list = @ \ {id}, ![p].count = @ - 1]
                                 /\ revivals' = revivals
  BY DEF EvictOne
<1>2. /\ room[p] \in Rooms /\ id \in RecordIds /\ room[p] # Idle
      /\ \A q \in Producers : room[q].count \in Int /\ room[q].list \subseteq RecordIds
  BY <1>1 DEF BufferTypes, Rooms, Idle
<1>3. Ids' = Ids \ {id}
  <2>1. store' = [store EXCEPT ![id] = "absent"] BY <1>1 DEF Delete
  <2> QED BY <1>2, <2>1 DEF Ids, BufferTypes
<1>4. /\ room'[p].list = room[p].list \ {id} /\ room'[p].count = room[p].count - 1
      /\ \A q \in Producers \ {p} : room'[q] = room[q]
  BY <1>1, <1>2 DEF BufferTypes, Rooms
<1>5. CASE id \notin Ids
  <2>1. Ids' = Ids BY <1>3, <1>5
  <2>2. Estimate(p)' = Estimate(p)
    <3> DEFINE G == room[p].list \ Ids
    <3>1. G \in SUBSET RecordIds /\ id \in G BY <1>1, <1>2, <1>5
    <3>2. room'[p].list \ Ids' = G \ {id} BY <1>4, <2>1
    <3> HIDE DEF G
    <3>3. Cardinality(G \ {id}) = Cardinality(G) - 1 /\ Cardinality(G) \in Nat
      BY <3>1, FiniteIds, FS_RemoveElement
    <3>4. Estimate(p)' = (room[p].count - 1) - (Cardinality(G) - 1) BY <1>4, <3>2, <3>3 DEF Estimate
    <3>5. Estimate(p) = room[p].count - Cardinality(G) BY DEF Estimate, G
    <3> QED BY <1>2, <3>3, <3>4, <3>5
  <2>3. \A q \in Producers : Estimate(q)' = Estimate(q) BY <1>4, <2>1, <2>2 DEF Estimate
  <2>4. \A n : Ahead(n)' \subseteq Ahead(n) BY <1>2, <1>4, <2>3 DEF Ahead, Idle
  <2>5. ASSUME NEW n \in Int, n >= MaxRecords - 1
        PROVE  Cardinality(Ahead(n)') + Cardinality(Ids') =< n + Cardinality(Producers) + revivals'
    <3>1. Cardinality(Ahead(n)') =< Cardinality(Ahead(n)) /\ Cardinality(Ahead(n)') \in Nat
      BY <2>4, FiniteAhead, FS_Subset, FS_CardinalityType
    <3>2. Cardinality(Ahead(n)) + Cardinality(Ids) =< n + Cardinality(Producers) + revivals
      BY <2>5 DEF WithinOverrun
    <3> QED BY <1>1, <2>1, <3>1, <3>2, FiniteIds, FiniteAhead DEF BufferTypes
  <2> QED BY <2>5 DEF WithinOverrun
<1>6. CASE id \in Ids
  <2>1. Cardinality(Ids') = Cardinality(Ids) - 1 BY <1>3, <1>6, FiniteIds, FS_RemoveElement
  <2>2. Estimate(p)' = Estimate(p) - 1 /\ Estimate(p) \in Int
    <3> DEFINE G == room[p].list \ Ids
    <3>1. room'[p].list \ Ids' = G /\ G \in SUBSET RecordIds BY <1>2, <1>3, <1>4, <1>6
    <3>2. Estimate(p) = room[p].count - Cardinality(G) BY DEF Estimate
    <3> HIDE DEF G
    <3>3. Cardinality(G) \in Nat BY <3>1, FiniteIds
    <3>4. Estimate(p)' = (room[p].count - 1) - Cardinality(G) BY <1>4, <3>1 DEF Estimate
    <3> QED BY <1>2, <3>2, <3>3, <3>4
  <2>3. ASSUME NEW q \in Producers \ {p}
        PROVE  Estimate(q) - 1 =< Estimate(q)' /\ Estimate(q) \in Int /\ Estimate(q)' \in Int
    <3> DEFINE G == room[q].list \ Ids
               H == room'[q].list \ Ids'
    <3>1. G \in SUBSET RecordIds /\ H \in SUBSET RecordIds /\ H \subseteq G \cup {id} BY <1>2, <1>3, <1>4
    <3>2. Estimate(q) = room[q].count - Cardinality(G) /\ Estimate(q)' = room[q].count - Cardinality(H)
      BY <1>4 DEF Estimate
    <3> HIDE DEF G, H
    <3>3. IsFiniteSet(G) /\ Cardinality(G) \in Nat /\ Cardinality(H) \in Nat BY <3>1, FiniteIds
    <3>4. /\ IsFiniteSet(G \cup {id}) /\ Cardinality(G \cup {id}) =< Cardinality(G) + 1
          /\ Cardinality(G \cup {id}) \in Nat
      <4>1. IsFiniteSet(G \cup {id}) /\ Cardinality(G \cup {id}) = (IF id \in G THEN Cardinality(G) ELSE Cardinality(G) + 1)
        BY <3>3, FS_AddElement
      <4> QED BY <3>3, <4>1
    <3>5. Cardinality(H) =< Cardinality(G \cup {id}) BY <3>1, <3>4, FS_Subset
    <3> QED BY <1>2, <3>2, <3>3, <3>4, <3>5
  <2>4. ASSUME NEW n \in Int PROVE Ahead(n)' \subseteq Ahead(n + 1)
    <3>1. ASSUME NEW q \in Ahead(n)' PROVE q \in Ahead(n + 1)
      <4>1. q \in Producers /\ Estimate(q)' =< n BY <3>1 DEF Ahead
      <4>2. room[q] # Idle BY <1>2, <1>4, <3>1 DEF Ahead, Idle
      <4>3. Estimate(q) =< n + 1 BY <2>2, <2>3, <4>1
      <4> QED BY <4>1, <4>2, <4>3 DEF Ahead
    <3> QED BY <3>1
  <2>5. ASSUME NEW n \in Int, n >= MaxRecords - 1
        PROVE  Cardinality(Ahead(n)') + Cardinality(Ids') =< n + Cardinality(Producers) + revivals'
    <3>1. Cardinality(Ahead(n)') =< Cardinality(Ahead(n + 1)) /\ Cardinality(Ahead(n)') \in Nat
      BY <2>4, FiniteAhead, FS_Subset, FS_CardinalityType
    <3>2. n + 1 \in Int /\ n + 1 >= MaxRecords - 1 BY <2>5, CapacityAssumption
    <3>3. Cardinality(Ahead(n + 1)) + Cardinality(Ids) =< n + 1 + Cardinality(Producers) + revivals
      BY <3>2 DEF WithinOverrun
    <3> QED BY <1>1, <2>1, <3>1, <3>3, FiniteIds, FiniteAhead DEF BufferTypes
  <2> QED BY <2>5 DEF WithinOverrun
<1> QED BY <1>5, <1>6

\* Whoever is admitted is no longer ahead of the others.
LEMMA AdmissionIsCounted ==
  ASSUME NEW p \in Producers, BufferTypes, WithinOverrun, Admit(p)
  PROVE  WithinOverrun'
<1>1. /\ room[p] # Idle /\ room[p].count < MaxRecords /\ room[p].id \in RecordIds
      /\ store' = [store EXCEPT ![room[p].id] = "pending"] /\ revivals' = revivals
      /\ room' = [room EXCEPT ![p] = Idle]
      /\ room[p].count \in Int /\ room[p].list \subseteq RecordIds
  BY DEF Admit, HasRoom, Put, BufferTypes, Rooms
<1>2. Ids' = Ids \cup {room[p].id} BY <1>1 DEF Ids, BufferTypes
<1>3. Cardinality(Ids') =< Cardinality(Ids) + 1 /\ Cardinality(Ids') \in Nat
  BY <1>2, FiniteIds, FS_AddElement
<1>4. ASSUME NEW q \in Producers \ {p}
      PROVE  room'[q] = room[q] /\ Estimate(q) =< Estimate(q)' /\ Estimate(q) \in Int /\ Estimate(q)' \in Int
  <2>1. room'[q] = room[q] BY <1>1 DEF BufferTypes
  <2>2. room[q].count \in Int /\ room[q].list \subseteq RecordIds BY DEF BufferTypes, Rooms
  <2>3. /\ room[q].list \ Ids' \subseteq room[q].list \ Ids
        /\ room[q].list \ Ids \in SUBSET RecordIds /\ room[q].list \ Ids' \in SUBSET RecordIds
    BY <1>2, <2>2
  <2>4. /\ Cardinality(room[q].list \ Ids') =< Cardinality(room[q].list \ Ids)
        /\ Cardinality(room[q].list \ Ids') \in Nat /\ Cardinality(room[q].list \ Ids) \in Nat
    BY <2>3, FiniteIds, FS_Subset
  <2> QED BY <2>1, <2>2, <2>4 DEF Estimate
<1>5. ASSUME NEW n \in Int, n >= MaxRecords - 1
      PROVE  Cardinality(Ahead(n)') + Cardinality(Ids') =< n + Cardinality(Producers) + revivals'
  <2>1. p \in Ahead(n)
    <3>1. room[p].list \ Ids \in SUBSET RecordIds BY <1>1
    <3>2. Cardinality(room[p].list \ Ids) \in Nat BY <3>1, FiniteIds
    <3>3. Estimate(p) =< n BY <1>1, <1>5, <3>2, CapacityAssumption DEF Estimate
    <3> QED BY <1>1, <3>3 DEF Ahead
  <2>2. Ahead(n)' \subseteq Ahead(n) \ {p}
    <3>1. ASSUME NEW q \in Ahead(n)' PROVE q \in Ahead(n) \ {p}
      <4>1. q \in Producers /\ room'[q] # Idle /\ Estimate(q)' =< n BY <3>1 DEF Ahead, Idle
      <4>2. q # p BY <1>1, <4>1 DEF BufferTypes
      <4>3. Estimate(q) =< n BY <1>4, <4>1, <4>2
      <4> QED BY <1>4, <4>1, <4>2, <4>3 DEF Ahead
    <3> QED BY <3>1
  <2>3. Cardinality(Ahead(n) \ {p}) = Cardinality(Ahead(n)) - 1 /\ IsFiniteSet(Ahead(n) \ {p})
    BY <2>1, FiniteAhead, FS_RemoveElement
  <2>4. Cardinality(Ahead(n)') =< Cardinality(Ahead(n)) - 1 /\ Cardinality(Ahead(n)') \in Nat
    BY <2>2, <2>3, FS_Subset, FS_CardinalityType
  <2>5. Cardinality(Ahead(n)) + Cardinality(Ids) =< n + Cardinality(Producers) + revivals
    BY <1>5 DEF WithinOverrun
  <2> QED BY <1>1, <1>3, <2>4, <2>5, FiniteIds, FiniteAhead DEF BufferTypes
<1> QED BY <1>5 DEF WithinOverrun

LEMMA EnqueueWithin ==
  ASSUME NEW p \in Producers, BufferTypes, WithinOverrun, Enqueue(p)
  PROVE  WithinOverrun'
<1>1. ASSUME Ids' = Ids, revivals' = revivals, \A n : Ahead(n)' \subseteq Ahead(n)
      PROVE  WithinOverrun'
  <2>1. ASSUME NEW n \in Int, n >= MaxRecords - 1
        PROVE  Cardinality(Ahead(n)') + Cardinality(Ids') =< n + Cardinality(Producers) + revivals'
    <3>1. Cardinality(Ahead(n)') =< Cardinality(Ahead(n)) /\ Cardinality(Ahead(n)') \in Nat
      BY <1>1, FiniteAhead, FS_Subset, FS_CardinalityType
    <3>2. Cardinality(Ahead(n)) + Cardinality(Ids) =< n + Cardinality(Producers) + revivals
      BY <2>1 DEF WithinOverrun
    <3> QED BY <1>1, <3>1, <3>2, FiniteIds, FiniteAhead DEF BufferTypes
  <2> QED BY <2>1 DEF WithinOverrun
<1>2. CASE NextPartition(p)
  <2>1. PICK part \in {"acknowledged", "failed"} : room' = [room EXCEPT ![p].part = part, ![p].list = In(part)]
    BY <1>2 DEF NextPartition
  <2>2. /\ Ids' = Ids /\ revivals' = revivals /\ room[p] # Idle /\ room[p].list = {}
        /\ room[p] \in Rooms
    BY <1>2 DEF NextPartition, Ids, BufferTypes
  <2>3. /\ room'[p].list = In(part) /\ room'[p].count = room[p].count
        /\ \A q \in Producers \ {p} : room'[q] = room[q]
    BY <2>1, <2>2 DEF BufferTypes, Rooms
  <2>4. In(part) \ Ids = {} BY DEF In, Ids
  <2>5. \A q \in Producers : Estimate(q)' = Estimate(q) BY <2>2, <2>3, <2>4 DEF Estimate
  <2>6. \A n : Ahead(n)' \subseteq Ahead(n) BY <2>2, <2>3, <2>5 DEF Ahead, Idle
  <2> QED BY <1>1, <2>2, <2>6
<1>3. CASE Refuse(p)
  <2>1. Ids' = Ids /\ revivals' = revivals /\ room' = [room EXCEPT ![p] = Idle] BY <1>3 DEF Refuse, Ids
  <2>2. room'[p] = Idle /\ \A q \in Producers \ {p} : room'[q] = room[q] BY <2>1 DEF BufferTypes
  <2>3. \A q \in Producers \ {p} : Estimate(q)' = Estimate(q) BY <2>1, <2>2 DEF Estimate
  <2>4. \A n : Ahead(n)' \subseteq Ahead(n) BY <2>2, <2>3 DEF Ahead, Idle
  <2> QED BY <1>1, <2>1, <2>4
<1> QED BY <1>2, <1>3, CountIsAhead, EvictionIsCounted, AdmissionIsCounted DEF Enqueue

(***************************************************************************)
(* What records are kept.                                                  *)
(***************************************************************************)
\* Steps that leave the buffer alone.
LEMMA QuietKeeps ==
  ASSUME Kept, UNCHANGED <<store, room, admitted, nacked>>, delivered \subseteq delivered',
         filter' \subseteq filter \cup delivered' \cup FalsePositives
  PROVE  Kept'
<1>1. In("acknowledged")' = In("acknowledged") /\ In("failed")' = In("failed") /\ Ids' = Ids BY DEF In, Ids
<1> QED BY <1>1 DEF Kept, AckedWasDelivered, UnansweredIsKept

\* The write of a record read earlier.
LEMMA WriteKeeps ==
  ASSUME Kept, BufferTypes, NEW id \in RecordIds, NEW st \in Status, PutStale(id, st),
         UNCHANGED <<room, admitted, delivered>>, nacked \subseteq nacked',
         st = "acknowledged" => id \in delivered \cup FalsePositives,
         st = "failed" => id \in nacked',
         filter' \subseteq filter \cup delivered \cup FalsePositives
  PROVE  Kept'
<1>1. store' = [store EXCEPT ![id] = st] /\ st # "absent" BY DEF PutStale, Put, Status
<1>2. /\ In("acknowledged")' \subseteq In("acknowledged") \cup delivered \cup FalsePositives
      /\ In("failed")' \subseteq In("failed") \cup nacked'
      /\ Ids \subseteq Ids'
  BY <1>1 DEF In, Ids, BufferTypes
<1>3. AckedWasDelivered' BY <1>2 DEF Kept, AckedWasDelivered
<1>4. UnansweredIsKept' BY <1>2 DEF Kept, UnansweredIsKept
<1> QED BY <1>2, <1>3, <1>4 DEF Kept

\* Only what was delivered or has failed is evicted.
LEMMA EnqueueKeeps ==
  ASSUME Kept, BufferTypes, NEW p \in Producers, Enqueue(p), UNCHANGED <<filter, delivered>>
  PROVE  Kept'
<1> DEFINE Answered == delivered \cup nacked \cup FalsePositives
<1>1. CASE CheckRoom(p)
  <2>1. /\ UNCHANGED <<store, admitted, nacked>>
        /\ \A q \in Producers : room'[q].list = (IF q = p THEN {} ELSE room[q].list)
    BY <1>1 DEF CheckRoom, BufferTypes
  <2>2. In("acknowledged")' = In("acknowledged") /\ In("failed")' = In("failed") /\ Ids' = Ids BY <2>1 DEF In, Ids
  <2> QED BY <2>1, <2>2 DEF Kept, AckedWasDelivered, UnansweredIsKept
<1>2. CASE EvictOne(p)
  <2>1. PICK id \in room[p].list : Delete(id) /\ room' = [room EXCEPT ![p].list = @ \ {id}, ![p].count = @ - 1]
                                   /\ UNCHANGED <<admitted, nacked>>
    BY <1>2 DEF EvictOne
  <2>2. id \in Answered /\ id \in RecordIds BY <2>1 DEF Kept, BufferTypes, Rooms
  <2>3. store' = [store EXCEPT ![id] = "absent"] BY <2>1 DEF Delete
  <2>4. /\ In("acknowledged")' \subseteq In("acknowledged") /\ In("failed")' \subseteq In("failed")
        /\ Ids \subseteq Ids' \cup {id}
    BY <2>2, <2>3 DEF In, Ids, BufferTypes
  <2>5. \A q \in Producers : room'[q].list \subseteq room[q].list
    BY <2>1 DEF BufferTypes, Rooms
  <2>6. AckedWasDelivered' BY <2>4 DEF Kept, AckedWasDelivered
  <2>7. UnansweredIsKept' BY <2>1, <2>2, <2>4 DEF Kept, UnansweredIsKept
  <2> QED BY <2>1, <2>4, <2>5, <2>6, <2>7 DEF Kept
<1>3. CASE NextPartition(p)
  <2>1. PICK part \in {"acknowledged", "failed"} : room' = [room EXCEPT ![p].part = part, ![p].list = In(part)]
    BY <1>3 DEF NextPartition
  <2>2. UNCHANGED <<store, admitted, nacked>> BY <1>3 DEF NextPartition
  <2>3. In("acknowledged")' = In("acknowledged") /\ In("failed")' = In("failed") /\ Ids' = Ids BY <2>2 DEF In, Ids
  <2>4. In(part) \subseteq Answered BY DEF Kept, AckedWasDelivered
  <2>5. \A q \in Producers : room'[q].list = (IF q = p THEN In(part) ELSE room[q].list)
    BY <2>1 DEF BufferTypes, Rooms
  <2>6. \A q \in Producers : room'[q].list \subseteq delivered' \cup nacked' \cup FalsePositives
    BY <2>2, <2>4, <2>5 DEF Kept
  <2> QED BY <2>2, <2>3, <2>6 DEF Kept, AckedWasDelivered, UnansweredIsKept
<1>4. CASE Refuse(p)
  <2>1. /\ UNCHANGED <<store, admitted, nacked>>
        /\ \A q \in Producers : room'[q].list = (IF q = p THEN {} ELSE room[q].list)
    BY <1>4 DEF Refuse, BufferTypes, Idle
  <2>2. In("acknowledged")' = In("acknowledged") /\ In("failed")' = In("failed") /\ Ids' = Ids BY <2>1 DEF In, Ids
  <2> QED BY <2>1, <2>2 DEF Kept, AckedWasDelivered, UnansweredIsKept
<1>5. CASE Admit(p)
  <2>1. /\ store' = [store EXCEPT ![room[p].id] = "pending"] /\ room[p].id \in RecordIds
        /\ admitted' = admitted \cup {room[p].id} /\ nacked' = nacked
        /\ \A q \in Producers : room'[q].list = (IF q = p THEN {} ELSE room[q].list)
    BY <1>5 DEF Admit, Put, BufferTypes, Idle
  <2>2. /\ In("acknowledged")' \subseteq In("acknowledged") /\ In("failed")' \subseteq In("failed")
        /\ Ids \cup {room[p].id} \subseteq Ids'
    BY <2>1 DEF In, Ids, BufferTypes
  <2>3. AckedWasDelivered' BY <2>2 DEF Kept, AckedWasDelivered
  <2>4. UnansweredIsKept' BY <2>1, <2>2 DEF Kept, UnansweredIsKept
  <2> QED BY <2>1, <2>2, <2>3, <2>4 DEF Kept
<1> QED BY <1>1, <1>2, <1>3, <1>4, <1>5 DEF Enqueue

(***************************************************************************)
(* Loops and owners.                                                       *)
(***************************************************************************)
\* What a loop has in hand.
HeldBy(label, held, writes) ==
  (IF label \in {"mark", "dups", "wait"} THEN held ELSE {}) \cup {w.id : w \in writes}

LEMMA OwnersHold ==
  SyncingIsOwned <=> \A id \in In("syncing") \ orphans : \E l \in Loops : id \in HeldBy(pc[l], batch[l], work[l])
BY DEF SyncingIsOwned, HeldBy

\* Where a loop goes when it enters a stage.
LEMMA EnterGoes ==
  ASSUME NEW l \in Loops, NEW stage \in {"dups", "results", "failed"}, NEW held, NEW writes,
         Enter(l, stage, held, writes)
  PROVE  \E label, h :
           /\ Goto(l, label, h, writes) /\ h \in {held, {}}
           /\ writes # {} => label = stage /\ h = held
           /\ writes = {} => label \in {"wait", "rebase", "scan"}
           /\ label = "wait" => h = held /\ held # {}
           /\ stage = "dups" /\ writes = {} /\ held # {} => label = "wait"
<1>1. CASE writes # {} BY <1>1 DEF Enter
<1>2. CASE writes = {} /\ stage = "dups" /\ held # {} BY <1>2 DEF Enter
<1>3. CASE writes = {} /\ stage = "failed" BY <1>3 DEF Enter
<1>4. CASE writes = {} /\ stage # "failed" /\ ~(stage = "dups" /\ held # {}) BY <1>4 DEF Enter
<1> QED BY <1>1, <1>2, <1>3, <1>4

\* One loop goes on, the others stay where they are.
LEMMA LoopGoes ==
  ASSUME LoopsOK, NEW l \in Loops, NEW label, NEW held, NEW writes, Goto(l, label, held, writes),
         delivered \subseteq delivered', LoopOK(label, held, writes, delivered' \cup FalsePositives)
  PROVE  /\ LoopsOK'
         /\ pc'[l] = label /\ batch'[l] = held /\ work'[l] = writes
         /\ \A k \in Loops \ {l} : pc'[k] = pc[k] /\ batch'[k] = batch[k] /\ work'[k] = work[k]
<1>1. /\ pc' = [k \in Loops |-> IF k = l THEN label ELSE pc[k]]
      /\ batch' = [k \in Loops |-> IF k = l THEN held ELSE batch[k]]
      /\ work' = [k \in Loops |-> IF k = l THEN writes ELSE work[k]]
  BY DEF LoopsOK, Goto
<1>2. \A k \in Loops : LoopOK(pc[k], batch[k], work[k], delivered' \cup FalsePositives)
  BY DEF LoopsOK, LoopOK
<1>3. \A k \in Loops : LoopOK(pc'[k], batch'[k], work'[k], delivered' \cup FalsePositives)
  BY <1>1, <1>2
<1>4. pc' = [k \in Loops |-> pc'[k]] /\ batch' = [k \in Loops |-> batch'[k]] /\ work' = [k \in Loops |-> work'[k]]
  BY <1>1
<1> QED BY <1>1, <1>3, <1>4 DEF LoopsOK

\* Its owners: the loop's own records are in hand, settled or orphaned.
LEMMA OwnersGo ==
  ASSUME SyncingIsOwned, NEW l \in Loops, NEW label, NEW held, NEW writes,
         pc'[l] = label, batch'[l] = held, work'[l] = writes,
         \A k \in Loops \ {l} : pc'[k] = pc[k] /\ batch'[k] = batch[k] /\ work'[k] = work[k],
         \A id \in In("syncing")' \ orphans' :
           \/ id \in HeldBy(label, held, writes)
           \/ id \in In("syncing") \ orphans /\ id \notin HeldBy(pc[l], batch[l], work[l])
  PROVE  SyncingIsOwned'
<1>1. ASSUME NEW id \in In("syncing")' \ orphans'
      PROVE  \E k \in Loops : id \in HeldBy(pc'[k], batch'[k], work'[k])
  <2>1. CASE id \in HeldBy(label, held, writes) BY <2>1
  <2>2. CASE id \in In("syncing") \ orphans /\ id \notin HeldBy(pc[l], batch[l], work[l])
    <3>1. PICK k \in Loops : id \in HeldBy(pc[k], batch[k], work[k]) BY <2>2, OwnersHold
    <3>2. k # l BY <2>2, <3>1
    <3>3. pc'[k] = pc[k] /\ batch'[k] = batch[k] /\ work'[k] = work[k] BY <3>2
    <3> QED BY <3>1, <3>3
  <2> QED BY <1>1, <2>1, <2>2
<1> QED BY <1>1 DEF SyncingIsOwned, HeldBy

\* Steps that leave the loops alone.
LEMMA OwnersStay ==
  ASSUME SyncingIsOwned, loopVars' = loopVars, In("syncing")' \ orphans' \subseteq In("syncing") \ orphans
  PROVE  SyncingIsOwned'
BY DEF SyncingIsOwned, loopVars

LEMMA LoopsStay == ASSUME LoopsOK, loopVars' = loopVars, delivered \subseteq delivered' PROVE LoopsOK'
<1>1. pc' = pc /\ batch' = batch /\ work' = work BY DEF loopVars
<1>2. \A k \in Loops : LoopOK(pc[k], batch[k], work[k], delivered' \cup FalsePositives)
  BY DEF LoopsOK, LoopOK
<1> QED BY <1>1, <1>2 DEF LoopsOK

(***************************************************************************)
(* Steps of the invariant.                                                 *)
(***************************************************************************)
\* Steps that leave the buffer alone.
LEMMA QuietStep ==
  ASSUME SyncInv, UNCHANGED bufferVars, stale' \subseteq RecordIds, engine' \in {"idle", "flushing", "stopped"},
         delivered \subseteq delivered', filter' \subseteq filter \cup delivered' \cup FalsePositives,
         LoopsOK', SyncingIsOwned'
  PROVE  SyncInv'
<1> USE DEF SyncInv
<1>1. BufferTypes' BY DEF BufferTypes, bufferVars, Idle
<1>2. Kept' BY QuietKeeps DEF bufferVars
<1>3. Ids' = Ids BY DEF bufferVars, Ids
<1>4. WithinOverrun' BY <1>3, SameRooms DEF bufferVars
<1> QED BY <1>1, <1>2, <1>4

\* Steps that write a record read earlier.
LEMMA WriteStep ==
  ASSUME SyncInv, NEW id \in RecordIds, NEW st \in Status, PutStale(id, st),
         UNCHANGED <<nextId, room, admitted, delivered, engine>>, stale' \subseteq stale, nacked \subseteq nacked',
         st = "acknowledged" => id \in delivered \cup FalsePositives,
         st = "failed" => id \in nacked',
         filter' \subseteq filter \cup delivered \cup FalsePositives,
         LoopsOK', SyncingIsOwned'
  PROVE  SyncInv'
<1> USE DEF SyncInv
<1>1. WithinOverrun' /\ revivals' \in Nat BY LateWrite
<1>2. store' \in [RecordIds -> Status \cup {"absent"}] BY DEF PutStale, Put, BufferTypes
<1>3. BufferTypes' BY <1>1, <1>2 DEF BufferTypes, Idle
<1>4. Kept' BY WriteKeeps
<1> QED BY <1>1, <1>3, <1>4

\* The syncing records after the write of one.
LEMMA SyncingAfter ==
  ASSUME BufferTypes, NEW id \in RecordIds, NEW st \in Status, PutStale(id, st)
  PROVE  In("syncing")' = IF st = "syncing" THEN In("syncing") \cup {id} ELSE In("syncing") \ {id}
<1>1. store' = [store EXCEPT ![id] = st] BY DEF PutStale, Put
<1> QED BY <1>1 DEF In, BufferTypes

\* The writes of a stage: each is for one of its records, which it moves to the
\* stage's partition without telling the filter.
LEMMA WriteIsOf ==
  ASSUME NEW ids, NEW part, NEW w \in Writes(ids, part)
  PROVE  w.id \in ids
BY DEF Writes, Write

LEMMA WriteGoesTo ==
  ASSUME NEW ids, NEW part, NEW w \in Writes(ids, part)
  PROVE  w.st = part
BY DEF Writes, Write

LEMMA WriteIsSilent ==
  ASSUME NEW ids, NEW part, NEW w \in Writes(ids, part)
  PROVE  w.learn = FALSE
BY DEF Writes, Write

\* There is one for each record.
LEMMA WritesCover ==
  ASSUME NEW ids, NEW part, NEW id \in ids
  PROVE  \E w \in Writes(ids, part) : w.id = id
<1>1. Write(id, part, FALSE).id = id BY DEF Write
<1>2. Write(id, part, FALSE) \in Writes(ids, part) BY DEF Writes
<1> QED BY <1>1, <1>2

LEMMA WritesAre ==
  ASSUME NEW ids \in SUBSET RecordIds, NEW part \in Status
  PROVE  Writes(ids, part) \in SUBSET WriteItems
<1>1. \A id \in ids : Write(id, part, FALSE) \in WriteItems BY DEF Write, WriteItems
<1>2. ASSUME NEW w \in Writes(ids, part) PROVE w \in WriteItems
  <2>1. \E id \in ids : w = Write(id, part, FALSE) BY DEF Writes
  <2> QED BY <1>1, <2>1
<1> QED BY <1>2

\* What an answer has a loop write.
LEMMA ResultsAre ==
  ASSUME NEW answered \in SUBSET RecordIds, NEW accepted \in SUBSET answered
  PROVE  /\ Results(answered, accepted) \in SUBSET WriteItems
         /\ Results(answered, accepted) # {} <=> answered # {}
         /\ \A w \in Results(answered, accepted) : /\ w.st \in {"acknowledged", "failed"}
                                                   /\ w.st = "acknowledged" \/ w.learn => w.id \in accepted
         /\ \A id \in answered : \E w \in Results(answered, accepted) : w.id = id
<1> DEFINE Item(id) == Write(id, IF id \in accepted THEN "acknowledged" ELSE "failed", id \in accepted)
<1>1. \A id \in answered : /\ Item(id) \in WriteItems /\ Item(id).id = id
                           /\ Item(id).st = (IF id \in accepted THEN "acknowledged" ELSE "failed")
                           /\ Item(id).learn = (id \in accepted)
  BY DEF Write, WriteItems, Status
<1>2. Results(answered, accepted) = {Item(id) : id \in answered} BY DEF Results
<1> HIDE DEF Item
<1>3. \A w \in Results(answered, accepted) : \E id \in answered : w = Item(id) BY <1>2
<1>4. \A id \in answered : \E w \in Results(answered, accepted) : w.id = id BY <1>1, <1>2
<1>5. \A w \in Results(answered, accepted) : /\ w.st \in {"acknowledged", "failed"} /\ w \in WriteItems /\ w.id \in answered
                                             /\ w.st = "acknowledged" \/ w.learn => w.id \in accepted
  <2>1. TAKE w \in Results(answered, accepted)
  <2>2. PICK id \in answered : w = Item(id) BY <1>3
  <2>3. CASE id \in accepted BY <1>1, <2>2, <2>3
  <2>4. CASE id \notin accepted BY <1>1, <2>2, <2>4
  <2> QED BY <2>3, <2>4
<1>6. Results(answered, accepted) # {} <=> answered # {} BY <1>3, <1>4
<1> QED BY <1>4, <1>5, <1>6

LEMMA ScanStep == ASSUME SyncInv, NEW l \in Loops, Scan(l) PROVE SyncInv'
<1> USE DEF SyncInv
<1>1. /\ UNCHANGED <<bufferVars, engine, listening, online, filter, stale, delivered, orphans, spent>> /\ pc[l] = "scan"
  BY DEF Scan
<1>2. HeldBy(pc[l], batch[l], work[l]) = {} BY <1>1 DEF HeldBy, LoopsOK, LoopOK
<1>3. In("syncing")' = In("syncing") BY <1>1 DEF In, bufferVars
<1>4. ASSUME NEW label, NEW held, NEW writes, Goto(l, label, held, writes),
             LoopOK(label, held, writes, delivered' \cup FalsePositives)
      PROVE  LoopsOK' /\ SyncingIsOwned'
  <2>1. /\ LoopsOK' /\ pc'[l] = label /\ batch'[l] = held /\ work'[l] = writes
        /\ \A k \in Loops \ {l} : pc'[k] = pc[k] /\ batch'[k] = batch[k] /\ work'[k] = work[k]
    <3>1. LoopsOK /\ delivered \subseteq delivered' BY <1>1
    <3> QED BY <1>4, <3>1, LoopGoes
  <2>2. \A id \in In("syncing")' \ orphans' : id \in In("syncing") \ orphans /\ id \notin HeldBy(pc[l], batch[l], work[l])
    BY <1>1, <1>2, <1>3
  <2> QED BY <2>1, <2>2, OwnersGo
<1>5. LoopsOK' /\ SyncingIsOwned'
  <2>1. CASE Goto(l, "rebase", {}, {})
    <3>1. LoopOK("rebase", {}, {}, delivered' \cup FalsePositives) BY DEF LoopOK, Labels
    <3> QED BY <1>4, <2>1, <3>1
  <2>2. CASE LET oldest == OldestPending(BatchSize)
             IN  oldest # {} /\ Goto(l, "mark", oldest, Writes(oldest, "syncing"))
    <3> DEFINE oldest == OldestPending(BatchSize)
               to == "syncing"
               writes == Writes(oldest, to)
    <3>1. oldest \in SUBSET RecordIds /\ oldest # {} BY <2>2 DEF OldestPending, In
    <3>2. Goto(l, "mark", oldest, writes) BY <2>2
    <3>3. to \in Status BY DEF Status
    <3> HIDE DEF oldest, to
    <3>5. writes \in SUBSET WriteItems BY <3>1, <3>3, WritesAre
    <3>6. writes # {} BY <3>1, WritesCover
    <3>7. \A w \in writes : w.id \in oldest /\ w.st = to /\ w.learn = FALSE
      <4>1. ASSUME NEW v \in writes PROVE v.id \in oldest
        BY <4>1, WriteIsOf
      <4>2. ASSUME NEW v \in writes PROVE v.st = to
        BY <4>2, WriteGoesTo
      <4>3. ASSUME NEW v \in writes PROVE v.learn = FALSE
        BY <4>3, WriteIsSilent
      <4> QED BY <4>1, <4>2, <4>3
    <3> HIDE DEF writes
    <3>4. LoopOK("mark", oldest, writes, delivered' \cup FalsePositives)
      BY <3>1, <3>5, <3>6, <3>7 DEF LoopOK, Labels, to
    <3> QED BY <1>4, <3>2, <3>4
  <2> QED BY <2>1, <2>2 DEF Scan
<1>6. stale' \subseteq RecordIds /\ engine' \in {"idle", "flushing", "stopped"} BY <1>1 DEF BufferTypes
<1> QED BY <1>1, <1>5, <1>6, QuietStep

LEMMA MarkStep == ASSUME SyncInv, NEW l \in Loops, MarkSyncing(l) PROVE SyncInv'
<1> USE DEF SyncInv
<1> DEFINE known == delivered' \cup FalsePositives
<1>1. PICK w \in work[l] : /\ PutStale(w.id, "syncing")
                           /\ IF work[l] # {w} THEN Goto(l, "mark", batch[l], work[l] \ {w}) ELSE SplitDuplicates(l)
  BY DEF MarkSyncing
<1>2. pc[l] = "mark" /\ UNCHANGED <<nextId, room, admitted, nacked, engine, listening, online, filter, stale, delivered, orphans, spent>>
  BY DEF MarkSyncing
<1>3. /\ batch[l] \subseteq RecordIds /\ work[l] \subseteq WriteItems /\ \A v \in work[l] : v.id \in batch[l]
      /\ \A v \in work[l] : v.st = "acknowledged" \/ v.learn => v.id \in known
  BY <1>2 DEF LoopsOK, LoopOK
<1>4. w.id \in RecordIds /\ w.id \in batch[l] /\ "syncing" \in Status BY <1>1, <1>3 DEF Status
<1>5. In("syncing")' = In("syncing") \cup {w.id} BY <1>1, <1>4, SyncingAfter
<1>6. HeldBy(pc[l], batch[l], work[l]) = batch[l] BY <1>2, <1>3 DEF HeldBy
<1>7. ASSUME NEW label, NEW held, NEW writes, Goto(l, label, held, writes), LoopOK(label, held, writes, known),
             batch[l] \subseteq HeldBy(label, held, writes)
      PROVE  LoopsOK' /\ SyncingIsOwned'
  <2>1. /\ LoopsOK' /\ pc'[l] = label /\ batch'[l] = held /\ work'[l] = writes
        /\ \A k \in Loops \ {l} : pc'[k] = pc[k] /\ batch'[k] = batch[k] /\ work'[k] = work[k]
    BY <1>2, <1>7, LoopGoes
  <2>2. \A id \in In("syncing")' \ orphans' :
           \/ id \in HeldBy(label, held, writes)
           \/ id \in In("syncing") \ orphans /\ id \notin HeldBy(pc[l], batch[l], work[l])
    BY <1>2, <1>4, <1>5, <1>6, <1>7
  <2> QED BY <2>1, <2>2, OwnersGo
<1>8. LoopsOK' /\ SyncingIsOwned'
  <2>1. CASE work[l] # {w}
    <3>1. Goto(l, "mark", batch[l], work[l] \ {w}) BY <1>1, <2>1
    <3>2. LoopOK("mark", batch[l], work[l] \ {w}, known) BY <1>1, <1>3, <2>1 DEF LoopOK, Labels
    <3>3. batch[l] \subseteq HeldBy("mark", batch[l], work[l] \ {w}) BY DEF HeldBy
    <3> QED BY <1>7, <3>1, <3>2, <3>3
  <2>2. CASE work[l] = {w}
    <3> DEFINE fresh == {id \in batch[l] : ~MightContain(id)}
               dups == {id \in batch[l] : MightContain(id)}
               to == "acknowledged"
               writes == Writes(dups, to)
    <3>1. /\ fresh \in SUBSET RecordIds /\ dups \in SUBSET RecordIds /\ fresh \cup dups = batch[l]
          /\ dups \subseteq known
      BY <1>2, <1>3 DEF MightContain, Kept, AckedWasDelivered
    <3>2. Enter(l, "dups", fresh, writes) BY <1>1, <2>2 DEF SplitDuplicates
    <3>4. to \in Status BY DEF Status
    <3> HIDE DEF fresh, dups, known, to
    <3>7. /\ writes \in SUBSET WriteItems
          /\ writes # {} <=> dups # {}
          /\ \A v \in writes : v.id \in dups /\ v.st = to
          /\ \A id \in dups : \E v \in writes : v.id = id
      <4>1. dups \in SUBSET RecordIds BY <3>1
      <4>2. writes \in SUBSET WriteItems BY <3>4, <4>1, WritesAre
      <4>4. ASSUME NEW v \in writes PROVE v.id \in dups BY <4>4, WriteIsOf
      <4>6. ASSUME NEW v \in writes PROVE v.st = to BY <4>6, WriteGoesTo
      <4>5. \A id \in dups : \E v \in writes : v.id = id BY WritesCover
      <4>3. writes # {} <=> dups # {} BY <4>4, <4>5
      <4> QED BY <4>2, <4>3, <4>4, <4>5, <4>6
    <3> HIDE DEF writes
    <3>3. PICK label, h :
           /\ Goto(l, label, h, writes) /\ h \in {fresh, {}}
           /\ writes # {} => label = "dups" /\ h = fresh
           /\ writes = {} => label \in {"wait", "rebase", "scan"}
           /\ label = "wait" => h = fresh /\ fresh # {}
           /\ writes = {} /\ fresh # {} => label = "wait"
      BY <3>2, EnterGoes
    <3>8. /\ h \in {fresh, {}}
          /\ writes # {} => label = "dups" /\ h = fresh
          /\ writes = {} => label \in {"wait", "rebase", "scan"}
          /\ label = "wait" => h = fresh /\ fresh # {}
          /\ writes = {} /\ fresh # {} => label = "wait"
      BY <3>3
    <3>5. LoopOK(label, h, writes, known)
      BY <3>1, <3>7, <3>8 DEF LoopOK, Labels, to
    <3>6. batch[l] \subseteq HeldBy(label, h, writes)
      <4>1. CASE dups # {}
        <5>1. label = "dups" /\ h = fresh BY <3>7, <3>8, <4>1
        <5> QED BY <3>1, <3>7, <5>1 DEF HeldBy
      <4>2. CASE dups = {}
        <5>1. fresh # {} BY <1>4, <3>1, <4>2
        <5>2. label = "wait" /\ h = fresh BY <3>7, <3>8, <4>2, <5>1
        <5> QED BY <3>1, <4>2, <5>2 DEF HeldBy
      <4> QED BY <4>1, <4>2
    <3> QED BY <1>7, <3>3, <3>5, <3>6
  <2> QED BY <2>1, <2>2
<1> QED BY <1>1, <1>2, <1>4, <1>8, WriteStep

\* A loop that has one write less to make, or one read more, goes on.
LEMMA StageGoesOn ==
  ASSUME LoopsOK, SyncingIsOwned, NEW l \in Loops, pc[l] \in {"dups", "results", "failed"},
         NEW writes \in SUBSET WriteItems, Enter(l, pc[l], batch[l], writes),
         delivered' = delivered, orphans' = orphans,
         \A w \in writes : \E v \in work[l] : w.id = v.id /\ w.st = v.st /\ w.learn = v.learn,
         \A id \in In("syncing")' :
           id \in In("syncing") /\ ((\E v \in work[l] : v.id = id) => \E w \in writes : w.id = id)
  PROVE  LoopsOK' /\ SyncingIsOwned'
<1> DEFINE known == delivered \cup FalsePositives
<1>1. PICK label, h :
        /\ Goto(l, label, h, writes) /\ h \in {batch[l], {}}
        /\ writes # {} => label = pc[l] /\ h = batch[l]
        /\ writes = {} => label \in {"wait", "rebase", "scan"}
        /\ label = "wait" => h = batch[l] /\ batch[l] # {}
        /\ pc[l] = "dups" /\ writes = {} /\ batch[l] # {} => label = "wait"
  <2>1. CASE writes # {} BY <2>1 DEF Enter
  <2>2. CASE writes = {} /\ pc[l] = "dups" /\ batch[l] # {} BY <2>2 DEF Enter
  <2>3. CASE writes = {} /\ pc[l] = "failed" BY <2>3 DEF Enter
  <2>4. CASE writes = {} /\ pc[l] # "failed" /\ ~(pc[l] = "dups" /\ batch[l] # {}) BY <2>4 DEF Enter
  <2> QED BY <2>1, <2>2, <2>3, <2>4
<1>2. LoopOK(pc[l], batch[l], work[l], known) BY DEF LoopsOK
<1>3. LoopOK(label, h, writes, known)
  <2>1. \A w \in writes : w.st \in {"acknowledged", "failed"} /\ (w.st = "acknowledged" \/ w.learn => w.id \in known)
    BY <1>2 DEF LoopOK
  <2>2. batch[l] \subseteq RecordIds BY <1>2 DEF LoopOK
  <2>3. CASE writes # {}
    <3>1. label = pc[l] /\ h = batch[l] BY <1>1, <2>3
    <3> QED BY <2>1, <2>2, <2>3, <3>1 DEF LoopOK, Labels
  <2>4. CASE writes = {}
    <3>1. label \in {"wait", "rebase", "scan"} /\ h \subseteq RecordIds /\ (label = "wait" => h # {})
      BY <1>1, <2>2, <2>4
    <3> QED BY <2>4, <3>1 DEF LoopOK, Labels
  <2> QED BY <2>3, <2>4
<1>4. /\ LoopsOK' /\ pc'[l] = label /\ batch'[l] = h /\ work'[l] = writes
      /\ \A k \in Loops \ {l} : pc'[k] = pc[k] /\ batch'[k] = batch[k] /\ work'[k] = work[k]
  <2>1. LoopOK(label, h, writes, delivered' \cup FalsePositives) /\ delivered \subseteq delivered' BY <1>3
  <2>2. Goto(l, label, h, writes) BY <1>1
  <2> QED BY <2>1, <2>2, LoopGoes
<1>5. ASSUME NEW id \in In("syncing")' \ orphans'
      PROVE  \/ id \in HeldBy(label, h, writes)
             \/ id \in In("syncing") \ orphans /\ id \notin HeldBy(pc[l], batch[l], work[l])
  <2>1. CASE \E v \in work[l] : v.id = id BY <1>5, <2>1 DEF HeldBy
  <2>2. CASE pc[l] = "dups" /\ id \in batch[l]
    <3>1. label \in {"dups", "wait"} /\ h = batch[l] BY <1>1, <2>2
    <3> QED BY <2>2, <3>1 DEF HeldBy
  <2>3. CASE ~(\E v \in work[l] : v.id = id) /\ ~(pc[l] = "dups" /\ id \in batch[l])
    <3>1. id \notin HeldBy(pc[l], batch[l], work[l]) BY <2>3 DEF HeldBy
    <3> QED BY <1>5, <3>1
  <2> QED BY <2>1, <2>2, <2>3
<1> QED BY <1>4, <1>5, OwnersGo

LEMMA ReadStep == ASSUME SyncInv, NEW l \in Loops, ReadRecord(l) PROVE SyncInv'
<1> USE DEF SyncInv
<1>1. /\ pc[l] \in {"dups", "results", "failed"}
      /\ UNCHANGED <<bufferVars, engine, listening, online, stale, delivered, orphans, spent>>
  BY DEF ReadRecord
<1>2. PICK w \in work[l] :
        IF w.id \in Ids
        THEN Goto(l, pc[l], batch[l], (work[l] \ {w}) \cup {[w EXCEPT !.found = TRUE]}) /\ UNCHANGED filter
        ELSE Enter(l, pc[l], batch[l], work[l] \ {w}) /\ Learn(w)
  BY DEF ReadRecord
<1>3. LoopOK(pc[l], batch[l], work[l], delivered \cup FalsePositives) BY DEF LoopsOK
<1>4. In("syncing")' = In("syncing") BY <1>1 DEF In, bufferVars
<1>5. w \in WriteItems /\ work[l] \subseteq WriteItems BY <1>2, <1>3 DEF LoopOK
<1>6. stale' \subseteq RecordIds /\ engine' \in {"idle", "flushing", "stopped"} BY <1>1 DEF BufferTypes
<1>7. CASE w.id \in Ids
  <2> DEFINE found == [w EXCEPT !.found = TRUE]
             writes == (work[l] \ {w}) \cup {found}
  <2>1. found \in WriteItems /\ found.id = w.id /\ found.st = w.st /\ found.learn = w.learn BY <1>5 DEF WriteItems
  <2>2. Goto(l, pc[l], batch[l], writes) /\ UNCHANGED filter BY <1>2, <1>7
  <2> HIDE DEF found
  <2>3. Enter(l, pc[l], batch[l], writes) BY <2>2 DEF Enter
  <2>4. writes \in SUBSET WriteItems BY <1>5, <2>1
  <2>5. \A v \in writes : \E u \in work[l] : v.id = u.id /\ v.st = u.st /\ v.learn = u.learn BY <2>1
  <2>6. \A id \in In("syncing")' :
          id \in In("syncing") /\ ((\E v \in work[l] : v.id = id) => \E v \in writes : v.id = id)
    BY <1>4, <2>1
  <2> HIDE DEF writes
  <2>7. LoopsOK' /\ SyncingIsOwned' BY <1>1, <2>3, <2>4, <2>5, <2>6, StageGoesOn
  <2> QED BY <1>1, <1>6, <2>2, <2>7, QuietStep
<1>8. CASE w.id \notin Ids
  <2>1. Enter(l, pc[l], batch[l], work[l] \ {w}) /\ Learn(w) BY <1>2, <1>8
  <2>2. \A id \in In("syncing")' :
          id \in In("syncing") /\ ((\E v \in work[l] : v.id = id) => \E v \in work[l] \ {w} : v.id = id)
    BY <1>4, <1>8 DEF In, Ids
  <2>3. LoopsOK' /\ SyncingIsOwned'
    <3>1. work[l] \ {w} \in SUBSET WriteItems BY <1>5
    <3>2. \A v \in work[l] \ {w} : \E u \in work[l] : v.id = u.id /\ v.st = u.st /\ v.learn = u.learn OBVIOUS
    <3> QED BY <1>1, <2>1, <2>2, <3>1, <3>2, StageGoesOn
  <2>4. filter' \subseteq filter \cup delivered' \cup FalsePositives BY <1>1, <1>3, <2>1 DEF Learn, LoopOK
  <2> QED BY <1>1, <1>6, <2>3, <2>4, QuietStep
<1> QED BY <1>7, <1>8

LEMMA SettleStep == ASSUME SyncInv, NEW l \in Loops, SettleRecord(l) PROVE SyncInv'
<1> USE DEF SyncInv
<1>1. /\ pc[l] \in {"dups", "results", "failed"}
      /\ UNCHANGED <<nextId, room, admitted, engine, listening, online, stale, delivered, orphans, spent>>
  BY DEF SettleRecord
<1>2. PICK w \in work[l] : /\ PutStale(w.id, w.st)
                           /\ nacked' = IF w.st = "failed" THEN nacked \cup {w.id} ELSE nacked
                           /\ Learn(w)
                           /\ Enter(l, pc[l], batch[l], work[l] \ {w})
  BY DEF SettleRecord
<1>3. LoopOK(pc[l], batch[l], work[l], delivered \cup FalsePositives) BY DEF LoopsOK
<1>4. /\ w.id \in RecordIds /\ work[l] \subseteq WriteItems
      /\ w.st \in {"acknowledged", "failed"} /\ w.st \in Status /\ w.st # "syncing"
  BY <1>1, <1>2, <1>3 DEF LoopOK, WriteItems
<1>5. w.st = "acknowledged" \/ w.learn => w.id \in delivered \cup FalsePositives BY <1>2, <1>3 DEF LoopOK
<1>6. In("syncing")' = In("syncing") \ {w.id} BY <1>2, <1>4, SyncingAfter
<1>7. LoopsOK' /\ SyncingIsOwned'
  <2>1. \A id \in In("syncing")' :
          id \in In("syncing") /\ ((\E v \in work[l] : v.id = id) => \E v \in work[l] \ {w} : v.id = id)
    BY <1>6
  <2>2. work[l] \ {w} \in SUBSET WriteItems BY <1>4
  <2>3. \A v \in work[l] \ {w} : \E u \in work[l] : v.id = u.id /\ v.st = u.st /\ v.learn = u.learn OBVIOUS
  <2> QED BY <1>1, <1>2, <2>1, <2>2, <2>3, StageGoesOn
<1>8. filter' \subseteq filter \cup delivered \cup FalsePositives BY <1>2, <1>5 DEF Learn
<1>9. nacked \subseteq nacked' /\ (w.st = "failed" => w.id \in nacked') BY <1>2
<1>10. w.st = "acknowledged" => w.id \in delivered \cup FalsePositives BY <1>5
<1> QED BY <1>1, <1>2, <1>4, <1>7, <1>8, <1>9, <1>10, WriteStep

\* A loop goes on in a step that leaves the buffer alone.
LEMMA QuietLoopStep ==
  ASSUME SyncInv, NEW l \in Loops, NEW label, NEW held, NEW writes, Goto(l, label, held, writes),
         UNCHANGED bufferVars, stale' \subseteq RecordIds, engine' \in {"idle", "flushing", "stopped"},
         delivered \subseteq delivered', filter' \subseteq filter \cup delivered' \cup FalsePositives,
         LoopOK(label, held, writes, delivered' \cup FalsePositives),
         \A id \in HeldBy(pc[l], batch[l], work[l]) : id \in HeldBy(label, held, writes) \cup orphans',
         orphans \subseteq orphans'
  PROVE  SyncInv'
<1> USE DEF SyncInv
<1>1. /\ LoopsOK' /\ pc'[l] = label /\ batch'[l] = held /\ work'[l] = writes
      /\ \A k \in Loops \ {l} : pc'[k] = pc[k] /\ batch'[k] = batch[k] /\ work'[k] = work[k]
  <2>1. LoopsOK OBVIOUS
  <2> HIDE DEF SyncInv
  <2> QED BY <2>1, LoopGoes
<1>2. In("syncing")' = In("syncing") BY DEF In, bufferVars
<1>3. \A id \in In("syncing")' \ orphans' :
        \/ id \in HeldBy(label, held, writes)
        \/ id \in In("syncing") \ orphans /\ id \notin HeldBy(pc[l], batch[l], work[l])
  BY <1>2
<1>4. SyncingIsOwned' BY <1>1, <1>3, OwnersGo
<1> QED BY <1>1, <1>4, QuietStep

LEMMA AnswerStep == ASSUME SyncInv, NEW l \in Loops, Answer(l) PROVE SyncInv'
<1> USE DEF SyncInv
<1>0. PICK answered \in SUBSET batch[l] : \E accepted \in SUBSET answered :
        /\ delivered' = delivered \cup accepted
        /\ orphans' = orphans \cup (batch[l] \ answered)
        /\ Enter(l, "results", {}, Results(answered, accepted))
  BY DEF Answer
<1>1. PICK accepted \in SUBSET answered :
        /\ delivered' = delivered \cup accepted
        /\ orphans' = orphans \cup (batch[l] \ answered)
        /\ Enter(l, "results", {}, Results(answered, accepted))
  BY <1>0
<1>2. pc[l] = "wait" /\ UNCHANGED <<bufferVars, engine, listening, online, filter, stale>> BY DEF Answer
<1>3. work[l] = {} /\ batch[l] \subseteq RecordIds BY <1>2 DEF LoopsOK, LoopOK
<1> DEFINE writes == Results(answered, accepted)
<1>4. /\ writes \in SUBSET WriteItems
      /\ \A w \in writes : /\ w.st \in {"acknowledged", "failed"}
                           /\ w.st = "acknowledged" \/ w.learn => w.id \in accepted
      /\ \A id \in answered : \E w \in writes : w.id = id
  BY <1>3, ResultsAre
<1>5. Enter(l, "results", {}, writes) BY <1>1
<1> HIDE DEF writes
<1>6. PICK label : Goto(l, label, {}, writes) /\ label = (IF writes # {} THEN "results" ELSE "scan")
  <2>1. CASE writes # {} BY <1>5, <2>1 DEF Enter
  <2>2. CASE writes = {} BY <1>5, <2>2 DEF Enter
  <2> QED BY <2>1, <2>2
<1>7. LoopOK(label, {}, writes, delivered' \cup FalsePositives)
  <2>1. \A w \in writes : w.st = "acknowledged" \/ w.learn => w.id \in delivered' \cup FalsePositives
    BY <1>1, <1>4
  <2>2. \A w \in writes : w.st \in {"acknowledged", "failed"} BY <1>4
  <2>3. CASE writes # {} BY <1>4, <1>6, <2>1, <2>2, <2>3 DEF LoopOK, Labels
  <2>4. CASE writes = {} BY <1>6, <2>4 DEF LoopOK, Labels
  <2> QED BY <2>3, <2>4
<1>8. \A id \in HeldBy(pc[l], batch[l], work[l]) : id \in HeldBy(label, {}, writes) \cup orphans'
  BY <1>1, <1>2, <1>3, <1>4 DEF HeldBy
<1>9. /\ stale' \subseteq RecordIds /\ engine' \in {"idle", "flushing", "stopped"}
      /\ delivered \subseteq delivered' /\ filter' \subseteq filter \cup delivered' \cup FalsePositives
      /\ orphans \subseteq orphans' /\ UNCHANGED bufferVars
  BY <1>1, <1>2 DEF BufferTypes
<1>10. Goto(l, label, {}, writes) BY <1>6
<1> QED BY <1>7, <1>8, <1>9, <1>10, QuietLoopStep

LEMMA FailStep == ASSUME SyncInv, NEW l \in Loops, TransportFails(l) PROVE SyncInv'
<1> USE DEF SyncInv
<1>1. /\ pc[l] = "wait" /\ UNCHANGED <<bufferVars, engine, listening, online, filter, stale, orphans>>
      /\ delivered \subseteq delivered' /\ Goto(l, "failed", {}, Writes(batch[l], "failed"))
  BY DEF TransportFails
<1> DEFINE sent == batch[l]
           to == "failed"
           writes == Writes(sent, to)
<1>2. work[l] = {} /\ sent \in SUBSET RecordIds /\ sent # {} BY <1>1 DEF LoopsOK, LoopOK
<1>3. to \in Status BY DEF Status
<1>4. Goto(l, "failed", {}, writes) BY <1>1
<1> HIDE DEF sent, to
<1>5. writes \in SUBSET WriteItems BY <1>2, <1>3, WritesAre
<1>6. writes # {} BY <1>2, WritesCover
<1>7. \A w \in writes : w.id \in sent /\ w.st = to /\ w.learn = FALSE
  <2>1. ASSUME NEW w \in writes PROVE w.id \in sent BY <2>1, WriteIsOf
  <2>2. ASSUME NEW w \in writes PROVE w.st = to BY <2>2, WriteGoesTo
  <2>3. ASSUME NEW w \in writes PROVE w.learn = FALSE BY <2>3, WriteIsSilent
  <2> QED BY <2>1, <2>2, <2>3
<1>8. \A id \in sent : \E w \in writes : w.id = id BY WritesCover
<1> HIDE DEF writes
<1>9. LoopOK("failed", {}, writes, delivered' \cup FalsePositives) BY <1>5, <1>6, <1>7 DEF LoopOK, Labels, to
<1>10. \A id \in HeldBy(pc[l], batch[l], work[l]) : id \in HeldBy("failed", {}, writes) \cup orphans'
  BY <1>1, <1>2, <1>8 DEF HeldBy, sent
<1>11. /\ stale' \subseteq RecordIds /\ engine' \in {"idle", "flushing", "stopped"}
       /\ filter' \subseteq filter \cup delivered' \cup FalsePositives
       /\ orphans \subseteq orphans' /\ UNCHANGED bufferVars
  BY <1>1 DEF BufferTypes
<1> QED BY <1>1, <1>4, <1>9, <1>10, <1>11, QuietLoopStep

LEMMA RebaseStep == ASSUME SyncInv, NEW l \in Loops, Rebase(l) PROVE SyncInv'
<1> USE DEF SyncInv
<1>1. /\ pc[l] = "rebase" /\ UNCHANGED <<bufferVars, listening, online, stale, delivered, orphans, spent>>
      /\ filter' = (IF In("pending") = {} THEN {} ELSE filter)
      /\ engine' = (IF engine = "stopped" THEN engine ELSE "idle")
      /\ Goto(l, "off", {}, {})
  BY DEF Rebase
<1>2. HeldBy(pc[l], batch[l], work[l]) = {} BY <1>1 DEF LoopsOK, LoopOK, HeldBy
<1>3. LoopOK("off", {}, {}, delivered' \cup FalsePositives) BY DEF LoopOK, Labels
<1>4. /\ stale' \subseteq RecordIds /\ engine' \in {"idle", "flushing", "stopped"}
      /\ delivered \subseteq delivered' /\ filter' \subseteq filter \cup delivered' \cup FalsePositives
      /\ orphans \subseteq orphans' /\ UNCHANGED bufferVars
  BY <1>1 DEF BufferTypes
<1> QED BY <1>1, <1>2, <1>3, <1>4, QuietLoopStep

\* Connectivity, a start or a stop.
LEMMA OnlineStep ==
  ASSUME SyncInv, NEW state \in {"idle", "flushing", "stopped"}, HandleOnline(state),
         UNCHANGED <<bufferVars, filter, stale, delivered, orphans>>
  PROVE  SyncInv'
<1> USE DEF SyncInv
<1>1. /\ stale' \subseteq RecordIds /\ delivered \subseteq delivered'
      /\ filter' \subseteq filter \cup delivered' \cup FalsePositives
      /\ orphans \subseteq orphans' /\ UNCHANGED bufferVars
      /\ In("syncing")' \ orphans' \subseteq In("syncing") \ orphans
  BY DEF BufferTypes, In, bufferVars
<1>2. CASE state \in {"flushing", "stopped"}
  <2>1. loopVars' = loopVars /\ engine' \in {"idle", "flushing", "stopped"} BY <1>2 DEF HandleOnline
  <2>2. LoopsOK' /\ SyncingIsOwned' BY <1>1, <2>1, LoopsStay, OwnersStay
  <2> QED BY <1>1, <2>1, <2>2, QuietStep
<1>3. CASE state = "idle"
  <2>1. PICK l \in Loops : pc[l] = "off" /\ Goto(l, "scan", {}, {}) BY <1>3 DEF HandleOnline
  <2>2. engine' \in {"idle", "flushing", "stopped"} BY <1>3 DEF HandleOnline
  <2>3. HeldBy(pc[l], batch[l], work[l]) = {} BY <2>1 DEF LoopsOK, LoopOK, HeldBy
  <2>4. LoopOK("scan", {}, {}, delivered' \cup FalsePositives) BY DEF LoopOK, Labels
  <2> QED BY <1>1, <2>1, <2>2, <2>3, <2>4, QuietLoopStep
<1> QED BY <1>2, <1>3

LEMMA IdleLoopsStep ==
  ASSUME SyncInv, UNCHANGED <<bufferVars, filter, loopVars, delivered, orphans>>,
         stale' \subseteq RecordIds, engine' \in {"idle", "flushing", "stopped"}
  PROVE  SyncInv'
<1> USE DEF SyncInv
<1>1. In("syncing")' \ orphans' \subseteq In("syncing") \ orphans BY DEF In, bufferVars
<1>2. LoopsOK' /\ SyncingIsOwned' BY <1>1, LoopsStay, OwnersStay
<1> QED BY <1>2, QuietStep

LEMMA ResetStep == ASSUME SyncInv, ResetOne PROVE SyncInv'
<1> USE DEF SyncInv
<1>1. PICK id \in stale : PutStale(id, "pending") /\ stale' = stale \ {id} /\ orphans' = orphans \ {id}
  BY DEF ResetOne
<1>2. UNCHANGED <<nextId, room, admitted, nacked, engine, listening, online, filter, loopVars, delivered, spent>>
  BY DEF ResetOne
<1>3. id \in RecordIds /\ "pending" \in Status BY <1>1 DEF BufferTypes, Status
<1>4. In("syncing")' = In("syncing") \ {id} BY <1>1, <1>3, SyncingAfter
<1>5. In("syncing")' \ orphans' \subseteq In("syncing") \ orphans BY <1>1, <1>4
<1>6. LoopsOK' /\ SyncingIsOwned' BY <1>2, <1>5, LoopsStay, OwnersStay
<1> QED BY <1>1, <1>2, <1>3, <1>6, WriteStep

LEMMA CrashStep == ASSUME SyncInv, Crash PROVE SyncInv'
<1> USE DEF SyncInv
<1>1. /\ engine' = "idle" /\ filter' = {} /\ stale' = {}
      /\ pc' = [l \in Loops |-> "off"] /\ batch' = [l \in Loops |-> {}] /\ work' = [l \in Loops |-> {}]
      /\ room' = [p \in Producers |-> Idle] /\ orphans' = In("syncing")
      /\ UNCHANGED <<store, nextId, admitted, revivals, nacked, delivered>>
  BY DEF Crash
<1>2. /\ In("syncing")' = In("syncing") /\ In("acknowledged")' = In("acknowledged")
      /\ In("failed")' = In("failed") /\ Ids' = Ids
  BY <1>1 DEF In, Ids
<1>3. BufferTypes'
  <2>1. Idle \in Rooms BY CapacityAssumption DEF Idle, Rooms
  <2>2. room' \in [Producers -> Rooms] /\ \A p \in Producers : room'[p] = Idle BY <1>1, <2>1
  <2> QED BY <1>1, <2>2 DEF BufferTypes, Idle
<1>4. LoopsOK'
  <2>1. LoopOK("off", {}, {}, delivered' \cup FalsePositives) BY DEF LoopOK, Labels
  <2> QED BY <1>1, <2>1 DEF LoopsOK
<1>5. SyncingIsOwned' BY <1>1, <1>2 DEF SyncingIsOwned
<1>6. Kept'
  <2>1. \A p \in Producers : room'[p].list = {} BY <1>1 DEF Idle
  <2> QED BY <1>1, <1>2, <2>1 DEF Kept, AckedWasDelivered, UnansweredIsKept
<1>7. WithinOverrun'
  <2>1. ASSUME NEW n \in Int, n >= MaxRecords - 1
        PROVE  Cardinality(Ahead(n)') + Cardinality(Ids') =< n + Cardinality(Producers) + revivals'
    <3>1. Ahead(n)' = {} BY <1>1 DEF Ahead, Idle
    <3>2. Cardinality(Ahead(n)') = 0 BY <3>1, FS_EmptySet
    <3>3. Cardinality(Ids) =< MaxRecords + Cardinality(Producers) - 1 + revivals BY OverrunFollows DEF OverrunBounded
    <3> QED BY <1>1, <1>2, <2>1, <3>2, <3>3, FiniteIds, FiniteAhead, CapacityAssumption DEF BufferTypes
  <2> QED BY <2>1 DEF WithinOverrun
<1> QED BY <1>3, <1>4, <1>5, <1>6, <1>7

LEMMA ProduceStep == ASSUME SyncInv, Produce PROVE SyncInv'
<1> USE DEF SyncInv
<1>1. PICK p \in Producers : Enqueue(p) BY DEF Produce
<1>2. UNCHANGED <<engine, listening, online, filter, loopVars, stale, delivered, orphans, spent>> BY DEF Produce
<1>3. WithinOverrun' BY <1>1, EnqueueWithin
<1>4. Kept' BY <1>1, <1>2, EnqueueKeeps
<1>5. BufferTypes'
  <2>1. /\ store' \in [RecordIds -> Status \cup {"absent"}]
        /\ nextId' \in 1..(MaxId + 1)
        /\ room' \in [Producers -> Rooms]
        /\ \A q \in Producers : room'[q] # Idle => room'[q].id \in RecordIds
        /\ revivals' \in Nat
    BY <1>1, EnqueueTypes
  <2> QED BY <1>2, <2>1 DEF BufferTypes, Idle
<1>6. LoopsOK' BY <1>2, LoopsStay
<1>7. In("syncing")' \subseteq In("syncing")
  <2>1. CASE store' = store BY <2>1 DEF In
  <2>2. CASE EvictOne(p)
    <3>1. PICK id \in RecordIds : store' = [store EXCEPT ![id] = "absent"]
      BY <2>2 DEF EvictOne, Delete, BufferTypes, Rooms
    <3> QED BY <3>1 DEF In, BufferTypes
  <2>3. CASE Admit(p)
    <3>1. store' = [store EXCEPT ![room[p].id] = "pending"] BY <2>3 DEF Admit, Put
    <3> QED BY <3>1 DEF In, BufferTypes
  <2> QED BY <1>1, <2>1, <2>2, <2>3 DEF Enqueue, CheckRoom, NextPartition, Refuse
<1>8. SyncingIsOwned' BY <1>2, <1>7, OwnersStay
<1> QED BY <1>3, <1>4, <1>5, <1>6, <1>8

(***************************************************************************)
(* The theorems.                                                           *)
(***************************************************************************)
LEMMA SyncInvInit == Init => SyncInv
<1> SUFFICES ASSUME Init PROVE SyncInv OBVIOUS
<1> USE DEF Init, BufferInit
<1>1. Ids = {} /\ \A st \in Status : In(st) = {} BY DEF Ids, In, Status
<1>2. BufferTypes
  <2>1. Idle \in Rooms BY CapacityAssumption DEF Idle, Rooms
  <2>2. room \in [Producers -> Rooms] /\ \A p \in Producers : room[p] = Idle BY <2>1
  <2>3. nextId \in 1..(MaxId + 1) BY CapacityAssumption
  <2> QED BY <2>2, <2>3 DEF BufferTypes, Status
<1>3. LoopsOK
  <2>1. LoopOK("off", {}, {}, delivered \cup FalsePositives) BY DEF LoopOK, Labels
  <2> QED BY <2>1 DEF LoopsOK
<1>4. In("syncing") = {} /\ In("acknowledged") = {} /\ In("failed") = {} BY <1>1 DEF Status
<1>5. SyncingIsOwned BY <1>4 DEF SyncingIsOwned
<1>6. Kept
  <2>1. \A p \in Producers : room[p].list = {} BY DEF Idle
  <2> QED BY <1>4, <2>1 DEF Kept, AckedWasDelivered, UnansweredIsKept
<1>7. WithinOverrun
  <2>1. ASSUME NEW n \in Int, n >= MaxRecords - 1
        PROVE  Cardinality(Ahead(n)) + Cardinality(Ids) =< n + Cardinality(Producers) + revivals
    <3>1. Cardinality(Ahead(n)) = 0
      <4>1. Ahead(n) = {} BY DEF Ahead
      <4> QED BY <4>1, FS_EmptySet
    <3>2. Cardinality(Ids) = 0 BY <1>1, FS_EmptySet
    <3> QED BY <2>1, <3>1, <3>2, FiniteAhead, CapacityAssumption
  <2> QED BY <2>1 DEF WithinOverrun
<1> QED BY <1>2, <1>3, <1>5, <1>6, <1>7 DEF SyncInv

LEMMA SyncInvNext == SyncInv /\ [Next]_vars => SyncInv'
<1> SUFFICES ASSUME SyncInv, [Next]_vars PROVE SyncInv' OBVIOUS
<1>1. stale \subseteq RecordIds /\ engine \in {"idle", "flushing", "stopped"} BY DEF SyncInv, BufferTypes
<1>2. CASE Produce BY <1>2, ProduceStep
<1>3. CASE GoOnline
  <2>1. CASE listening
    <3>1. HandleOnline(engine) /\ UNCHANGED <<bufferVars, filter, stale, delivered, orphans>> BY <1>3, <2>1 DEF GoOnline
    <3> QED BY <1>1, <3>1, OnlineStep
  <2>2. CASE ~listening
    <3>1. UNCHANGED <<bufferVars, filter, loopVars, delivered, orphans>> /\ stale' = stale /\ engine' = engine
      BY <1>3, <2>2 DEF GoOnline
    <3> QED BY <1>1, <3>1, IdleLoopsStep
  <2> QED BY <2>1, <2>2
<1>4. CASE GoOffline
  <2>1. UNCHANGED <<bufferVars, filter, loopVars, delivered, orphans>> /\ engine' = engine /\ stale' \subseteq RecordIds
    BY <1>1, <1>4 DEF GoOffline, In
  <2> QED BY <1>1, <2>1, IdleLoopsStep
<1>5. CASE ResetOne BY <1>5, ResetStep
<1>6. CASE Start
  <2>1. CASE online
    <3>1. HandleOnline("idle") /\ UNCHANGED <<bufferVars, filter, stale, delivered, orphans>> BY <1>6, <2>1 DEF Start
    <3> QED BY <3>1, OnlineStep
  <2>2. CASE ~online
    <3>1. UNCHANGED <<bufferVars, filter, loopVars, delivered, orphans>> /\ stale' = stale /\ engine' = "idle"
      BY <1>6, <2>2 DEF Start
    <3> QED BY <1>1, <3>1, IdleLoopsStep
  <2> QED BY <2>1, <2>2
<1>7. CASE Stop
  <2>1. UNCHANGED <<bufferVars, filter, loopVars, delivered, orphans>> /\ stale' = stale /\ engine' = "stopped"
    BY <1>7 DEF Stop
  <2> QED BY <1>1, <2>1, IdleLoopsStep
<1>8. CASE Crash BY <1>8, CrashStep
<1>9. ASSUME NEW l \in Loops, Flush(l) PROVE SyncInv'
  BY <1>9, ScanStep, MarkStep, ReadStep, SettleStep, AnswerStep, FailStep, RebaseStep DEF Flush
<1>10. CASE UNCHANGED vars
  <2>1. UNCHANGED <<bufferVars, filter, loopVars, delivered, orphans>> /\ stale' = stale /\ engine' = engine
    BY <1>10 DEF vars
  <2> QED BY <1>1, <2>1, IdleLoopsStep
<1> QED BY <1>2, <1>3, <1>4, <1>5, <1>6, <1>7, <1>8, <1>9, <1>10 DEF Next

LEMMA SyncInvHolds == Spec => []SyncInv
BY SyncInvInit, SyncInvNext, PTL DEF Spec

\* offline-buffer.ts:80-250, sync-engine.ts:113-175: for any producers, loops,
\* losses and faults, a record is acknowledged only after its delivery, or for a
\* false positive of the filter, and evicted only after an answer.
THEOREM NoRecordIsLost == Spec => []NothingIsLost
<1>1. SyncInv => NothingIsLost BY DEF SyncInv, Kept, NothingIsLost
<1> QED BY <1>1, SyncInvHolds, PTL

\* offline-buffer.ts:101-188: however flushes, resets and producers write over
\* each other, a syncing record has an owner, and the limit is overrun by no more
\* than the racing producers and the revived records account for.
THEOREM PartitionsStaySound == Spec => []PartitionsAreSound
<1>1. SyncInv => PartitionsAreSound
  <2> SUFFICES ASSUME SyncInv PROVE PartitionsAreSound OBVIOUS
  <2>1. TypeOK BY DEF SyncInv, BufferTypes, LoopsOK, LoopOK, Labels, TypeOK
  <2>2. OverrunBounded BY OverrunFollows DEF SyncInv
  <2> QED BY <2>1, <2>2 DEF SyncInv, PartitionsAreSound
<1> QED BY <1>1, SyncInvHolds, PTL
=============================================================================
