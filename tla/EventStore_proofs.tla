-------------------------- MODULE EventStore_proofs --------------------------
(***************************************************************************)
(* For any number of callers and any batch size: whichever callers race    *)
(* and fail, the versions of a stream are 1, 2, 3, ... and each was taken  *)
(* once; and a batch is committed only at the end of the stream.           *)
(***************************************************************************)
EXTENDS EventStore, FiniteSetTheorems, TLAPS

Fun(f) == f = [c \in Callers |-> f[c]]
StoreTypes ==
  /\ rows \subseteq Event /\ Fun(pc) /\ Fun(loaded) /\ Fun(size) /\ Fun(tentative)

Checked(c) == pc[c] \in {"insert", "commit"}

\* What the version check found stays true of the stream until the append ends.
ExpectedIsReached ==
  \A c \in Callers : Checked(c) =>
     /\ loaded[c].v \in Nat /\ size[c] \in 1..MaxBatch
     /\ 1..loaded[c].v \subseteq Versions

\* An open transaction has inserted the rows of its batch.
TentativeIsBatch ==
  \A c \in Callers : tentative[c] = IF pc[c] = "commit" THEN BatchOf(c, loaded[c].v, size[c]) ELSE {}

\* No open transaction holds a version that is committed, or held by another.
Unclaimed ==
  \A c \in Callers :
     /\ \A r \in rows, s \in tentative[c] : r.v # s.v
     /\ \A d \in Callers \ {c} : \A r \in tentative[d], s \in tentative[c] : r.v # s.v

StoreInv == StoreTypes /\ ExpectedIsReached /\ TentativeIsBatch /\ Unclaimed /\ LogIsDense

\* The versions of a batch are consecutive from the one after its version.
LEMMA BatchVersions ==
  ASSUME NEW c \in Callers, NEW e \in Nat, NEW n \in 1..MaxBatch
  PROVE  /\ BatchOf(c, e, n) \subseteq Event /\ n \in Nat \ {0}
         /\ \A r, s \in BatchOf(c, e, n) : r.v = s.v => r = s
         /\ \A r \in BatchOf(c, e, n) : r.v \in Nat /\ r.v > e
         /\ \A r \in BatchOf(c, e, n) : \A v \in (e + 1)..(r.v) : \E s \in BatchOf(c, e, n) : s.v = v
         /\ \E s \in BatchOf(c, e, n) : s.v = e + 1
<1>1. n \in Nat \ {0} BY BatchAssumption
<1>2. \A r \in BatchOf(c, e, n) : \E i \in 1..n : r = [v |-> e + i, by |-> c] BY DEF BatchOf
<1>3. \A i \in 1..n : [v |-> e + i, by |-> c] \in BatchOf(c, e, n) BY DEF BatchOf
<1>4. ASSUME NEW r \in BatchOf(c, e, n), NEW v \in (e + 1)..(r.v)
      PROVE  \E s \in BatchOf(c, e, n) : s.v = v
  <2>1. PICK i \in 1..n : r = [v |-> e + i, by |-> c] BY <1>2
  <2>2. v - e \in 1..n /\ e + (v - e) = v BY <2>1
  <2>3. [v |-> e + (v - e), by |-> c] \in BatchOf(c, e, n) BY <1>3, <2>2
  <2> QED BY <2>2, <2>3
<1>5. \E s \in BatchOf(c, e, n) : s.v = e + 1
  <2>1. 1 \in 1..n BY <1>1
  <2>2. [v |-> e + 1, by |-> c] \in BatchOf(c, e, n) BY <1>3, <2>1
  <2> QED BY <2>2
<1>6. BatchOf(c, e, n) \subseteq Event BY <1>1, <1>2 DEF Event
<1>7. \A r, s \in BatchOf(c, e, n) : r.v = s.v => r = s BY <1>2
<1>8. \A r \in BatchOf(c, e, n) : r.v \in Nat /\ r.v > e BY <1>1, <1>2
<1> QED BY <1>1, <1>4, <1>5, <1>6, <1>7, <1>8

\* An empty store is sound.
LEMMA StoreInit == Init => StoreInv
<1> SUFFICES ASSUME Init PROVE StoreInv
  OBVIOUS
<1> USE DEF Init, TablesInit
<1>1. StoreTypes BY DEF StoreTypes, Fun
<1>2. ExpectedIsReached BY DEF ExpectedIsReached, Checked
<1>3. TentativeIsBatch BY DEF TentativeIsBatch
<1>4. Unclaimed /\ LogIsDense BY DEF Unclaimed, LogIsDense
<1> QED BY <1>1, <1>2, <1>3, <1>4 DEF StoreInv

\* A step of one caller that is not, and does not come, between its version
\* check and the end of its transaction.
MovesOutside(c) ==
  /\ pc[c] # "commit" /\ pc'[c] \notin {"insert", "commit"} /\ UNCHANGED <<rows, tentative>>
  /\ Fun(pc)' /\ Fun(loaded)' /\ Fun(size)'
  /\ \A d \in Callers \ {c} : pc'[d] = pc[d] /\ loaded'[d] = loaded[d] /\ size'[d] = size[d]

\* A step outside an append leaves the store sound.
LEMMA OutsideAppend == ASSUME StoreInv, NEW c \in Callers, MovesOutside(c) PROVE StoreInv'
<1> USE DEF StoreInv, MovesOutside
<1>1. StoreTypes' BY DEF StoreTypes, Fun
<1>2. ExpectedIsReached' BY DEF ExpectedIsReached, Checked, Versions
<1>3. TentativeIsBatch' BY DEF TentativeIsBatch
<1>4. Unclaimed' /\ LogIsDense' BY DEF Unclaimed, LogIsDense
<1> QED BY <1>1, <1>2, <1>3, <1>4

\* A call that ends its transaction leaves the rest of the store as it was.
LEMMA Leaves ==
  ASSUME StoreInv, NEW c \in Callers, NEW label, label \notin {"insert", "commit"}, Leave(c, label),
         pc[c] # "commit", UNCHANGED <<rows, tentative>>
  PROVE  StoreInv'
<1>1. MovesOutside(c) BY DEF StoreInv, StoreTypes, Fun, MovesOutside, Leave, Goto
<1> QED BY <1>1, OutsideAppend

\* A step that changes none of the variables the invariant reads.
LEMMA NothingChanged ==
  ASSUME StoreInv, UNCHANGED <<rows, tentative, pc, loaded, size>> PROVE StoreInv'
BY DEF StoreInv, StoreTypes, Fun, ExpectedIsReached, Checked, Versions, TentativeIsBatch, BatchOf,
       Unclaimed, LogIsDense

\* The version check keeps the store sound.
LEMMA CheckStep == ASSUME StoreInv, NEW c \in Callers, CheckVersion(c) PROVE StoreInv'
<1> USE DEF StoreInv
<1>1. pc[c] = "ready" /\ UNCHANGED <<rows, tentative>> BY DEF CheckVersion
<1>2. CASE ~IsHead(Expected(c))
  <2>1. Leave(c, "idle") BY <1>2 DEF CheckVersion
  <2> QED BY <1>1, <2>1, Leaves
<1>3. CASE IsHead(Expected(c))
  <2>1. PICK n \in 1..MaxBatch : size' = [size EXCEPT ![c] = n] BY <1>3 DEF CheckVersion
  <2>2. loaded' = loaded /\ pc' = [pc EXCEPT ![c] = "insert"] BY <1>3 DEF CheckVersion, Goto
  <2>3. /\ pc'[c] = "insert" /\ size'[c] = n
        /\ \A d \in Callers \ {c} : pc'[d] = pc[d] /\ size'[d] = size[d]
    BY <1>1, <2>1, <2>2 DEF StoreTypes, Fun
  <2>4. Versions \subseteq Nat BY DEF Versions, StoreTypes, Event
  <2>5. loaded[c].v \in Versions \cup {0} BY <1>3 DEF IsHead, Expected
  <2>6. 1..loaded[c].v \subseteq Versions /\ loaded[c].v \in Nat
    <3>1. CASE loaded[c].v = 0 BY <3>1
    <3>2. CASE loaded[c].v \in Versions
      <4>1. PICK r \in rows : r.v = loaded[c].v BY <3>2 DEF Versions
      <4>2. \A v \in 1..(r.v - 1) : v \in Versions BY DEF LogIsDense, Versions
      <4>3. r.v \in Nat BY <1>1, <2>4, <3>2, <4>1
      <4>4. \A v \in 1..r.v : v = r.v \/ v \in 1..(r.v - 1) BY <4>3
      <4> QED BY <3>2, <4>1, <4>2, <4>3, <4>4
    <3> QED BY <1>1, <2>5, <3>1, <3>2
  <2>7. StoreTypes' BY <1>1, <2>1, <2>2 DEF StoreTypes, Fun
  <2>8. ExpectedIsReached' BY <1>1, <2>2, <2>3, <2>6 DEF ExpectedIsReached, Checked, Versions
  <2>9. TentativeIsBatch' BY <1>1, <2>2, <2>3 DEF TentativeIsBatch
  <2>10. Unclaimed' /\ LogIsDense' BY <1>1 DEF Unclaimed, LogIsDense
  <2> QED BY <1>1, <2>7, <2>8, <2>9, <2>10
<1> QED BY <1>2, <1>3

\* The inserts of a batch keep the store sound.
LEMMA InsertStep == ASSUME StoreInv, NEW c \in Callers, Insert(c) PROVE StoreInv'
<1> USE DEF StoreInv
<1>1. PICK batch : batch = BatchOf(c, loaded[c].v, size[c]) OBVIOUS
<1>2. pc[c] = "insert" /\ rows' = rows /\ ~Blocked(c, batch) BY <1>1 DEF Insert, Expected
<1>3. CASE Clashes(batch)
  <2>1. Leave(c, "idle") /\ tentative' = tentative BY <1>1, <1>3 DEF Insert, Expected
  <2> QED BY <1>2, <2>1, Leaves
<1>4. CASE ~Clashes(batch)
  <2>1. /\ pc' = [pc EXCEPT ![c] = "commit"] /\ tentative' = [tentative EXCEPT ![c] = batch]
        /\ loaded' = loaded /\ size' = size
    BY <1>1, <1>4 DEF Insert, Expected, Goto, InsertBatch
  <2>2. /\ pc'[c] = "commit" /\ tentative'[c] = batch
        /\ \A d \in Callers \ {c} : pc'[d] = pc[d] /\ tentative'[d] = tentative[d]
    BY <1>1, <2>1 DEF StoreTypes, Fun
  <2>3. StoreTypes' BY <1>2, <2>1 DEF StoreTypes, Fun
  <2>4. ExpectedIsReached' BY <1>2, <2>1, <2>2 DEF ExpectedIsReached, Checked, Versions
  <2>5. TentativeIsBatch' BY <1>1, <2>1, <2>2 DEF TentativeIsBatch
  <2>6. Unclaimed'
    <3>1. \A r \in rows, s \in batch : r.v # s.v BY <1>4 DEF Clashes
    <3>2. \A d \in Callers \ {c} : \A r \in tentative[d], s \in batch : r.v # s.v
      BY <1>2 DEF Blocked
    <3> QED BY <1>2, <2>2, <3>1, <3>2 DEF Unclaimed
  <2>7. LogIsDense' BY <1>2 DEF LogIsDense
  <2> QED BY <1>1, <2>3, <2>4, <2>5, <2>6, <2>7
<1> QED BY <1>3, <1>4

\* The transaction ends, with or without its rows.
LEMMA EndStep ==
  ASSUME StoreInv, NEW c \in Callers, Checked(c), NEW label, label \notin {"insert", "commit"},
         Leave(c, label), tentative' = [tentative EXCEPT ![c] = {}],
         rows' = rows \/ (pc[c] = "commit" /\ rows' = rows \cup tentative[c])
  PROVE  StoreInv'
<1> USE DEF StoreInv
<1>1. /\ pc'[c] = label /\ tentative'[c] = {}
      /\ \A d \in Callers \ {c} : /\ pc'[d] = pc[d] /\ tentative'[d] = tentative[d]
                                  /\ loaded'[d] = loaded[d] /\ size'[d] = size[d]
  BY DEF Leave, Goto, StoreTypes, Fun
<1>2. loaded[c].v \in Nat /\ size[c] \in 1..MaxBatch /\ 1..loaded[c].v \subseteq Versions
  BY DEF ExpectedIsReached
<1>3. tentative[c] = {} \/ tentative[c] = BatchOf(c, loaded[c].v, size[c]) BY DEF TentativeIsBatch
<1>4. tentative[c] \subseteq Event BY <1>2, <1>3, BatchVersions
<1>5. rows \subseteq rows' /\ rows' \subseteq rows \cup tentative[c] OBVIOUS
<1>6. StoreTypes' BY <1>4, <1>5 DEF StoreTypes, Fun, Leave, Goto
<1>7. ExpectedIsReached' BY <1>1, <1>5 DEF ExpectedIsReached, Checked, Versions
<1>8. TentativeIsBatch' BY <1>1 DEF TentativeIsBatch
<1>9. Unclaimed' BY <1>1, <1>5 DEF Unclaimed
<1>10. LogIsDense'
  <2>1. CASE rows' = rows BY <2>1 DEF LogIsDense
  <2>2. CASE pc[c] = "commit" /\ rows' = rows \cup tentative[c]
    <3>1. tentative[c] = BatchOf(c, loaded[c].v, size[c]) BY <2>2 DEF TentativeIsBatch
    <3>2. \A r, s \in tentative[c] : r.v = s.v => r = s BY <1>2, <3>1, BatchVersions
    <3>3. \A r \in rows, s \in tentative[c] : r.v # s.v BY DEF Unclaimed
    <3>4. \A r, s \in rows' : r.v = s.v => r = s BY <2>2, <3>2, <3>3 DEF LogIsDense
    <3>5. ASSUME NEW r \in tentative[c], NEW v \in 1..(r.v - 1) PROVE \E s \in rows' : s.v = v
      <4>1. r.v \in Nat /\ r.v > loaded[c].v BY <1>2, <3>1, BatchVersions
      <4>2. CASE v <= loaded[c].v
        <5>1. v \in Versions BY <1>2, <4>2
        <5> QED BY <1>5, <5>1 DEF Versions
      <4>3. CASE v > loaded[c].v
        <5>1. v \in (loaded[c].v + 1)..r.v BY <1>2, <4>1, <4>3
        <5>2. \E s \in tentative[c] : s.v = v BY <1>2, <3>1, <5>1, BatchVersions
        <5> QED BY <2>2, <5>2
      <4> QED BY <1>2, <4>1, <4>2, <4>3
    <3>6. \A r \in rows : \A v \in 1..(r.v - 1) : \E s \in rows' : s.v = v BY <1>5 DEF LogIsDense
    <3> QED BY <2>2, <3>4, <3>5, <3>6 DEF LogIsDense
  <2> QED BY <2>1, <2>2
<1> QED BY <1>6, <1>7, <1>8, <1>9, <1>10

\* Every step keeps the store sound.
LEMMA StoreStep == StoreInv /\ [Next]_vars => StoreInv'
<1> SUFFICES ASSUME StoreInv, [Next]_vars PROVE StoreInv'
  OBVIOUS
<1>1. ASSUME NEW c \in Callers, Call(c) PROVE StoreInv'
  <2> USE <1>1
  <2>1. CASE LoadSnapshot(c)
    <3>1. MovesOutside(c)
      BY <2>1 DEF LoadSnapshot, Goto, StoreInv, StoreTypes, Fun, MovesOutside
    <3> QED BY <3>1, OutsideAppend
  <2>2. CASE Replay(c)
    <3>1. MovesOutside(c)
      BY <2>2 DEF Replay, Goto, StoreInv, StoreTypes, Fun, MovesOutside
    <3> QED BY <3>1, OutsideAppend
  <2>3. CASE AppendNothing(c)
    <3>1. AfterAppend(Expected(c)) \notin {"insert", "commit"} BY DEF AfterAppend
    <3> QED BY <2>3, <3>1, Leaves DEF AppendNothing
  <2>4. CASE RefuseOversized(c)
    <3>1. Leave(c, "idle") BY <2>4 DEF RefuseOversized
    <3> QED BY <2>4, <3>1, Leaves DEF RefuseOversized
  <2>5. CASE CheckVersion(c) BY <2>5, CheckStep
  <2>6. CASE Insert(c) BY <2>6, InsertStep
  <2>7. CASE Commit(c)
    <3>1. Checked(c) BY <2>7 DEF Commit, Checked
    <3>2. AfterAppend(Expected(c) + size[c]) \notin {"insert", "commit"} BY DEF AfterAppend
    <3>3. Leave(c, AfterAppend(Expected(c) + size[c])) BY <2>7 DEF Commit
    <3> QED BY <2>7, <3>1, <3>2, <3>3, EndStep DEF Commit, CommitBatch
  <2>8. CASE AppendFails(c)
    <3>1. Checked(c) BY <2>8 DEF AppendFails, Checked
    <3>2. Leave(c, "idle") BY <2>8 DEF AppendFails
    <3> QED BY <2>8, <3>1, <3>2, EndStep DEF AppendFails, CommitBatch
  <2>9. CASE FoldForSnapshot(c)
    <3>1. CASE Leave(c, "idle") BY <2>9, <3>1, Leaves DEF FoldForSnapshot
    <3>2. CASE ~Leave(c, "idle")
      <4>1. MovesOutside(c)
        BY <2>9, <3>2 DEF FoldForSnapshot, Goto, StoreInv, StoreTypes, Fun, MovesOutside
      <4> QED BY <4>1, OutsideAppend
    <3> QED BY <3>1, <3>2
  <2>10. CASE SaveFolded(c)
    <3>1. Leave(c, "idle") BY <2>10 DEF SaveFolded
    <3> QED BY <2>10, <3>1, Leaves DEF SaveFolded
  <2>11. CASE SnapshotFails(c)
    <3>1. Leave(c, "idle") /\ pc[c] # "commit" BY <2>11 DEF SnapshotFails
    <3> QED BY <2>11, <3>1, Leaves DEF SnapshotFails
  <2> QED BY <2>1, <2>2, <2>3, <2>4, <2>5, <2>6, <2>7, <2>8, <2>9, <2>10, <2>11 DEF Call
<1>2. ASSUME NEW a \in Passes, Archive(a) PROVE StoreInv'
  <2>1. UNCHANGED <<rows, tentative, pc, loaded, size>>
    BY <1>2 DEF Archive, StartPass, PutObject, MarkGroup, PassFails, callVars
  <2> QED BY <2>1, NothingChanged
<1>3. CASE Age BY <1>3, NothingChanged DEF Age, callVars
<1>4. CASE Restart
  <2> USE <1>4 DEF Restart, StoreInv
  <2>1. StoreTypes' BY DEF StoreTypes, Fun
  <2>2. ExpectedIsReached' BY DEF ExpectedIsReached, Checked
  <2>3. TentativeIsBatch' BY DEF TentativeIsBatch
  <2>4. Unclaimed' /\ LogIsDense' BY DEF Unclaimed, LogIsDense
  <2> QED BY <2>1, <2>2, <2>3, <2>4
<1>5. CASE UNCHANGED vars BY <1>5, NothingChanged DEF vars
<1> QED BY <1>1, <1>2, <1>3, <1>4, <1>5 DEF Next

\* persistence.ts:55-66: for any callers, batches and failures, no version is
\* taken twice and none is left out.
THEOREM VersionsAreDense == Spec => []LogIsDense
<1>1. StoreInv => LogIsDense BY DEF StoreInv
<1> QED BY StoreInit, StoreStep, <1>1, PTL DEF Spec

\* persistence.ts:84-104, stream.ts:62-78: rows are only ever added, and only
\* by an append that expected the stream to end where it did.
AppendsAtEnd ==
  [][rows \subseteq rows' /\ (rows' # rows => \E c \in Callers : IsHead(Expected(c)) /\ rows' = rows \cup tentative[c])]_vars

\* A commit puts its batch at the head of its stream.
LEMMA CommitsAtHead ==
  ASSUME StoreInv, NEW c \in Callers, pc[c] = "commit" PROVE IsHead(Expected(c))
<1> USE DEF StoreInv
<1> DEFINE e == loaded[c].v
<1>1. e \in Nat /\ size[c] \in 1..MaxBatch /\ 1..e \subseteq Versions BY DEF ExpectedIsReached, Checked
<1>2. tentative[c] = BatchOf(c, e, size[c]) BY DEF TentativeIsBatch
<1>3. PICK s \in tentative[c] : s.v = e + 1 BY <1>1, <1>2, BatchVersions
<1>4. \A r \in rows : r.v # e + 1 BY <1>3 DEF Unclaimed
<1>5. Versions \subseteq Nat \ {0} BY DEF Versions, StoreTypes, Event
<1>6. ASSUME NEW w \in Versions PROVE w =< e
  <2>1. PICK r \in rows : r.v = w BY DEF Versions
  <2>2. SUFFICES ASSUME ~(w =< e) PROVE FALSE
    OBVIOUS
  <2>3. w # e + 1 BY <1>4, <2>1
  <2>4. e + 1 \in 1..(w - 1) BY <1>1, <1>5, <2>2, <2>3
  <2>5. \E q \in rows : q.v = e + 1 BY <2>1, <2>4 DEF LogIsDense
  <2> QED BY <1>4, <2>5
<1>7. e \in Versions \cup {0} BY <1>1
<1> QED BY <1>6, <1>7 DEF IsHead, Expected

\* persistence.ts:84-104, stream.ts:62-78: the stream is a compare-and-append
\* log: it only grows, by one caller's batch, at the version that caller
\* expected.
THEOREM CompareAndAppend == Spec => AppendsAtEnd
<1>1. ASSUME StoreInv, [Next]_vars
      PROVE  [rows \subseteq rows' /\ (rows' # rows => \E c \in Callers :
                 IsHead(Expected(c)) /\ rows' = rows \cup tentative[c])]_vars
  <2>1. rows' = rows \/ \E c \in Callers : pc[c] = "commit" /\ CommitBatch(c)
    <3>1. ASSUME NEW c \in Callers, Call(c)
          PROVE  rows' = rows \/ (pc[c] = "commit" /\ CommitBatch(c))
      BY <3>1 DEF Call, LoadSnapshot, Replay, AppendNothing, RefuseOversized, CheckVersion, Insert,
                  Commit, AppendFails, FoldForSnapshot, SaveFolded, SnapshotFails
    <3>2. ASSUME NEW a \in Passes, Archive(a) PROVE rows' = rows
      BY <3>2 DEF Archive, StartPass, PutObject, MarkGroup, PassFails
    <3>3. Age \/ Restart \/ UNCHANGED vars => rows' = rows BY DEF Age, Restart, vars
    <3> QED BY <1>1, <3>1, <3>2, <3>3 DEF Next
  <2>2. ASSUME NEW c \in Callers, pc[c] = "commit", CommitBatch(c)
        PROVE  IsHead(Expected(c)) /\ rows' = rows \cup tentative[c]
    BY <1>1, <2>2, CommitsAtHead DEF CommitBatch
  <2> QED BY <2>1, <2>2
<1> QED BY StoreInit, StoreStep, <1>1, PTL DEF Spec, AppendsAtEnd

(***************************************************************************)
(* What a read returns.                                                    *)
(***************************************************************************)
\* Ranks number the members of a set from one, in their order.
LEMMA RanksGrow ==
  ASSUME NEW S \in SUBSET Nat, IsFiniteSet(S)
  PROVE  /\ Cardinality(S) \in Nat
         /\ \A v \in S : Rank(S, v) \in 1..Cardinality(S)
         /\ \A v, w \in S : v < w => Rank(S, v) < Rank(S, w)
<1> DEFINE UpTo(v) == {w \in S : w =< v}
<1>1. \A v : IsFiniteSet(UpTo(v)) /\ Cardinality(UpTo(v)) \in Nat /\ Cardinality(UpTo(v)) =< Cardinality(S)
  <2>1. ASSUME NEW v PROVE IsFiniteSet(UpTo(v)) /\ Cardinality(UpTo(v)) =< Cardinality(S)
    <3>1. UpTo(v) \in SUBSET S OBVIOUS
    <3> QED BY <3>1, FS_Subset
  <2> QED BY <2>1, FS_CardinalityType
<1>2. Cardinality(S) \in Nat BY FS_CardinalityType
<1>3. ASSUME NEW v \in S PROVE Rank(S, v) \in 1..Cardinality(S)
  <2>1. v \in UpTo(v) OBVIOUS
  <2>2. IsFiniteSet(UpTo(v)) => (Cardinality(UpTo(v)) = 0 <=> UpTo(v) = {}) BY FS_EmptySet
  <2>3. UpTo(v) # {} BY <2>1
  <2>4. Cardinality(UpTo(v)) \in Nat /\ Cardinality(UpTo(v)) =< Cardinality(S) BY <1>1
  <2> QED BY <1>1, <1>2, <2>2, <2>3, <2>4 DEF Rank
<1>4. ASSUME NEW v \in S, NEW w \in S, v < w PROVE Rank(S, v) < Rank(S, w)
  <2>1. UpTo(v) \in SUBSET UpTo(w)
    <3>1. ASSUME NEW x \in S, x =< v PROVE x =< w
      <4>1. x \in Nat /\ v \in Nat /\ w \in Nat OBVIOUS
      <4> QED BY <1>4, <3>1, <4>1
    <3> QED BY <3>1
  <2>2. UpTo(v) # UpTo(w) BY <1>4
  <2>3. Cardinality(UpTo(v)) =< Cardinality(UpTo(w)) /\ Cardinality(UpTo(v)) # Cardinality(UpTo(w))
    BY <1>1, <2>1, <2>2, FS_Subset
  <2> QED BY <1>1, <2>3 DEF Rank
<1> QED BY <1>2, <1>3, <1>4

\* A set put in order: each member once, ascending.
LEMMA InOrderSorts ==
  ASSUME NEW S \in SUBSET Nat, IsFiniteSet(S)
  PROVE  /\ InOrder(S) \in Seq(S) /\ Len(InOrder(S)) = Cardinality(S) /\ Cardinality(S) \in Nat
         /\ \A i, j \in 1..Cardinality(S) : i < j => InOrder(S)[i] < InOrder(S)[j]
         /\ \A v \in S : \E i \in 1..Cardinality(S) : InOrder(S)[i] = v
<1> DEFINE n == Cardinality(S)
           f == [v \in S |-> Rank(S, v)]
<1>1. n \in Nat /\ f \in [S -> 1..n] BY RanksGrow
<1>2. \A v, w \in S : Rank(S, v) = Rank(S, w) => v = w
  <2> SUFFICES ASSUME NEW v \in S, NEW w \in S, v # w PROVE Rank(S, v) # Rank(S, w)
    OBVIOUS
  <2>1. v < w \/ w < v OBVIOUS
  <2>2. Rank(S, v) \in Nat /\ Rank(S, w) \in Nat BY RanksGrow
  <2> QED BY <2>1, <2>2, RanksGrow
<1>3. f \in Surjection(S, 1..n)
  <2>1. f \in Injection(S, 1..n) BY <1>1, <1>2 DEF Injection, IsInjective
  <2>2. IsFiniteSet(1..n) /\ Cardinality(1..n) = n BY <1>1, FS_Interval
  <2> QED BY <2>1, <2>2, FS_Injection
<1>4. ASSUME NEW i \in 1..n PROVE InOrder(S)[i] \in S /\ Rank(S, InOrder(S)[i]) = i
  <2>1. \E v \in S : Rank(S, v) = i BY <1>3 DEF Surjection
  <2>2. InOrder(S)[i] = CHOOSE v \in S : Rank(S, v) = i BY DEF InOrder
  <2>3. PICK v \in S : Rank(S, v) = i BY <2>1
  <2>4. \E x : x \in S /\ Rank(S, x) = i BY <2>3
  <2> QED BY <2>2, <2>4, Zenon
<1>5. InOrder(S) \in [1..n -> S] BY <1>4 DEF InOrder
<1>6. InOrder(S) \in Seq(S) /\ Len(InOrder(S)) = n BY <1>1, <1>5
<1>7. ASSUME NEW i \in 1..n, NEW j \in 1..n, i < j PROVE InOrder(S)[i] < InOrder(S)[j]
  <2> DEFINE v == InOrder(S)[i]
             w == InOrder(S)[j]
  <2>1. v \in S /\ w \in S /\ Rank(S, v) = i /\ Rank(S, w) = j BY <1>4
  <2>2. v # w /\ ~(w < v)
    <3>1. w < v => j < i BY <2>1, RanksGrow
    <3> QED BY <1>7, <2>1, <3>1
  <2>3. v \in Nat /\ w \in Nat BY <2>1
  <2> QED BY <2>2, <2>3
<1>8. ASSUME NEW v \in S PROVE \E i \in 1..n : InOrder(S)[i] = v
  <2>1. Rank(S, v) \in 1..n BY RanksGrow
  <2> QED BY <1>2, <1>4, <2>1
<1> QED BY <1>1, <1>6, <1>7, <1>8

\* The oldest of some versions: with each of them, all that are older.
LEMMA OldestIsClosed ==
  ASSUME NEW S \in SUBSET Nat, IsFiniteSet(S), NEW limit \in Nat
  PROVE  /\ Oldest(S, limit) \in SUBSET S /\ IsFiniteSet(Oldest(S, limit))
         /\ \A v \in Oldest(S, limit), w \in S : w < v => w \in Oldest(S, limit)
<1>1. Oldest(S, limit) \in SUBSET S BY DEF Oldest
<1>2. IsFiniteSet(Oldest(S, limit)) BY <1>1, FS_Subset
<1>3. ASSUME NEW v \in Oldest(S, limit), NEW w \in S, w < v PROVE w \in Oldest(S, limit)
  <2>1. v \in S /\ Rank(S, v) =< limit BY DEF Oldest
  <2>2. Rank(S, w) < Rank(S, v) /\ Rank(S, v) \in Nat /\ Rank(S, w) \in Nat BY <1>3, <2>1, RanksGrow
  <2> QED BY <2>1, <2>2 DEF Oldest
<1> QED BY <1>1, <1>2, <1>3

\* The first and the last of a group are among it, and around all of it.
LEMMA GroupEnds ==
  ASSUME NEW S \in SUBSET Nat, IsFiniteSet(S), S # {}
  PROVE  Min(S) \in S /\ Max(S) \in S /\ \A v \in S : Min(S) =< v /\ v =< Max(S)
<1> DEFINE n == Cardinality(S)
<1>1. n \in Nat \ {0} BY FS_CardinalityType, FS_EmptySet
<1>2. InOrder(S) \in Seq(S) /\ Len(InOrder(S)) = n BY InOrderSorts
<1>3. \A i \in 1..n : InOrder(S)[i] \in S BY <1>1, <1>2
<1>4. \A i, j \in 1..n : i < j => InOrder(S)[i] < InOrder(S)[j] BY InOrderSorts
<1>5. ASSUME NEW v \in S PROVE InOrder(S)[1] =< v /\ v =< InOrder(S)[n]
  <2>1. PICK i \in 1..n : InOrder(S)[i] = v BY InOrderSorts
  <2>2. 1 \in 1..n /\ n \in 1..n BY <1>1
  <2>3. (i = 1 \/ 1 < i) /\ (i = n \/ i < n) BY <1>1
  <2>4. InOrder(S)[1] \in Nat /\ InOrder(S)[n] \in Nat BY <1>3, <2>2
  <2>5. i = 1 \/ InOrder(S)[1] < v BY <1>4, <2>1, <2>2, <2>3
  <2>6. i = n \/ v < InOrder(S)[n] BY <1>4, <2>1, <2>2, <2>3
  <2> QED BY <2>1, <2>4, <2>5, <2>6
<1>6. InOrder(S)[1] \in S /\ InOrder(S)[n] \in S BY <1>1, <1>3
<1>7. \E x \in S : \A y \in S : x =< y BY <1>5, <1>6
<1>8. \E x \in S : \A y \in S : x >= y
  <2>1. \A y \in S : InOrder(S)[n] >= y BY <1>5, <1>6
  <2> QED BY <1>6, <2>1
<1>9. Min(S) \in S /\ \A y \in S : Min(S) =< y BY <1>7 DEF Min
<1>10. Max(S) \in S /\ \A y \in S : Max(S) >= y BY <1>8 DEF Max
<1>11. \A v \in S : v =< Max(S) BY <1>10
<1> QED BY <1>9, <1>10, <1>11

(***************************************************************************)
(* The stream is 1, 2, ..., Length.                                        *)
(***************************************************************************)
Length == Cardinality(Versions)
LengthInv == Length \in Nat /\ Versions = 1..Length

\* Only the end of a transaction changes the rows.
LEMMA RowsChange ==
  ASSUME [Next]_vars PROVE rows' = rows \/ \E c \in Callers : pc[c] = "commit" /\ CommitBatch(c)
<1>1. ASSUME NEW c \in Callers, Call(c)
      PROVE  rows' = rows \/ (pc[c] = "commit" /\ CommitBatch(c))
  BY <1>1 DEF Call, LoadSnapshot, Replay, AppendNothing, RefuseOversized, CheckVersion, Insert,
              Commit, AppendFails, FoldForSnapshot, SaveFolded, SnapshotFails
<1>2. ASSUME NEW a \in Passes, Archive(a) PROVE rows' = rows
  BY <1>2 DEF Archive, StartPass, PutObject, MarkGroup, PassFails
<1>3. Age \/ Restart \/ UNCHANGED vars => rows' = rows BY DEF Age, Restart, vars
<1> QED BY <1>1, <1>2, <1>3 DEF Next

\* A commit makes the stream longer by its batch.
LEMMA CommitGrows ==
  ASSUME StoreInv, LengthInv, NEW c \in Callers, pc[c] = "commit", CommitBatch(c)
  PROVE  /\ loaded[c].v = Length /\ size[c] \in 1..MaxBatch /\ size[c] \in Nat
         /\ Versions' = 1..(Length + size[c]) /\ Length' = Length + size[c]
<1> DEFINE e == loaded[c].v
           n == size[c]
<1>1. e \in Nat /\ n \in 1..MaxBatch /\ n \in Nat
  BY BatchAssumption DEF StoreInv, ExpectedIsReached, Checked
<1>2. tentative[c] = BatchOf(c, e, n) BY DEF StoreInv, TentativeIsBatch
<1>3. e = Length
  <2>1. e \in Versions \cup {0} /\ \A w \in Versions : w =< e BY CommitsAtHead DEF IsHead, Expected
  <2>2. Length = 0 \/ Length \in Versions BY DEF LengthInv
  <2> QED BY <1>1, <2>1, <2>2 DEF LengthInv
<1>4. Versions' = Versions \cup {r.v : r \in BatchOf(c, e, n)}
  BY <1>2 DEF CommitBatch, Versions
<1>5. {r.v : r \in BatchOf(c, e, n)} = (e + 1)..(e + n)
  <2>1. ASSUME NEW r \in BatchOf(c, e, n) PROVE r.v \in (e + 1)..(e + n)
    <3>1. PICK i \in 1..n : r = [v |-> e + i, by |-> c] BY DEF BatchOf
    <3> QED BY <1>1, <3>1
  <2>2. ASSUME NEW v \in (e + 1)..(e + n) PROVE \E r \in BatchOf(c, e, n) : r.v = v
    <3>1. v - e \in 1..n /\ e + (v - e) = v BY <1>1
    <3>2. [v |-> e + (v - e), by |-> c] \in BatchOf(c, e, n) BY <3>1 DEF BatchOf
    <3> QED BY <3>1, <3>2
  <2> QED BY <2>1, <2>2
<1>6. Versions' = 1..(Length + n) BY <1>1, <1>3, <1>4, <1>5 DEF LengthInv
<1>7. Length' = Length + n
  <2>1. Length \in Nat /\ Length + n \in Int /\ 1 \in Int BY <1>1 DEF LengthInv
  <2>2. Cardinality(1..(Length + n)) = IF 1 > Length + n THEN 0 ELSE (Length + n) - 1 + 1
    BY <2>1, FS_Interval
  <2>3. Cardinality(Versions') = Length + n BY <1>1, <1>6, <2>1, <2>2
  <2> QED BY <2>3 DEF Length
<1> QED BY <1>1, <1>3, <1>6, <1>7

\* What is committed stays committed.
LEMMA LengthStep ==
  ASSUME StoreInv, LengthInv, [Next]_vars
  PROVE  LengthInv' /\ Length =< Length' /\ Versions \subseteq Versions'
<1>1. CASE rows' = rows BY <1>1 DEF LengthInv, Length, Versions
<1>2. ASSUME NEW c \in Callers, pc[c] = "commit", CommitBatch(c)
      PROVE  LengthInv' /\ Length =< Length' /\ Versions \subseteq Versions'
  BY <1>2, CommitGrows DEF LengthInv
<1> QED BY <1>1, <1>2, RowsChange

LEMMA LengthInit == Init => LengthInv
<1> SUFFICES ASSUME Init PROVE LengthInv
  OBVIOUS
<1>1. Versions = {} BY DEF Init, TablesInit, Versions
<1> QED BY <1>1, FS_EmptySet DEF LengthInv, Length

(***************************************************************************)
(* What has been loaded and saved.                                         *)
(***************************************************************************)
\* A state of the stream: whole numbers in order, none past the stream's end.
StateOf(x) == x \in [v : Nat, state : Seq(Nat)] /\ x.v =< Length /\ FoldOf(x)
StatesInv == (\A c \in Callers : StateOf(loaded[c])) /\ (\A s \in snaps : StateOf(s))

\* A fold over nothing.
LEMMA NothingIsState == ASSUME LengthInv PROVE StateOf(Nothing)
BY DEF LengthInv, StateOf, Nothing, FoldOf

\* The stream may grow and events may be archived: a state stays one.
LEMMA StatesStay ==
  ASSUME LengthInv, LengthInv', Length =< Length', archived \subseteq archived'
  PROVE  \A x : StateOf(x) => StateOf(x)'
<1> TAKE x
<1> SUFFICES ASSUME StateOf(x) PROVE StateOf(x)'
  OBVIOUS
<1>1. x.v =< Length' BY DEF StateOf, LengthInv
<1>2. FoldOf(x)' BY DEF StateOf, FoldOf
<1> QED BY <1>1, <1>2 DEF StateOf

\* One sequence after another.
LEMMA Concatenated ==
  ASSUME NEW S, NEW s \in Seq(S), NEW t \in Seq(S)
  PROVE  /\ s \o t \in Seq(S) /\ Len(s \o t) = Len(s) + Len(t) /\ Len(s) \in Nat /\ Len(t) \in Nat
         /\ \A i \in 1..Len(s) : (s \o t)[i] = s[i]
         /\ \A i \in 1..Len(t) : (s \o t)[Len(s) + i] = t[i]
OBVIOUS

\* Folding a page into a state gives a state: nothing between is skipped but
\* what is archived.
LEMMA FoldGivesState ==
  ASSUME LengthInv, NEW x, StateOf(x)
  PROVE  StateOf(Fold(x, StreamPage(x.v, MaxRehydrate)))
<1> DEFINE S == {v \in Versions \ archived : v > x.v}
           T == Oldest(S, MaxRehydrate)
           page == InOrder(T)
           m == Cardinality(T)
<1>1. x.v \in Nat /\ x.state \in Seq(Nat) /\ x.v =< Length BY DEF StateOf
<1>2. S \in SUBSET Nat /\ IsFiniteSet(S)
  <2>1. IsFiniteSet(1..Length) BY FS_Interval DEF LengthInv
  <2>2. S \in SUBSET (1..Length) BY DEF LengthInv
  <2>3. S \in SUBSET Nat BY <2>2
  <2>4. IsFiniteSet(S) BY <2>1, <2>2, FS_Subset
  <2> QED BY <2>3, <2>4
<1>3. T \in SUBSET S /\ IsFiniteSet(T) /\ \A v \in T, w \in S : w < v => w \in T
  BY <1>2, LimitAssumption, OldestIsClosed
<1>4. T \in SUBSET Nat BY <1>2, <1>3
<1>5. /\ page \in Seq(T) /\ Len(page) = m /\ m \in Nat
      /\ \A i, j \in 1..m : i < j => page[i] < page[j]
      /\ \A v \in T : \E i \in 1..m : page[i] = v
  BY <1>3, <1>4, InOrderSorts
<1>6. \A i \in 1..m : page[i] \in T BY <1>5
<1>7. StreamPage(x.v, MaxRehydrate) = page BY DEF StreamPage
<1>10. page \in Seq(Nat)
  <2>1. page \in [1..m -> Nat] BY <1>4, <1>6 DEF InOrder
  <2> QED BY <1>5, <2>1
<1> HIDE DEF page, m, T, S
<1>8. CASE page = <<>>
  <2>1. x.state \o <<>> = x.state BY <1>1
  <2>2. x = [v |-> x.v, state |-> x.state] BY DEF StateOf
  <2>3. Fold(x, page) = x BY <1>8, <2>1, <2>2 DEF Fold
  <2>4. Fold(x, StreamPage(x.v, MaxRehydrate)) = x BY <1>7, <2>3
  <2> QED BY <2>4, Zenon
<1>9. CASE page # <<>>
  <2> DEFINE y == Fold(x, page)
             n == Len(x.state)
  <2>1. m \in 1..m /\ Last(page) = page[m] BY <1>5, <1>9 DEF Last
  <2>2. y.v = page[m] /\ y.state = x.state \o page BY <1>9, <2>1 DEF Fold
  <2> HIDE DEF y
  <2>3. page[m] \in S BY <1>3, <1>6, <2>1
  <2>4. page[m] \in Nat /\ x.v < page[m] /\ page[m] =< Length BY <1>1, <2>3 DEF LengthInv, S
  <2>5. page \in Seq(Nat) /\ y.v \in Nat /\ x.v < y.v BY <1>10, <2>2, <2>4
  <2>6. n \in Nat /\ y.state \in Seq(Nat) /\ Len(y.state) = n + m
    <3>1. n \in Nat BY <1>1
    <3>2. Len(page) = m BY <1>5
    <3>3. PICK before : before = x.state OBVIOUS
    <3>4. before \in Seq(Nat) BY <1>1, <3>3
    <3>5. before \o page \in Seq(Nat) /\ Len(before \o page) = Len(before) + Len(page)
      BY <2>5, <3>4, Concatenated
    <3> QED BY <2>2, <3>1, <3>2, <3>3, <3>5
  <2>7. \A i \in 1..n : y.state[i] = x.state[i] BY <1>1, <2>2, <2>5, Concatenated
  <2>8. \A i \in 1..m : y.state[n + i] = page[i]
    <3>1. Len(page) = m BY <1>5
    <3> QED BY <1>1, <2>2, <2>5, <3>1, Concatenated
  <2>9. /\ \A i, j \in 1..n : i < j => x.state[i] < x.state[j]
        /\ \A i \in 1..n : x.state[i] \in 1..x.v
        /\ \A v \in 1..x.v : v \in archived \/ \E i \in 1..n : x.state[i] = v
    BY DEF StateOf, FoldOf
  <2>10. \A i \in 1..m : page[i] \in Nat /\ x.v < page[i] /\ page[i] =< page[m]
    <3>1. ASSUME NEW i \in 1..m PROVE page[i] \in Nat /\ x.v < page[i] /\ page[i] =< page[m]
      <4>1. page[i] \in S BY <1>3, <1>6
      <4>2. i = m \/ i < m BY <1>5
      <4>3. i = m \/ page[i] < page[m] BY <1>5, <2>1, <4>2
      <4> QED BY <1>2, <2>4, <4>1, <4>3 DEF S
    <3> QED BY <3>1
  <2>11. \A i \in 1..(n + m) : i \in 1..n \/ (i - n \in 1..m /\ n + (i - n) = i) BY <1>5, <2>6
  <2>12. ASSUME NEW i \in 1..(n + m) PROVE y.state[i] \in 1..y.v
    <3>1. CASE i \in 1..n
      <4>1. y.state[i] \in 1..x.v BY <2>7, <2>9, <3>1
      <4> QED BY <1>1, <2>5, <4>1
    <3>2. CASE i - n \in 1..m /\ n + (i - n) = i
      <4>1. y.state[i] = page[i - n] BY <2>8, <3>2
      <4>2. page[i - n] \in Nat /\ x.v < page[i - n] /\ page[i - n] =< page[m] BY <2>10, <3>2
      <4> QED BY <1>1, <2>2, <2>4, <4>1, <4>2
    <3> QED BY <2>11, <3>1, <3>2
  <2>13. ASSUME NEW i \in 1..(n + m), NEW j \in 1..(n + m), i < j PROVE y.state[i] < y.state[j]
    <3>1. CASE i \in 1..n /\ j \in 1..n BY <2>7, <2>9, <2>13, <3>1
    <3>2. CASE i \in 1..n /\ j - n \in 1..m /\ n + (j - n) = j
      <4>1. y.state[i] \in 1..x.v BY <2>7, <2>9, <3>2
      <4>2. y.state[j] = page[j - n] BY <2>8, <3>2
      <4>3. page[j - n] \in Nat /\ x.v < page[j - n] BY <2>10, <3>2
      <4> QED BY <1>1, <4>1, <4>2, <4>3
    <3>3. CASE i - n \in 1..m /\ n + (i - n) = i /\ j - n \in 1..m /\ n + (j - n) = j
      <4>1. y.state[i] = page[i - n] /\ y.state[j] = page[j - n] BY <2>8, <3>3
      <4>2. i - n < j - n BY <2>6, <2>13
      <4> QED BY <1>5, <3>3, <4>1, <4>2
    <3>4. ~(i - n \in 1..m /\ j \in 1..n) BY <1>5, <2>6, <2>13
    <3> QED BY <2>11, <3>1, <3>2, <3>3, <3>4
  <2>14. ASSUME NEW v \in 1..y.v PROVE v \in archived \/ \E i \in 1..(n + m) : y.state[i] = v
    <3>1. CASE v =< x.v
      <4>1. v \in 1..x.v BY <1>1, <2>2, <2>4, <3>1
      <4>2. CASE v \in archived BY <4>2
      <4>3. ASSUME NEW i \in 1..n, x.state[i] = v PROVE \E k \in 1..(n + m) : y.state[k] = v
        <5>1. i \in 1..(n + m) BY <1>5, <2>6
        <5> QED BY <2>7, <4>3, <5>1
      <4> QED BY <2>9, <4>1, <4>2, <4>3
    <3>2. CASE x.v < v /\ v \notin archived
      <4>1. v \in S BY <1>1, <2>2, <2>4, <3>2 DEF LengthInv, S
      <4>2. page[m] \in T BY <1>6, <2>1
      <4>3. v = page[m] \/ v < page[m] BY <2>2, <2>4
      <4>4. v \in T BY <1>3, <4>1, <4>2, <4>3
      <4>5. PICK k \in 1..m : page[k] = v BY <1>5, <4>4
      <4>6. n + k \in 1..(n + m) BY <1>5, <2>6
      <4> QED BY <2>8, <4>5, <4>6
    <3>3. v \in Nat BY <2>5
    <3> QED BY <1>1, <3>1, <3>2, <3>3
  <2>15. FoldOf(y) BY <2>6, <2>12, <2>13, <2>14 DEF FoldOf
  <2>16. y \in [v : Nat, state : Seq(Nat)]
    <3>1. y = [v |-> page[m], state |-> x.state \o page] BY <1>9, <2>1 DEF Fold, y
    <3> QED BY <2>2, <2>4, <2>6, <3>1
  <2>17. y.v =< Length BY <2>2, <2>4
  <2>18. StateOf(y) BY <2>15, <2>16, <2>17 DEF StateOf
  <2> QED BY <1>7, <2>18 DEF y
<1> QED BY <1>8, <1>9

\* The snapshot a load starts from is one of those saved, or nothing.
LEMMA LatestIsState == ASSUME LengthInv, StatesInv PROVE StateOf(LatestSnapshot)
<1>1. CASE snaps = {} BY <1>1, NothingIsState DEF LatestSnapshot, Nothing
<1>2. CASE snaps # {}
  <2> DEFINE V == {s.v : s \in snaps}
  <2>1. \A s \in snaps : s.v \in 0..Length BY DEF StatesInv, StateOf, LengthInv
  <2>2. V \in SUBSET (0..Length) /\ V # {} BY <1>2, <2>1
  <2>3. V \in SUBSET Nat BY <2>2
  <2>4. IsFiniteSet(0..Length) BY FS_Interval DEF LengthInv
  <2>5. IsFiniteSet(V) BY <2>2, <2>4, FS_Subset
  <2>6. PICK m \in V : \A v \in V : v =< m BY <2>2, <2>3, <2>5, GroupEnds
  <2>7. PICK s \in snaps : s.v = m OBVIOUS
  <2>8. \A t \in snaps : t.v =< s.v BY <2>6, <2>7
  <2>9. LatestSnapshot = CHOOSE x \in snaps : \A t \in snaps : t.v =< x.v BY <1>2 DEF LatestSnapshot
  <2>10. LatestSnapshot \in snaps BY <2>8, <2>9
  <2> QED BY <2>10 DEF StatesInv
<1> QED BY <1>1, <1>2

\* What a call has loaded after a step.
LEMMA LoadedChange ==
  ASSUME StoreInv, [Next]_vars, NEW c \in Callers
  PROVE  \/ loaded'[c] = loaded[c] \/ loaded'[c] = Nothing \/ loaded'[c] = LatestSnapshot
         \/ \E x \in {Nothing, loaded[c]} : loaded'[c] = Fold(x, StreamPage(x.v, MaxRehydrate))
<1> USE DEF StoreInv, StoreTypes, Fun
<1>1. ASSUME NEW d \in Callers, Call(d)
      PROVE  \/ loaded'[c] = loaded[c] \/ loaded'[c] = Nothing \/ loaded'[c] = LatestSnapshot
             \/ \E x \in {Nothing, loaded[c]} : loaded'[c] = Fold(x, StreamPage(x.v, MaxRehydrate))
  <2>1. CASE LoadSnapshot(d) BY <2>1 DEF LoadSnapshot
  <2>2. CASE Replay(d) BY <2>2 DEF Replay
  <2>3. CASE FoldForSnapshot(d)
    <3>1. Nothing.v = 0 BY DEF Nothing
    <3> QED BY <2>3, <3>1 DEF FoldForSnapshot, Leave
  <2>4. CASE AppendNothing(d) \/ RefuseOversized(d) \/ CheckVersion(d)
    BY <2>4 DEF AppendNothing, RefuseOversized, CheckVersion, Leave
  <2>5. CASE Insert(d)
    <3>1. loaded' = loaded \/ loaded' = [loaded EXCEPT ![d] = Nothing] BY <2>5 DEF Insert, Leave
    <3> QED BY <3>1
  <2>6. CASE Commit(d) \/ AppendFails(d) \/ SaveFolded(d) \/ SnapshotFails(d)
    BY <2>6 DEF Commit, AppendFails, SaveFolded, SnapshotFails, Leave
  <2> QED BY <1>1, <2>1, <2>2, <2>3, <2>4, <2>5, <2>6 DEF Call
<1>2. ASSUME NEW a \in Passes, Archive(a) PROVE loaded' = loaded
  BY <1>2 DEF Archive, StartPass, PutObject, MarkGroup, PassFails, callVars
<1>3. CASE Age BY <1>3 DEF Age, callVars
<1>4. CASE Restart BY <1>4 DEF Restart
<1>5. CASE UNCHANGED vars BY <1>5 DEF vars
<1> QED BY <1>1, <1>2, <1>3, <1>4, <1>5 DEF Next

\* The snapshots after a step: at most one more, of what a call has folded.
LEMMA SnapsChange ==
  ASSUME [Next]_vars
  PROVE  \A s \in snaps' : s \in snaps \/ \E c \in Callers : s = [v |-> loaded[c].v, state |-> loaded[c].state]
<1>1. ASSUME NEW c \in Callers, Call(c) PROVE snaps' = snaps \/ SaveFolded(c)
  BY <1>1 DEF Call, LoadSnapshot, Replay, AppendNothing, RefuseOversized, CheckVersion, Insert,
              Commit, AppendFails, FoldForSnapshot, SaveFolded, SnapshotFails
<1>2. ASSUME NEW a \in Passes, Archive(a) PROVE snaps' = snaps
  BY <1>2 DEF Archive, StartPass, PutObject, MarkGroup, PassFails
<1>3. Age \/ Restart \/ UNCHANGED vars => snaps' = snaps BY DEF Age, Restart, vars
<1>4. ASSUME NEW c \in Callers, SaveFolded(c)
      PROVE  \A s \in snaps' : s \in snaps \/ s = [v |-> loaded[c].v, state |-> loaded[c].state]
  BY <1>4 DEF SaveFolded, SaveSnapshot
<1> QED BY <1>1, <1>2, <1>3, <1>4 DEF Next

\* What is archived stays archived.
LEMMA ArchivedStays == ASSUME [Next]_vars PROVE archived \subseteq archived'
<1>1. ASSUME NEW c \in Callers, Call(c) PROVE archived' = archived
  BY <1>1 DEF Call, LoadSnapshot, Replay, AppendNothing, RefuseOversized, CheckVersion, Insert,
              Commit, AppendFails, FoldForSnapshot, SaveFolded, SnapshotFails
<1>2. ASSUME NEW a \in Passes, Archive(a) PROVE archived \subseteq archived'
  BY <1>2 DEF Archive, StartPass, PutObject, MarkGroup, PassFails, MarkArchived
<1>3. Age \/ Restart \/ UNCHANGED vars => archived' = archived BY DEF Age, Restart, vars
<1> QED BY <1>1, <1>2, <1>3 DEF Next

\* Every load, replay and fold gives a state, and what is saved is one.
LEMMA StatesStep ==
  ASSUME StoreInv, LengthInv, StatesInv, [Next]_vars PROVE StatesInv'
<1>1. \A x : StateOf(x) => StateOf(x)' BY LengthStep, ArchivedStays, StatesStay
<1>2. ASSUME NEW x, StateOf(x) PROVE StateOf(x)' BY <1>1, <1>2
<1>3. ASSUME NEW c \in Callers PROVE StateOf(loaded[c])'
  <2>1. PICK x : x = loaded'[c] OBVIOUS
  <2>2. StateOf(x)
    <3>1. CASE x = loaded[c] BY <3>1 DEF StatesInv
    <3>2. CASE x = Nothing BY <3>2, NothingIsState
    <3>3. CASE x = LatestSnapshot BY <3>3, LatestIsState
    <3>4. ASSUME NEW y \in {Nothing, loaded[c]}, x = Fold(y, StreamPage(y.v, MaxRehydrate)) PROVE StateOf(x)
      <4>1. StateOf(y) BY NothingIsState DEF StatesInv
      <4> QED BY <3>4, <4>1, FoldGivesState
    <3> QED BY <2>1, <3>1, <3>2, <3>3, <3>4, LoadedChange
  <2>3. StateOf(x)' BY <1>2, <2>2
  <2> QED BY <2>1, <2>3 DEF StateOf, FoldOf
<1>4. ASSUME NEW s \in snaps' PROVE StateOf(s)'
  <2>1. PICK x : x = s OBVIOUS
  <2>2. CASE x \in snaps
    <3>1. StateOf(x) BY <2>2 DEF StatesInv
    <3>2. StateOf(x)' BY <1>2, <3>1
    <3> QED BY <2>1, <3>2 DEF StateOf, FoldOf
  <2>3. ASSUME NEW c \in Callers, x = [v |-> loaded[c].v, state |-> loaded[c].state] PROVE StateOf(s)'
    <3>1. StateOf(loaded[c]) BY DEF StatesInv
    <3>2. x = loaded[c] BY <2>3, <3>1 DEF StateOf
    <3>3. StateOf(x)' BY <1>2, <3>1, <3>2
    <3> QED BY <2>1, <3>3 DEF StateOf, FoldOf
  <2> QED BY <2>1, <2>2, <2>3, SnapsChange
<1> QED BY <1>3, <1>4 DEF StatesInv

LEMMA StatesInit == Init => StatesInv
<1> SUFFICES ASSUME Init PROVE StatesInv
  OBVIOUS
<1>1. StateOf(Nothing) BY LengthInit, NothingIsState
<1> QED BY <1>1 DEF Init, TablesInit, StatesInv

\* snapshotter.ts:112-163: whatever is appended, archived and snapshotted in
\* between, a state is made of the versions up to the one it claims, in order
\* and once each, and misses only archived ones.
THEOREM FoldsMissOnlyTheArchived == Spec => []FoldsAreFaithful
<1>1. Init => StoreInv /\ LengthInv /\ StatesInv BY StoreInit, LengthInit, StatesInit
<1>2. StoreInv /\ LengthInv /\ StatesInv /\ [Next]_vars => (StoreInv /\ LengthInv /\ StatesInv)'
  BY StoreStep, LengthStep, StatesStep
<1>3. StatesInv => FoldsAreFaithful BY DEF StatesInv, StateOf, FoldsAreFaithful
<1> QED BY <1>1, <1>2, <1>3, PTL DEF Spec

(***************************************************************************)
(* The archival passes.                                                    *)
(***************************************************************************)
\* The events an object named by a key should hold: those of one month
\* between the two of its name.
ContentOf(key) == {u \in key[1]..key[2] : MonthOf(u) = MonthOf(key[1])}

\* What a pass has in hand: of each month it has a stretch without gaps, and
\* whatever came before in that month is archived.
HandSound(vs) ==
  /\ vs \subseteq Versions
  /\ \A v, w \in vs : \A u \in v..w : MonthOf(u) = MonthOf(v) /\ MonthOf(w) = MonthOf(v) => u \in vs
  /\ \A v \in vs : \A u \in 1..v : MonthOf(u) = MonthOf(v) => u \in vs \cup archived

MonthsFromStart == \A v \in archived : \A u \in 1..v : MonthOf(u) = MonthOf(v) => u \in archived

ArchiveTypes ==
  /\ old \in Nat /\ archived \subseteq Versions /\ archived \subseteq DOMAIN coldKey
  /\ todo = [a \in Passes |-> todo[a]] /\ putting = [a \in Passes |-> putting[a]]
UploadedIsThere ==
  \A a \in Passes : putting[a] => todo[a] # {} /\ KeyOf(NextGroup(todo[a])) \in DOMAIN objects
ObjectsAreWhole == \A k \in DOMAIN objects : objects[k] = ContentOf(k)

ArchiveInv ==
  /\ ArchiveTypes /\ MonthsFromStart /\ (\A a \in Passes : HandSound(todo[a]))
  /\ UploadedIsThere /\ ObjectsAreWhole /\ ArchivedIsStored

\* The next group is a whole stretch of its month, so that its name says what
\* it holds, and the rest of the hand is of other months.
LEMMA GroupIsStretch ==
  ASSUME LengthInv, NEW vs, HandSound(vs), vs # {}
  PROVE  /\ NextGroup(vs) # {} /\ NextGroup(vs) \subseteq vs
         /\ NextGroup(vs) = ContentOf(KeyOf(NextGroup(vs)))
         /\ \A v \in NextGroup(vs) : \A u \in 1..v : MonthOf(u) = MonthOf(v) => u \in NextGroup(vs) \cup archived
         /\ HandSound(vs \ NextGroup(vs))
<1> DEFINE G == NextGroup(vs)
           month == MonthOf(Min(vs))
<1>1. vs \in SUBSET (1..Length) /\ Length \in Nat BY DEF HandSound, LengthInv
<1>2. vs \in SUBSET Nat BY <1>1
<1>3. IsFiniteSet(1..Length) BY <1>1, FS_Interval
<1>4. IsFiniteSet(vs) BY <1>1, <1>3, FS_Subset
<1>5. Min(vs) \in vs BY <1>2, <1>4, GroupEnds
<1>6. G \in SUBSET vs /\ Min(vs) \in G BY <1>5 DEF NextGroup
<1>7. \A v \in vs : v \in G <=> MonthOf(v) = month BY DEF NextGroup
<1>8. G \in SUBSET Nat /\ G # {} BY <1>2, <1>6
<1>9. IsFiniteSet(G) BY <1>4, <1>6, FS_Subset
<1>10. Min(G) \in G /\ Max(G) \in G /\ \A v \in G : Min(G) =< v /\ v =< Max(G) BY <1>8, <1>9, GroupEnds
<1>11. KeyOf(G)[1] = Min(G) /\ KeyOf(G)[2] = Max(G) BY DEF KeyOf
<1>12. G = ContentOf(KeyOf(G))
  <2>1. ContentOf(KeyOf(G)) = {u \in Min(G)..Max(G) : MonthOf(u) = MonthOf(Min(G))} BY <1>11 DEF ContentOf
  <2>2. MonthOf(Min(G)) = month /\ MonthOf(Max(G)) = month BY <1>6, <1>7, <1>10
  <2>3. ASSUME NEW v \in G PROVE v \in Min(G)..Max(G) /\ MonthOf(v) = MonthOf(Min(G))
    BY <1>6, <1>7, <1>8, <1>10, <2>2
  <2>4. ASSUME NEW u \in Min(G)..Max(G), MonthOf(u) = MonthOf(Min(G)) PROVE u \in G
    <3>1. Min(G) \in vs /\ Max(G) \in vs BY <1>6, <1>10
    <3>2. u \in vs BY <2>2, <2>4, <3>1 DEF HandSound
    <3> QED BY <1>7, <2>2, <2>4, <3>2
  <2> QED BY <2>1, <2>3, <2>4
<1>13. ASSUME NEW v \in G, NEW u \in 1..v, MonthOf(u) = MonthOf(v) PROVE u \in G \cup archived
  <2>1. v \in vs /\ MonthOf(v) = month BY <1>6, <1>7
  <2>2. u \in vs \cup archived BY <1>13, <2>1 DEF HandSound
  <2> QED BY <1>7, <1>13, <2>1, <2>2
<1>14. HandSound(vs \ G)
  <2>1. vs \ G \subseteq Versions BY DEF HandSound
  <2>2. ASSUME NEW v \in vs \ G, NEW u, u \in vs, MonthOf(u) = MonthOf(v) PROVE u \in vs \ G
    BY <1>7, <2>2
  <2>3. ASSUME NEW v \in vs \ G, NEW w \in vs \ G, NEW u \in v..w, MonthOf(u) = MonthOf(v), MonthOf(w) = MonthOf(v)
        PROVE  u \in vs \ G
    <3>1. u \in vs BY <2>3 DEF HandSound
    <3> QED BY <2>2, <2>3, <3>1
  <2>4. ASSUME NEW v \in vs \ G, NEW u \in 1..v, MonthOf(u) = MonthOf(v) PROVE u \in (vs \ G) \cup archived
    <3>1. u \in vs \cup archived BY <2>4 DEF HandSound
    <3> QED BY <2>2, <2>4, <3>1
  <2> QED BY <2>1, <2>3, <2>4 DEF HandSound
<1> HIDE DEF G
<1>15. G # {} /\ G \subseteq vs BY <1>6
<1> QED BY <1>12, <1>13, <1>14, <1>15 DEF G

\* What a pass reads is a sound hand: nothing archived, and in each month the
\* first that are not.
LEMMA ReadIsSound ==
  ASSUME LengthInv, ArchiveInv PROVE HandSound(OlderThan(old, ArchiveBatch))
<1> DEFINE S == {v \in Versions \ archived : v =< old}
           T == Oldest(S, ArchiveBatch)
<1>1. old \in Nat /\ Versions = 1..Length /\ Length \in Nat BY DEF ArchiveInv, ArchiveTypes, LengthInv
<1>2. S \in SUBSET (1..Length) BY <1>1
<1>3. S \in SUBSET Nat BY <1>2
<1>4. IsFiniteSet(1..Length) BY <1>1, FS_Interval
<1>5. IsFiniteSet(S) BY <1>2, <1>4, FS_Subset
<1>6. T \in SUBSET S /\ \A v \in T, w \in S : w < v => w \in T
  BY <1>3, <1>5, LimitAssumption, OldestIsClosed
<1>7. ASSUME NEW w \in T, NEW u \in 1..w, u \notin archived PROVE u \in T
  <2>1. w \in 1..Length /\ w =< old BY <1>1, <1>6
  <2>2. u \in 1..Length /\ u =< old BY <1>1, <2>1
  <2>3. u \in S BY <1>1, <1>7, <2>2
  <2>4. u = w \/ u < w BY <2>1
  <2> QED BY <1>6, <2>3, <2>4
<1>8. T \subseteq Versions BY <1>6
<1>9. ASSUME NEW v \in T, NEW w \in T, NEW u \in v..w, MonthOf(u) = MonthOf(v), MonthOf(w) = MonthOf(v)
      PROVE  u \in T
  <2>1. v \in 1..Length /\ w \in 1..Length /\ v \notin archived BY <1>1, <1>6
  <2>2. u \in 1..w /\ v \in 1..u BY <1>1, <2>1
  <2>3. u \notin archived BY <1>9, <2>1, <2>2 DEF ArchiveInv, MonthsFromStart
  <2> QED BY <1>7, <2>2, <2>3
<1>10. ASSUME NEW v \in T, NEW u \in 1..v PROVE u \in T \cup archived BY <1>7
<1> HIDE DEF T
<1>11. HandSound(T) BY <1>8, <1>9, <1>10 DEF HandSound
<1> QED BY <1>11 DEF T, OlderThan

\* A step of the archive that changes none of its variables.
LEMMA ArchiveKept ==
  ASSUME LengthInv, LengthInv', ArchiveInv, Versions \subseteq Versions', old' \in Nat,
         UNCHANGED <<archived, coldKey, archVars>>
  PROVE  ArchiveInv'
<1> USE DEF archVars
<1>1. ArchiveTypes' BY DEF ArchiveInv, ArchiveTypes
<1>2. MonthsFromStart' BY DEF ArchiveInv, MonthsFromStart
<1>3. \A a \in Passes : HandSound(todo[a])' BY DEF ArchiveInv, HandSound
<1>4. UploadedIsThere' /\ ObjectsAreWhole' /\ ArchivedIsStored'
  BY DEF ArchiveInv, UploadedIsThere, NextGroup, KeyOf, ObjectsAreWhole, ContentOf, ArchivedIsStored
<1> QED BY <1>1, <1>2, <1>3, <1>4 DEF ArchiveInv

\* A pass reads what it will archive.
LEMMA StartKeeps ==
  ASSUME LengthInv, ArchiveInv, NEW a \in Passes, StartPass(a) PROVE ArchiveInv'
<1> USE DEF ArchiveInv
<1>1. /\ todo' = [todo EXCEPT ![a] = OlderThan(old, ArchiveBatch)] /\ todo[a] = {}
      /\ UNCHANGED <<rows, archived, coldKey, putting, objects, old>>
  BY DEF StartPass
<1>2. /\ todo'[a] = OlderThan(old, ArchiveBatch) /\ \A b \in Passes \ {a} : todo'[b] = todo[b]
  BY <1>1 DEF ArchiveTypes
<1>3. ArchiveTypes' BY <1>1 DEF ArchiveTypes, Versions
<1>4. MonthsFromStart' BY <1>1 DEF MonthsFromStart
<1>5. ASSUME NEW b \in Passes PROVE HandSound(todo[b])'
  <2>1. HandSound(todo'[b])
    <3>1. CASE b = a BY <1>2, <3>1, ReadIsSound
    <3>2. CASE b # a BY <1>2, <3>2
    <3> QED BY <3>1, <3>2
  <2> QED BY <1>1, <2>1 DEF HandSound, Versions
<1>6. UploadedIsThere'
  <2>1. ~putting[a] BY <1>1 DEF UploadedIsThere
  <2>2. ASSUME NEW b \in Passes, putting'[b]
        PROVE  todo'[b] # {} /\ KeyOf(NextGroup(todo'[b])) \in DOMAIN objects'
    <3>1. b # a /\ putting[b] /\ todo'[b] = todo[b] BY <1>1, <1>2, <2>1, <2>2
    <3> QED BY <1>1, <3>1 DEF UploadedIsThere
  <2> QED BY <2>2 DEF UploadedIsThere, NextGroup, KeyOf
<1>7. ObjectsAreWhole' /\ ArchivedIsStored' BY <1>1 DEF ObjectsAreWhole, ContentOf, ArchivedIsStored
<1> QED BY <1>3, <1>4, <1>5, <1>6, <1>7

\* An upload: an object of that name held the same events already.
LEMMA PutKeeps ==
  ASSUME LengthInv, ArchiveInv, NEW a \in Passes, PutObject(a) PROVE ArchiveInv'
<1> USE DEF ArchiveInv
<1> DEFINE G == NextGroup(todo[a])
           key == KeyOf(G)
<1>1. /\ todo[a] # {} /\ putting' = [putting EXCEPT ![a] = TRUE]
      /\ objects' = [k \in DOMAIN objects \cup {key} |-> IF k = key THEN G ELSE objects[k]]
      /\ UNCHANGED <<rows, archived, coldKey, todo, old>>
  BY DEF PutObject
<1>2. G = ContentOf(key) BY <1>1, GroupIsStretch
<1> HIDE DEF key, G
<1>3. DOMAIN objects' = DOMAIN objects \cup {key} BY <1>1
<1>4. ASSUME NEW k \in DOMAIN objects' PROVE objects'[k] = ContentOf(k)
  BY <1>1, <1>2, <1>4 DEF ObjectsAreWhole
<1>5. ArchiveTypes' BY <1>1 DEF ArchiveTypes, Versions
<1>6. MonthsFromStart' BY <1>1 DEF MonthsFromStart
<1>7. \A b \in Passes : HandSound(todo[b])' BY <1>1 DEF HandSound, Versions
<1>8. UploadedIsThere'
  <2>1. ASSUME NEW b \in Passes, putting'[b]
        PROVE  todo[b] # {} /\ KeyOf(NextGroup(todo[b])) \in DOMAIN objects'
    <3>1. CASE b = a BY <1>1, <1>3, <3>1 DEF key, G
    <3>2. CASE b # a
      <4>1. putting[b] BY <1>1, <2>1, <3>2 DEF ArchiveTypes
      <4> QED BY <1>3, <4>1 DEF UploadedIsThere
    <3> QED BY <3>1, <3>2
  <2> QED BY <1>1, <2>1 DEF UploadedIsThere, NextGroup, KeyOf
<1>9. ObjectsAreWhole' BY <1>4 DEF ObjectsAreWhole, ContentOf
<1>10. ArchivedIsStored'
  <2>1. ASSUME NEW v \in archived PROVE coldKey[v] \in DOMAIN objects' /\ v \in objects'[coldKey[v]]
    <3>1. coldKey[v] \in DOMAIN objects /\ v \in objects[coldKey[v]] BY DEF ArchivedIsStored
    <3>2. coldKey[v] \in DOMAIN objects' BY <1>3, <3>1
    <3>3. objects'[coldKey[v]] = objects[coldKey[v]] BY <1>4, <3>1, <3>2 DEF ObjectsAreWhole
    <3> QED BY <3>1, <3>2, <3>3
  <2> QED BY <1>1, <2>1 DEF ArchivedIsStored
<1> QED BY <1>5, <1>6, <1>7, <1>8, <1>9, <1>10

\* The rows of an uploaded group are marked: its object holds them.
LEMMA MarkKeeps ==
  ASSUME LengthInv, ArchiveInv, NEW a \in Passes, MarkGroup(a) PROVE ArchiveInv'
<1> USE DEF ArchiveInv
<1> DEFINE G == NextGroup(todo[a])
           key == KeyOf(G)
<1>1. /\ putting[a] /\ todo' = [todo EXCEPT ![a] = @ \ G] /\ putting' = [putting EXCEPT ![a] = FALSE]
      /\ archived' = archived \cup G
      /\ coldKey' = [v \in DOMAIN coldKey \cup G |-> IF v \in G THEN key ELSE coldKey[v]]
      /\ UNCHANGED <<rows, objects, old>>
  BY DEF MarkGroup, MarkArchived
<1>2. todo[a] # {} /\ key \in DOMAIN objects BY <1>1 DEF UploadedIsThere
<1>3. /\ G \subseteq todo[a] /\ G = ContentOf(key) /\ HandSound(todo[a] \ G)
      /\ \A v \in G : \A u \in 1..v : MonthOf(u) = MonthOf(v) => u \in G \cup archived
  BY <1>2, GroupIsStretch
<1>4. todo[a] \subseteq Versions BY DEF HandSound
<1> HIDE DEF key, G
<1>5. todo'[a] = todo[a] \ G /\ \A b \in Passes \ {a} : todo'[b] = todo[b] BY <1>1 DEF ArchiveTypes
<1>6. ArchiveTypes' BY <1>1, <1>3, <1>4 DEF ArchiveTypes, Versions
<1>7. MonthsFromStart' BY <1>1, <1>3 DEF MonthsFromStart
<1>8. ASSUME NEW b \in Passes PROVE HandSound(todo[b])'
  <2>1. HandSound(todo'[b])
    <3>1. CASE b = a BY <1>3, <1>5, <3>1
    <3>2. CASE b # a BY <1>5, <3>2
    <3> QED BY <3>1, <3>2
  <2> QED BY <1>1, <2>1 DEF HandSound, Versions
<1>9. UploadedIsThere'
  <2>1. ASSUME NEW b \in Passes, putting'[b]
        PROVE  todo'[b] # {} /\ KeyOf(NextGroup(todo'[b])) \in DOMAIN objects'
    <3>1. b # a /\ putting[b] BY <1>1, <2>1 DEF ArchiveTypes
    <3> QED BY <1>1, <1>5, <3>1 DEF UploadedIsThere
  <2> QED BY <2>1 DEF UploadedIsThere, NextGroup, KeyOf
<1>10. ObjectsAreWhole' BY <1>1 DEF ObjectsAreWhole, ContentOf
<1>11. ArchivedIsStored'
  <2>1. ASSUME NEW v \in archived' PROVE coldKey'[v] \in DOMAIN objects /\ v \in objects[coldKey'[v]]
    <3>1. CASE v \in G
      <4>1. coldKey'[v] = key BY <1>1, <3>1
      <4>2. objects[key] = G BY <1>2, <1>3 DEF ObjectsAreWhole
      <4> QED BY <1>2, <3>1, <4>1, <4>2
    <3>2. CASE v \notin G
      <4>1. v \in archived /\ v \in DOMAIN coldKey BY <1>1, <2>1, <3>2 DEF ArchiveTypes
      <4>2. coldKey'[v] = coldKey[v] BY <1>1, <3>2, <4>1
      <4> QED BY <4>1, <4>2 DEF ArchivedIsStored
    <3> QED BY <3>1, <3>2
  <2> QED BY <1>1, <2>1 DEF ArchivedIsStored
<1> QED BY <1>6, <1>7, <1>8, <1>9, <1>10, <1>11

\* A pass that fails, or a restart, drops what was in hand.
LEMMA DropKeeps ==
  ASSUME LengthInv, ArchiveInv, NEW P \in SUBSET Passes,
         todo' = [a \in Passes |-> IF a \in P THEN {} ELSE todo[a]],
         putting' = [a \in Passes |-> IF a \in P THEN FALSE ELSE putting[a]],
         UNCHANGED <<rows, archived, coldKey, objects, old>>
  PROVE  ArchiveInv'
<1> USE DEF ArchiveInv
<1>1. ArchiveTypes' BY DEF ArchiveTypes, Versions
<1>2. MonthsFromStart' BY DEF MonthsFromStart
<1>3. ASSUME NEW b \in Passes PROVE HandSound(todo[b])'
  <2>1. CASE b \in P BY <2>1 DEF HandSound
  <2>2. CASE b \notin P
    <3>1. todo'[b] = todo[b] BY <2>2
    <3>2. HandSound(todo[b]) OBVIOUS
    <3> QED BY <3>1, <3>2 DEF HandSound, Versions
  <2> QED BY <2>1, <2>2
<1>4. UploadedIsThere'
  <2>1. ASSUME NEW b \in Passes, putting'[b]
        PROVE  todo'[b] # {} /\ KeyOf(NextGroup(todo'[b])) \in DOMAIN objects'
    <3>1. putting[b] /\ todo'[b] = todo[b] BY <2>1
    <3> QED BY <3>1 DEF UploadedIsThere
  <2> QED BY <2>1 DEF UploadedIsThere, NextGroup, KeyOf
<1>5. ObjectsAreWhole' /\ ArchivedIsStored' BY DEF ObjectsAreWhole, ContentOf, ArchivedIsStored
<1> QED BY <1>1, <1>2, <1>3, <1>4, <1>5

LEMMA ArchiveInit == Init => ArchiveInv
<1> SUFFICES ASSUME Init PROVE ArchiveInv
  OBVIOUS
<1> USE DEF Init, TablesInit
<1>1. DOMAIN objects = {} OBVIOUS
<1>2. ArchiveTypes /\ MonthsFromStart BY DEF ArchiveTypes, MonthsFromStart
<1>3. \A a \in Passes : HandSound(todo[a]) BY DEF HandSound
<1>4. UploadedIsThere /\ ObjectsAreWhole /\ ArchivedIsStored
  BY <1>1 DEF UploadedIsThere, ObjectsAreWhole, ArchivedIsStored
<1> QED BY <1>2, <1>3, <1>4 DEF ArchiveInv

LEMMA ArchiveStep ==
  ASSUME StoreInv, LengthInv, ArchiveInv, [Next]_vars PROVE ArchiveInv'
<1>1. LengthInv' /\ Versions \subseteq Versions' BY LengthStep
<1>2. old \in Nat BY DEF ArchiveInv, ArchiveTypes
<1>3. ASSUME NEW c \in Callers, Call(c) PROVE ArchiveInv'
  <2>1. UNCHANGED <<archived, coldKey, archVars, old>>
    BY <1>3 DEF Call, LoadSnapshot, Replay, AppendNothing, RefuseOversized, CheckVersion, Insert,
                Commit, AppendFails, FoldForSnapshot, SaveFolded, SnapshotFails
  <2> QED BY <1>1, <1>2, <2>1, ArchiveKept
<1>4. ASSUME NEW a \in Passes, Archive(a) PROVE ArchiveInv'
  <2>1. CASE StartPass(a) BY <2>1, StartKeeps
  <2>2. CASE PutObject(a) BY <2>2, PutKeeps
  <2>3. CASE MarkGroup(a) BY <2>3, MarkKeeps
  <2>4. CASE PassFails(a)
    <3>1. /\ todo' = [b \in Passes |-> IF b \in {a} THEN {} ELSE todo[b]]
          /\ putting' = [b \in Passes |-> IF b \in {a} THEN FALSE ELSE putting[b]]
      BY <2>4 DEF PassFails, ArchiveInv, ArchiveTypes
    <3>2. UNCHANGED <<rows, archived, coldKey, objects, old>> BY <2>4 DEF PassFails
    <3>3. {a} \in SUBSET Passes OBVIOUS
    <3> QED BY <3>1, <3>2, <3>3, DropKeeps
  <2> QED BY <1>4, <2>1, <2>2, <2>3, <2>4 DEF Archive
<1>5. CASE Age
  <2>1. old' \in Nat BY <1>2, <1>5 DEF Age
  <2>2. UNCHANGED <<archived, coldKey, archVars>> BY <1>5 DEF Age
  <2> QED BY <1>1, <2>1, <2>2, ArchiveKept
<1>6. CASE Restart
  <2>1. /\ todo' = [b \in Passes |-> IF b \in Passes THEN {} ELSE todo[b]]
        /\ putting' = [b \in Passes |-> IF b \in Passes THEN FALSE ELSE putting[b]]
    BY <1>6 DEF Restart
  <2>2. UNCHANGED <<rows, archived, coldKey, objects, old>> BY <1>6 DEF Restart
  <2>3. Passes \in SUBSET Passes OBVIOUS
  <2> QED BY <2>1, <2>2, <2>3, DropKeeps
<1>7. CASE UNCHANGED vars
  <2>1. UNCHANGED <<archived, coldKey, archVars, old>> BY <1>7 DEF vars, archVars
  <2> QED BY <1>1, <1>2, <2>1, ArchiveKept
<1> QED BY <1>3, <1>4, <1>5, <1>6, <1>7 DEF Next

CallTypes ==
  /\ pc \in [Callers -> {"idle", "replay", "ready", "insert", "commit", "fold", "save"}]
  /\ size \in [Callers -> 0..MaxBatch] /\ acked \in [Callers -> Nat]

LEMMA CallTypesInit == Init => CallTypes
BY BatchAssumption DEF Init, CallTypes

LEMMA CallTypesStep ==
  ASSUME StoreInv, StatesInv, CallTypes, [Next]_vars PROVE CallTypes'
<1> USE BatchAssumption DEF CallTypes
<1>1. \A c \in Callers : loaded[c].v \in Nat BY DEF StatesInv, StateOf
<1>2. \A v : AfterAppend(v) \in {"fold", "idle"} BY DEF AfterAppend
<1>3. 0 \in 0..MaxBatch /\ 1..MaxBatch \subseteq 0..MaxBatch OBVIOUS
<1>4. ASSUME NEW c \in Callers, NEW label \in {"fold", "idle"}, Leave(c, label)
      PROVE  /\ pc' \in [Callers -> {"idle", "replay", "ready", "insert", "commit", "fold", "save"}]
             /\ size' \in [Callers -> 0..MaxBatch]
  BY <1>3, <1>4 DEF Leave, Goto
<1>5. ASSUME NEW c \in Callers, Call(c) PROVE CallTypes'
  <2>1. CASE LoadSnapshot(c) \/ Replay(c) BY <2>1 DEF LoadSnapshot, Replay, Goto
  <2>2. CASE AppendNothing(c)
    <3>1. AfterAppend(Expected(c)) \in {"fold", "idle"} BY <1>2
    <3> QED BY <1>4, <2>2, <3>1 DEF AppendNothing
  <2>3. CASE RefuseOversized(c) \/ SaveFolded(c) \/ SnapshotFails(c)
    BY <1>4, <2>3 DEF RefuseOversized, SaveFolded, SnapshotFails
  <2>4. CASE CheckVersion(c)
    <3>1. CASE IsHead(Expected(c)) BY <1>3, <2>4, <3>1 DEF CheckVersion, Goto
    <3>2. CASE ~IsHead(Expected(c)) BY <1>4, <2>4, <3>2 DEF CheckVersion
    <3> QED BY <3>1, <3>2
  <2>5. CASE Insert(c)
    <3>1. acked' = acked BY <2>5 DEF Insert
    <3>2. Leave(c, "idle") \/ (Goto(c, "commit") /\ size' = size) BY <2>5 DEF Insert
    <3> QED BY <1>4, <3>1, <3>2 DEF Goto
  <2>6. CASE Commit(c)
    <3>1. AfterAppend(Expected(c) + size[c]) \in {"fold", "idle"} BY <1>2
    <3>2. loaded[c].v \in Nat /\ size[c] \in Nat BY <1>1
    <3>3. acked' = [acked EXCEPT ![c] = loaded[c].v + size[c]] BY <2>6 DEF Commit, Expected
    <3>4. acked' \in [Callers -> Nat] BY <3>2, <3>3
    <3>5. Leave(c, AfterAppend(Expected(c) + size[c])) BY <2>6 DEF Commit
    <3> QED BY <1>4, <3>1, <3>4, <3>5
  <2>7. CASE AppendFails(c) BY <1>4, <2>7 DEF AppendFails
  <2>8. CASE FoldForSnapshot(c)
    <3>1. acked' = acked BY <2>8 DEF FoldForSnapshot
    <3>2. Leave(c, "idle") \/ (Goto(c, "save") /\ size' = size) BY <2>8 DEF FoldForSnapshot
    <3> QED BY <1>4, <3>1, <3>2 DEF Goto
  <2> QED BY <1>5, <2>1, <2>2, <2>3, <2>4, <2>5, <2>6, <2>7, <2>8 DEF Call
<1>6. ASSUME NEW a \in Passes, Archive(a) PROVE CallTypes'
  BY <1>6 DEF Archive, StartPass, PutObject, MarkGroup, PassFails, callVars
<1>7. CASE Age BY <1>7 DEF Age, callVars
<1>8. CASE Restart BY <1>3, <1>8 DEF Restart
<1>9. CASE UNCHANGED vars BY <1>9 DEF vars
<1> QED BY <1>5, <1>6, <1>7, <1>8, <1>9 DEF Next

\* Everything above together.
StreamInv == StoreInv /\ LengthInv /\ StatesInv /\ ArchiveInv /\ CallTypes

LEMMA StreamInvariant == Spec => []StreamInv
<1>1. Init => StreamInv BY StoreInit, LengthInit, StatesInit, ArchiveInit, CallTypesInit DEF StreamInv
<1>2. StreamInv /\ [Next]_vars => StreamInv'
  <2> SUFFICES ASSUME StreamInv, [Next]_vars PROVE StreamInv'
    OBVIOUS
  <2> QED BY StoreStep, LengthStep, StatesStep, ArchiveStep, CallTypesStep DEF StreamInv
<1> QED BY <1>1, <1>2, PTL DEF Spec

\* cold-storage.ts:57-86, persistence.ts:199-213: however passes overlap and
\* wherever they fail, an event whose payload is cleared is in the object its
\* key names: passes that give two objects one name give them one content.
THEOREM ClearedOnlyWhenStored == Spec => []ArchivalIsSound
<1>1. StreamInv => ArchivalIsSound
  <2> SUFFICES ASSUME StreamInv PROVE ArchivalIsSound
    OBVIOUS
  <2> USE DEF StreamInv
  <2>1. rows \in SUBSET Event BY DEF StoreInv, StoreTypes
  <2>2. tentative \in [Callers -> SUBSET Event]
    <3>1. ASSUME NEW c \in Callers PROVE tentative[c] \in SUBSET Event
      <4>1. CASE pc[c] = "commit"
        <5>1. loaded[c].v \in Nat /\ size[c] \in 1..MaxBatch BY <4>1 DEF StoreInv, ExpectedIsReached, Checked
        <5>2. tentative[c] = BatchOf(c, loaded[c].v, size[c]) BY <4>1 DEF StoreInv, TentativeIsBatch
        <5> QED BY <5>1, <5>2, BatchVersions
      <4>2. CASE pc[c] # "commit" BY <4>2 DEF StoreInv, TentativeIsBatch
      <4> QED BY <4>1, <4>2
    <3>2. tentative = [c \in Callers |-> tentative[c]] BY DEF StoreInv, StoreTypes, Fun
    <3> QED BY <3>1, <3>2
  <2>3. \A c \in Callers : loaded[c].v \in Nat BY DEF StatesInv, StateOf
  <2>4. \A a \in Passes : putting[a] => todo[a] # {} BY DEF ArchiveInv, UploadedIsThere
  <2>5. TypeOK BY <2>1, <2>2, <2>3, <2>4 DEF TypeOK, CallTypes
  <2> QED BY <2>5 DEF ArchivalIsSound, ArchiveInv
<1> QED BY <1>1, StreamInvariant, PTL

(***************************************************************************)
(* Refinement: the stream is the compare-and-append log of EventLog.       *)
(***************************************************************************)
\* What one step does to the log, the expectations and the answers.
LEMMA LogKept == ASSUME rows' = rows PROVE LogOf' = LogOf
BY DEF LogOf, Versions

LEMMA LogLength ==
  ASSUME StoreInv, LengthInv PROVE LogOf \in Seq(Callers) /\ Len(LogOf) = Length /\ Length \in Nat
<1>1. ASSUME NEW v \in 1..Length PROVE (CHOOSE r \in rows : r.v = v).by \in Callers
  <2>1. \E r \in rows : r.v = v BY DEF LengthInv, Versions
  <2>2. (CHOOSE r \in rows : r.v = v) \in rows BY <2>1
  <2> QED BY <2>2 DEF StoreInv, StoreTypes, Event
<1>2. LogOf \in [1..Length -> Callers] BY <1>1 DEF LogOf, Length
<1>3. Length \in Nat BY DEF LengthInv
<1> QED BY <1>2, <1>3

\* A sequence followed by n times the same value, index by index.
LEMMA Padded ==
  ASSUME NEW S, NEW s \in Seq(S), NEW n \in Nat, NEW c \in S
  PROVE  s \o [i \in 1..n |-> c] = [v \in 1..(Len(s) + n) |-> IF v =< Len(s) THEN s[v] ELSE c]
<1> DEFINE t == [i \in 1..n |-> c]
           u == s \o t
<1>1. t \in Seq(S) /\ Len(t) = n /\ \A i \in 1..n : t[i] = c OBVIOUS
<1>2. Len(s) \in Nat OBVIOUS
<1> HIDE DEF t
<1>3. u \in Seq(S) /\ Len(u) = Len(s) + n BY <1>1
<1>4. \A i \in 1..Len(s) : u[i] = s[i] BY <1>1
<1>5. \A i \in 1..n : u[Len(s) + i] = t[i] BY <1>1
<1> HIDE DEF u
<1>6. u = [v \in 1..(Len(s) + n) |-> u[v]] BY <1>3
<1>7. ASSUME NEW v \in 1..(Len(s) + n) PROVE u[v] = IF v =< Len(s) THEN s[v] ELSE c
  <2>1. CASE v =< Len(s)
    <3>1. v \in 1..Len(s) BY <1>2, <2>1
    <3> QED BY <1>4, <2>1, <3>1
  <2>2. CASE ~(v =< Len(s))
    <3>1. v - Len(s) \in 1..n /\ Len(s) + (v - Len(s)) = v BY <1>2, <2>2
    <3> QED BY <1>1, <1>5, <2>2, <3>1
  <2> QED BY <2>1, <2>2
<1>8. u = [v \in 1..(Len(s) + n) |-> IF v =< Len(s) THEN s[v] ELSE c] BY <1>6, <1>7
<1> QED BY <1>8 DEF u, t

\* A commit appends its batch to the log.
LEMMA LogGrows ==
  ASSUME StoreInv, LengthInv, NEW c \in Callers, pc[c] = "commit", CommitBatch(c)
  PROVE  LogOf' = LogOf \o [i \in 1..size[c] |-> c]
<1> DEFINE n == size[c]
           Writer(v) == (CHOOSE r \in rows : r.v = v).by
           NewWriter(v) == (CHOOSE r \in rows' : r.v = v).by
<1>1. loaded[c].v = Length /\ n \in 1..MaxBatch /\ n \in Nat /\ Length' = Length + n /\ Length \in Nat
  BY CommitGrows DEF LengthInv
<1>2. tentative[c] = BatchOf(c, Length, n) BY <1>1 DEF StoreInv, TentativeIsBatch
<1>3. rows' = rows \cup BatchOf(c, Length, n) BY <1>2 DEF CommitBatch
<1>4. LogOf = [v \in 1..Length |-> Writer(v)] BY DEF LogOf, Length
<1>5. LogOf' = [v \in 1..(Length + n) |-> NewWriter(v)] BY <1>1 DEF LogOf, Length
<1>6. \A r, s \in rows' : r.v = s.v => r = s
  <2>1. \A r, s \in BatchOf(c, Length, n) : r.v = s.v => r = s
    <3>1. PICK e \in Nat : e = Length BY <1>1
    <3>2. \A r, s \in BatchOf(c, e, n) : r.v = s.v => r = s BY <1>1, BatchVersions
    <3> QED BY <3>1, <3>2
  <2>2. \A r \in rows, s \in BatchOf(c, Length, n) : r.v # s.v BY <1>2 DEF StoreInv, Unclaimed
  <2> QED BY <1>3, <2>1, <2>2 DEF StoreInv, LogIsDense
<1>7. ASSUME NEW v \in 1..Length PROVE NewWriter(v) = Writer(v)
  <2>1. PICK r \in rows : r.v = v BY DEF LengthInv, Versions
  <2>2. \A s \in rows : s.v = v => s = r BY <1>3, <1>6, <2>1
  <2>3. \A s \in rows' : s.v = v => s = r BY <1>3, <1>6, <2>1
  <2>4. (CHOOSE s \in rows : s.v = v) = r BY <2>1, <2>2
  <2>5. (CHOOSE s \in rows' : s.v = v) = r BY <1>3, <2>1, <2>3
  <2> QED BY <2>4, <2>5
<1>8. ASSUME NEW i \in 1..n PROVE NewWriter(Length + i) = c
  <2> DEFINE r == [v |-> Length + i, by |-> c]
  <2>1. r \in rows' /\ r.v = Length + i /\ r.by = c BY <1>3 DEF BatchOf
  <2>2. \A s \in rows' : s.v = Length + i => s = r BY <1>6, <2>1
  <2>3. (CHOOSE s \in rows' : s.v = Length + i) = r BY <2>1, <2>2
  <2> QED BY <2>1, <2>3
<1> HIDE DEF Writer, NewWriter
<1>9. LogOf \o [i \in 1..n |-> c] = [v \in 1..(Length + n) |-> IF v =< Length THEN LogOf[v] ELSE c]
  <2>1. LogOf \in Seq(Callers) /\ Len(LogOf) = Length BY LogLength
  <2>2. PICK s \in Seq(Callers) : s = LogOf BY <2>1
  <2>3. s \o [i \in 1..n |-> c] = [v \in 1..(Len(s) + n) |-> IF v =< Len(s) THEN s[v] ELSE c] BY <1>1, Padded
  <2> QED BY <2>1, <2>2, <2>3
<1>10. ASSUME NEW v \in 1..(Length + n) PROVE NewWriter(v) = IF v =< Length THEN LogOf[v] ELSE c
  <2>1. CASE v =< Length
    <3>1. v \in 1..Length BY <1>1, <2>1
    <3> QED BY <1>4, <1>7, <2>1, <3>1
  <2>2. CASE ~(v =< Length)
    <3>1. v - Length \in 1..n /\ Length + (v - Length) = v BY <1>1, <2>2
    <3> QED BY <1>8, <2>2, <3>1
  <2> QED BY <2>1, <2>2
<1> QED BY <1>5, <1>9, <1>10

\* One call's expectation changes, and its last answer may be forgotten.
LEMMA ExpectStep ==
  ASSUME StoreInv, LengthInv, NEW c \in Callers, NEW x, StateOf(x), loaded' = [loaded EXCEPT ![c] = x],
         acked' \in {acked, [acked EXCEPT ![c] = 0]}, rows' = rows
  PROVE  Log!Next
<1>1. LogOf' = LogOf BY LogKept
<1>2. Len(LogOf) = Length BY LogLength
<1>3. x.v \in 0..Length BY DEF StateOf, LengthInv
<1>4. [d \in Callers |-> Expected(d)]' = [[d \in Callers |-> Expected(d)] EXCEPT ![c] = x.v]
  BY DEF Expected, StoreInv, StoreTypes, Fun
<1>5. Log!Expect(c) BY <1>1, <1>2, <1>3, <1>4 DEF Log!Expect
<1> QED BY <1>5 DEF Log!Next

\* A commit, of which the caller hears or not.
LEMMA AppendStep ==
  ASSUME StoreInv, LengthInv, NEW c \in Callers, pc[c] = "commit", CommitBatch(c),
         loaded' = [loaded EXCEPT ![c] = Nothing],
         acked' \in {acked, [acked EXCEPT ![c] = Expected(c) + size[c]]}
  PROVE  Log!Next
<1>1. LogOf' = LogOf \o [i \in 1..size[c] |-> c] BY LogGrows
<1>2. Len(LogOf) = Length BY LogLength
<1>3. loaded[c].v = Length /\ size[c] \in 1..MaxBatch BY CommitGrows
<1>4. [d \in Callers |-> Expected(d)]' = [[d \in Callers |-> Expected(d)] EXCEPT ![c] = 0]
  BY DEF Expected, Nothing, StoreInv, StoreTypes, Fun
<1>5. [d \in Callers |-> Expected(d)][c] = Len(LogOf) BY <1>2, <1>3 DEF Expected
<1>6. acked' \in {acked, [acked EXCEPT ![c] = Len(LogOf) + size[c]]} BY <1>2, <1>3 DEF Expected
<1>7. Log!Append_(c) BY <1>1, <1>3, <1>4, <1>5, <1>6 DEF Log!Append_
<1> QED BY <1>7 DEF Log!Next

\* Every step of a call is one of the log, or none.
LEMMA CallRefines ==
  ASSUME StreamInv, NEW c \in Callers, Call(c) PROVE [Log!Next]_Log!vars
<1> USE DEF StreamInv
<1>1. StateOf(Nothing) /\ StateOf(LatestSnapshot) /\ StateOf(loaded[c])
  BY NothingIsState, LatestIsState DEF StatesInv
<1>2. ASSUME rows' = rows, loaded' = loaded, acked' = acked PROVE [Log!Next]_Log!vars
  BY <1>2, LogKept DEF Log!vars, Expected
<1>3. ASSUME NEW label, Leave(c, label), rows' = rows, acked' = acked PROVE Log!Next
  BY <1>1, <1>3, ExpectStep DEF Leave
<1>4. CASE LoadSnapshot(c) BY <1>1, <1>4, ExpectStep DEF LoadSnapshot
<1>5. CASE Replay(c)
  <2>1. loaded' = [loaded EXCEPT ![c] = Fold(loaded[c], StreamPage(loaded[c].v, MaxRehydrate))]
    BY <1>5 DEF Replay
  <2>2. StateOf(Fold(loaded[c], StreamPage(loaded[c].v, MaxRehydrate))) BY <1>1, FoldGivesState
  <2> QED BY <1>5, <2>1, <2>2, ExpectStep DEF Replay
<1>6. CASE AppendNothing(c) BY <1>3, <1>6 DEF AppendNothing
<1>7. CASE RefuseOversized(c) BY <1>3, <1>7 DEF RefuseOversized
<1>8. CASE CheckVersion(c) BY <1>2, <1>3, <1>8 DEF CheckVersion
<1>9. CASE Insert(c)
  <2>1. rows' = rows /\ acked' = acked BY <1>9 DEF Insert
  <2>2. Leave(c, "idle") \/ loaded' = loaded BY <1>9 DEF Insert
  <2> QED BY <1>2, <1>3, <2>1, <2>2
<1>10. CASE Commit(c)
  <2>1. /\ pc[c] = "commit" /\ CommitBatch(c) /\ acked' = [acked EXCEPT ![c] = Expected(c) + size[c]]
        /\ loaded' = [loaded EXCEPT ![c] = Nothing]
    BY <1>10 DEF Commit, Leave
  <2> QED BY <2>1, AppendStep
<1>11. CASE AppendFails(c)
  <2>1. Leave(c, "idle") /\ acked' = acked BY <1>11 DEF AppendFails
  <2>2. CASE rows' = rows BY <1>3, <2>1, <2>2
  <2>3. CASE pc[c] = "commit" /\ CommitBatch(c) BY <2>1, <2>3, AppendStep DEF Leave
  <2> QED BY <1>11, <2>2, <2>3 DEF AppendFails
<1>12. CASE FoldForSnapshot(c)
  <2>1. rows' = rows /\ acked' = acked BY <1>12 DEF FoldForSnapshot
  <2>2. CASE Leave(c, "idle") BY <1>3, <2>1, <2>2
  <2>3. CASE ~Leave(c, "idle")
    <3>1. Nothing.v = 0 BY DEF Nothing
    <3>2. loaded' = [loaded EXCEPT ![c] = Fold(Nothing, StreamPage(Nothing.v, MaxRehydrate))]
      BY <1>12, <2>3, <3>1 DEF FoldForSnapshot
    <3>3. StateOf(Fold(Nothing, StreamPage(Nothing.v, MaxRehydrate))) BY <1>1, FoldGivesState
    <3> QED BY <2>1, <3>2, <3>3, ExpectStep
  <2> QED BY <2>2, <2>3
<1>13. CASE SaveFolded(c) BY <1>3, <1>13 DEF SaveFolded
<1>14. CASE SnapshotFails(c) BY <1>3, <1>14 DEF SnapshotFails
<1> QED BY <1>4, <1>5, <1>6, <1>7, <1>8, <1>9, <1>10, <1>11, <1>12, <1>13, <1>14 DEF Call

\* stream.ts:38-78, persistence.ts:79-126: for any callers, batches, passes and
\* failures, what callers see of the stream is a compare-and-append log.
THEOREM StreamIsALog == Spec => ImplementsLog
<1>1. Init => Log!Init
  <2> SUFFICES ASSUME Init PROVE Log!Init
    OBVIOUS
  <2>1. LengthInv /\ Versions = {} BY LengthInit DEF Init, TablesInit, Versions
  <2>2. Length = 0 BY <2>1, FS_EmptySet DEF Length
  <2>3. LogOf = <<>> BY <2>2 DEF LogOf, Length
  <2> QED BY <2>3 DEF Init, Log!Init, Expected, Nothing
<1>2. StreamInv /\ [Next]_vars => [Log!Next]_Log!vars
  <2> SUFFICES ASSUME StreamInv, [Next]_vars PROVE [Log!Next]_Log!vars
    OBVIOUS
  <2>1. ASSUME rows' = rows, loaded' = loaded, acked' = acked PROVE [Log!Next]_Log!vars
    BY <2>1, LogKept DEF Log!vars, Expected
  <2>2. ASSUME NEW c \in Callers, Call(c) PROVE [Log!Next]_Log!vars BY <2>2, CallRefines
  <2>3. ASSUME NEW a \in Passes, Archive(a) PROVE [Log!Next]_Log!vars
    <3>1. rows' = rows /\ loaded' = loaded /\ acked' = acked
      BY <2>3 DEF Archive, StartPass, PutObject, MarkGroup, PassFails, callVars
    <3> QED BY <2>1, <3>1
  <2>4. CASE Age BY <2>1, <2>4 DEF Age, callVars
  <2>5. CASE Restart
    <3>1. LogOf' = LogOf BY <2>5, LogKept DEF Restart
    <3>2. [c \in Callers |-> Expected(c)]' = [c \in Callers |-> 0] BY <2>5 DEF Restart, Expected, Nothing
    <3>3. acked' = [c \in Callers |-> 0] BY <2>5 DEF Restart
    <3>4. Log!Forget BY <3>1, <3>2, <3>3 DEF Log!Forget
    <3> QED BY <3>4 DEF Log!Next
  <2>6. CASE UNCHANGED vars BY <2>1, <2>6 DEF vars
  <2> QED BY <2>2, <2>3, <2>4, <2>5, <2>6 DEF Next
<1>3. Spec => Log!Spec BY <1>1, <1>2, StreamInvariant, PTL DEF Spec, Log!Spec
<1> QED BY <1>3 DEF ImplementsLog
=============================================================================
