----------------------------- MODULE EventStore -----------------------------
(***************************************************************************)
(* One event stream (src/event-store): callers that rehydrate it, append   *)
(* with the version they loaded and snapshot it when the append crosses    *)
(* the threshold (stream.ts, snapshotter.ts), and the cold-storage passes  *)
(* that archive its old events (cold-storage.ts).  The cron does not wait  *)
(* for a pass before it starts the next one.  One step per database or     *)
(* object-store call.                                                      *)
(***************************************************************************)
EXTENDS EventPersistence

CONSTANTS Passes,        \* archival passes that may overlap
          Threshold,     \* a snapshot every so many versions
          MaxRehydrate,  \* MAX_REHYDRATE_EVENTS
          ArchiveBatch,  \* events one pass reads
          MonthOf(_),    \* the month partition of a version
          MaxVersion,    \* bound: versions
          MaxFaults      \* bound: failed calls and crashes

ASSUME LimitAssumption == MaxRehydrate \in Nat /\ ArchiveBatch \in Nat

VARIABLES pc, loaded, size, acked,   \* per caller
          todo,                      \* versions a pass has still to archive
          putting,                   \* whether its next group is uploaded
          objects,                   \* the object store: key -> versions in the body
          old,                       \* versions past the retention window
          faults

callVars == <<pc, loaded, size, acked>>
archVars == <<todo, putting, objects>>
vars == <<rows, tentative, archived, coldKey, snaps, pc, loaded, size, acked, todo, putting, objects, old, faults>>

Nothing == [v |-> 0, state |-> <<>>]

Init ==
  /\ TablesInit
  /\ pc = [c \in Callers |-> "idle"]
  /\ loaded = [c \in Callers |-> Nothing]
  /\ size = [c \in Callers |-> 0]
  /\ acked = [c \in Callers |-> 0]
  /\ todo = [a \in Passes |-> {}]
  /\ putting = [a \in Passes |-> FALSE]
  /\ objects = <<>>
  /\ old = 0
  /\ faults = 0

Goto(c, label) == pc' = [pc EXCEPT ![c] = label]

\* The call is over, but for the snapshot that may follow an append.
Leave(c, label) ==
  /\ Goto(c, label)
  /\ loaded' = [loaded EXCEPT ![c] = Nothing]
  /\ size' = [size EXCEPT ![c] = 0]

Fault == faults < MaxFaults /\ faults' = faults + 1

(***************************************************************************)
(* Snapshotter.                                                            *)
(***************************************************************************)
ShouldSnapshot(version) == version > 0 /\ version % Threshold = 0

\* The mutant: the version is counted instead of read from the last event.
FoldCounts(base, page) == [v |-> base.v + Len(page), state |-> base.state \o page]

\* fold: the state with the events of a page applied, and the version reached.
Fold(base, page) ==
  [v |-> IF page = <<>> THEN base.v ELSE Last(page), state |-> base.state \o page]

LoadSnapshot(c) ==
  /\ pc[c] = "idle"
  /\ loaded' = [loaded EXCEPT ![c] = LatestSnapshot]
  /\ acked' = [acked EXCEPT ![c] = 0]
  /\ Goto(c, "replay")
  /\ UNCHANGED <<rows, tentative, archived, coldKey, snaps, size, archVars, old, faults>>

Replay(c) ==
  /\ pc[c] = "replay"
  /\ loaded' = [loaded EXCEPT ![c] = Fold(@, StreamPage(@.v, MaxRehydrate))]
  /\ Goto(c, "ready")
  /\ UNCHANGED <<rows, tentative, archived, coldKey, snaps, size, acked, archVars, old, faults>>

\* createSnapshot reads from the start of the stream, not from a snapshot.
FoldForSnapshot(c) ==
  /\ pc[c] = "fold"
  /\ LET page == StreamPage(0, MaxRehydrate)
     IN  IF page = <<>>
         THEN Leave(c, "idle")
         ELSE /\ loaded' = [loaded EXCEPT ![c] = Fold(Nothing, page)]
              /\ Goto(c, "save")
              /\ UNCHANGED size
  /\ UNCHANGED <<rows, tentative, archived, coldKey, snaps, acked, archVars, old, faults>>

SaveFolded(c) ==
  /\ pc[c] = "save"
  /\ SaveSnapshot(loaded[c].v, loaded[c].state)
  /\ Leave(c, "idle")
  /\ UNCHANGED <<rows, tentative, archived, coldKey, acked, archVars, old, faults>>

\* A snapshot that cannot be written is logged and forgotten.
SnapshotFails(c) ==
  /\ pc[c] \in {"fold", "save"}
  /\ Fault
  /\ Leave(c, "idle")
  /\ UNCHANGED <<rows, tentative, archived, coldKey, snaps, acked, archVars, old>>

(***************************************************************************)
(* EventStream.append, and appendEvents under it.                          *)
(***************************************************************************)
Expected(c) == loaded[c].v

AfterAppend(version) == IF ShouldSnapshot(version) THEN "fold" ELSE "idle"

\* An empty batch touches no table, and is followed by the same snapshot rule.
AppendNothing(c) ==
  /\ pc[c] = "ready"
  /\ Leave(c, AfterAppend(Expected(c)))
  /\ UNCHANGED <<rows, tentative, archived, coldKey, snaps, acked, archVars, old, faults>>

\* An event over MAX_EVENT_PAYLOAD_BYTES is refused before any query.
RefuseOversized(c) ==
  /\ pc[c] = "ready"
  /\ Leave(c, "idle")
  /\ UNCHANGED <<rows, tentative, archived, coldKey, snaps, acked, archVars, old, faults>>

\* BEGIN and the version check; a mismatch rolls back with a conflict.
CheckVersion(c) ==
  /\ pc[c] = "ready"
  /\ IF IsHead(Expected(c))
     THEN /\ \E n \in 1..MaxBatch :
               /\ Expected(c) + n =< MaxVersion
               /\ size' = [size EXCEPT ![c] = n]
          /\ Goto(c, "insert")
          /\ UNCHANGED loaded
     ELSE Leave(c, "idle")
  /\ UNCHANGED <<rows, tentative, archived, coldKey, snaps, acked, archVars, old, faults>>

\* The INSERT waits for an open transaction on the same key, and fails on a
\* committed one: unique_violation, reported as a conflict.
Insert(c) ==
  LET batch == BatchOf(c, Expected(c), size[c])
  IN  /\ pc[c] = "insert"
      /\ ~Blocked(c, batch)
      /\ IF Clashes(batch)
         THEN Leave(c, "idle") /\ UNCHANGED tentative
         ELSE Goto(c, "commit") /\ InsertBatch(c, batch) /\ UNCHANGED <<loaded, size>>
  /\ UNCHANGED <<rows, archived, coldKey, snaps, acked, archVars, old, faults>>

Commit(c) ==
  /\ pc[c] = "commit"
  /\ CommitBatch(c)
  /\ acked' = [acked EXCEPT ![c] = Expected(c) + size[c]]
  /\ Leave(c, AfterAppend(Expected(c) + size[c]))
  /\ UNCHANGED <<archived, coldKey, snaps, archVars, old, faults>>

\* The connection drops: the caller gets an error, whether or not the server
\* had committed.
AppendFails(c) ==
  /\ pc[c] \in {"insert", "commit"}
  /\ Fault
  /\ \/ pc[c] = "commit" /\ CommitBatch(c)
     \/ tentative' = [tentative EXCEPT ![c] = {}] /\ UNCHANGED rows
  /\ Leave(c, "idle")
  /\ UNCHANGED <<archived, coldKey, snaps, acked, archVars, old>>

(***************************************************************************)
(* ColdStorageArchiver.archiveOnce.                                        *)
(***************************************************************************)
\* partitionByMonth: groups are archived in the order their months were seen,
\* and the object of a group is named for its first and its last event.
NextGroup(vs) == {v \in vs : MonthOf(v) = MonthOf(Min(vs))}
KeyOf(group) == <<Min(group), Max(group)>>

StartPass(a) ==
  /\ todo[a] = {}
  /\ OlderThan(old, ArchiveBatch) # {}
  /\ todo' = [todo EXCEPT ![a] = OlderThan(old, ArchiveBatch)]
  /\ UNCHANGED <<rows, tentative, archived, coldKey, snaps, callVars, putting, objects, old, faults>>

\* The mutant: the upload is started and not awaited.
PutObjectUnawaited(a) ==
  /\ todo[a] # {} /\ ~putting[a]
  /\ putting' = [putting EXCEPT ![a] = TRUE]
  /\ \/ UNCHANGED objects
     \/ LET group == NextGroup(todo[a])
            key == KeyOf(group)
        IN objects' = [k \in DOMAIN objects \cup {key} |-> IF k = key THEN group ELSE objects[k]]
  /\ UNCHANGED <<rows, tentative, archived, coldKey, snaps, callVars, todo, old, faults>>

PutObject(a) ==
  /\ todo[a] # {} /\ ~putting[a]
  /\ LET group == NextGroup(todo[a])
         key == KeyOf(group)
     IN objects' = [k \in DOMAIN objects \cup {key} |-> IF k = key THEN group ELSE objects[k]]
  /\ putting' = [putting EXCEPT ![a] = TRUE]
  /\ UNCHANGED <<rows, tentative, archived, coldKey, snaps, callVars, todo, old, faults>>

MarkGroup(a) ==
  /\ putting[a]
  /\ MarkArchived(NextGroup(todo[a]), KeyOf(NextGroup(todo[a])))
  /\ todo' = [todo EXCEPT ![a] = @ \ NextGroup(@)]
  /\ putting' = [putting EXCEPT ![a] = FALSE]
  /\ UNCHANGED <<rows, tentative, snaps, callVars, objects, old, faults>>

\* The mutant: the failed pass does not reset what it was doing.
PassFailsMidway(a) ==
  /\ todo[a] # {}
  /\ Fault
  /\ todo' = [todo EXCEPT ![a] = {}]
  /\ UNCHANGED <<rows, tentative, archived, coldKey, snaps, callVars, putting, objects, old>>

\* An upload or an update fails: the pass throws; the next one starts over.
PassFails(a) ==
  /\ todo[a] # {}
  /\ Fault
  /\ todo' = [todo EXCEPT ![a] = {}]
  /\ putting' = [putting EXCEPT ![a] = FALSE]
  /\ UNCHANGED <<rows, tentative, archived, coldKey, snaps, callVars, objects, old>>

(***************************************************************************)
(* Time and restarts.                                                      *)
(***************************************************************************)
Age ==
  /\ \E v \in Versions : v > old
  /\ old' = old + 1
  /\ UNCHANGED <<rows, tentative, archived, coldKey, snaps, callVars, archVars, faults>>

Restart ==
  /\ Fault
  /\ tentative' = [c \in Callers |-> {}]
  /\ pc' = [c \in Callers |-> "idle"]
  /\ loaded' = [c \in Callers |-> Nothing]
  /\ acked' = [c \in Callers |-> 0]
  /\ size' = [c \in Callers |-> 0]
  /\ todo' = [a \in Passes |-> {}]
  /\ putting' = [a \in Passes |-> FALSE]
  /\ UNCHANGED <<rows, archived, coldKey, snaps, objects, old>>

Call(c) ==
  \/ LoadSnapshot(c) \/ Replay(c) \/ AppendNothing(c) \/ RefuseOversized(c) \/ CheckVersion(c) \/ Insert(c)
  \/ Commit(c) \/ AppendFails(c) \/ FoldForSnapshot(c) \/ SaveFolded(c) \/ SnapshotFails(c)

Archive(a) == StartPass(a) \/ PutObject(a) \/ MarkGroup(a) \/ PassFails(a)

Next == Age \/ Restart \/ (\E c \in Callers : Call(c)) \/ (\E a \in Passes : Archive(a))

Spec == Init /\ [][Next]_vars

(***************************************************************************)
(* Properties.                                                             *)
(***************************************************************************)
TypeOK ==
  /\ rows \in SUBSET Event
  /\ tentative \in [Callers -> SUBSET Event]
  /\ pc \in [Callers -> {"idle", "replay", "ready", "insert", "commit", "fold", "save"}]
  /\ \A c \in Callers : loaded[c].v \in Nat
  /\ size \in [Callers -> 0..MaxBatch]
  /\ acked \in [Callers -> Nat]
  /\ \A a \in Passes : putting[a] => todo[a] # {}

\* persistence.ts:55-66: no version is taken twice and none is left out,
\* whichever callers race for it and whichever of them fail.
LogIsDense ==
  /\ \A r, s \in rows : r.v = s.v => r = s
  /\ \A r \in rows : \A v \in 1..(r.v - 1) : \E s \in rows : s.v = v

\* snapshotter.ts:112-163: a state is made of the versions up to the one it
\* claims, in order and once each; it may miss archived ones, and no other.
FoldOf(x) ==
  /\ \A i, j \in 1..Len(x.state) : i < j => x.state[i] < x.state[j]
  /\ \A i \in 1..Len(x.state) : x.state[i] \in 1..x.v
  /\ \A v \in 1..x.v : v \in archived \/ \E i \in 1..Len(x.state) : x.state[i] = v
FoldsAreFaithful ==
  /\ \A s \in snaps : FoldOf(s)
  /\ \A c \in Callers : pc[c] \in {"ready", "insert", "save"} => FoldOf(loaded[c])

\* cold-storage.ts:70-80: when a row's payload has been cleared, the object
\* its key names holds the event.
ArchivedIsStored ==
  \A v \in archived : coldKey[v] \in DOMAIN objects /\ v \in objects[coldKey[v]]

\* cold-storage.ts:57-86: overlapping and failing passes leave nothing half
\* done: what a pass has in hand, and what it has archived, is accounted for.
ArchivalIsSound == TypeOK /\ ArchivedIsStored

\* The stream is a compare-and-append log.
LogOf == [v \in 1..Cardinality(Versions) |-> (CHOOSE r \in rows : r.v = v).by]
Log == INSTANCE EventLog WITH log <- LogOf, expected <- [c \in Callers |-> Expected(c)]
ImplementsLog == Log!Spec
=============================================================================
