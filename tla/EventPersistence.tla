-------------------------- MODULE EventPersistence --------------------------
(***************************************************************************)
(* The tables behind one event stream (src/event-store/persistence.ts):    *)
(* the committed events, the rows that open transactions have inserted,    *)
(* the archival columns and the snapshots.  PostgreSQL runs READ COMMITTED:*)
(* a statement sees what is committed when it starts, and an insert waits  *)
(* for the open transaction that holds a conflicting unique key.  A        *)
(* folded state is the sequence of the versions folded into it.            *)
(***************************************************************************)
EXTENDS Integers, Sequences, FiniteSets, SequencesExt

CONSTANTS Callers,       \* processes that load and append to the stream
          MaxBatch       \* bound: events in one append

ASSUME BatchAssumption == MaxBatch \in Nat

VARIABLES rows,          \* committed events: which caller wrote which version
          tentative,     \* rows a caller's open transaction has inserted
          archived,      \* versions whose archived_at is set (and data cleared)
          coldKey,       \* cold_storage_key of the archived versions
          snaps          \* snapshots: the version covered and the state saved

Event == [v : Nat \ {0}, by : Callers]
NoKey == <<>>

TablesInit ==
  /\ rows = {}
  /\ tentative = [c \in Callers |-> {}]
  /\ archived = {}
  /\ coldKey = <<>>
  /\ snaps = {}

Versions == {r.v : r \in rows}

\* MAX(stream_version), 0 for an empty stream.
IsHead(v) == v \in Versions \cup {0} /\ \A w \in Versions : w =< v

\* ORDER BY: how many of some versions are no later than one of them, the
\* first `limit` of them, and all of them as a sequence.
Rank(vs, v) == Cardinality({w \in vs : w =< v})
Oldest(vs, limit) == {v \in vs : Rank(vs, v) =< limit}
InOrder(vs) == [i \in 1..Cardinality(vs) |-> CHOOSE v \in vs : Rank(vs, v) = i]

\* The versions a read returns: not archived, ascending, the first `limit`.
StreamPage(after, limit) == InOrder(Oldest({v \in Versions \ archived : v > after}, limit))

\* The mutant: versions are assigned one too far.
BatchOfSkips(c, expected, n) == {[v |-> expected + i + 1, by |-> c] : i \in 1..n}

\* One multi-row INSERT at expected + 1, ..., expected + n.
BatchOf(c, expected, n) == {[v |-> expected + i, by |-> c] : i \in 1..n}

Blocked(c, batch) ==
  \E d \in Callers \ {c} : \E r \in tentative[d], s \in batch : r.v = s.v

\* The mutant: no unique constraint on the stream's versions.
ClashesNever(batch) == FALSE

Clashes(batch) == \E r \in rows, s \in batch : r.v = s.v

InsertBatch(c, batch) == tentative' = [tentative EXCEPT ![c] = batch]

CommitBatch(c) ==
  /\ rows' = rows \cup tentative[c]
  /\ tentative' = [tentative EXCEPT ![c] = {}]

SaveSnapshot(version, state) ==
  snaps' = {s \in snaps : s.v # version} \cup {[v |-> version, state |-> state]}

LatestSnapshot ==
  IF snaps = {} THEN [v |-> 0, state |-> <<>>]
  ELSE CHOOSE s \in snaps : \A t \in snaps : t.v =< s.v

\* Versions up to `old` are past the cutoff; the oldest `limit` are read.  The
\* rows of one INSERT have the same created_at, and come in version order.
OlderThan(old, limit) == Oldest({v \in Versions \ archived : v =< old}, limit)

MarkArchived(group, key) ==
  /\ archived' = archived \cup group
  /\ coldKey' = [v \in DOMAIN coldKey \cup group |-> IF v \in group THEN key ELSE coldKey[v]]
=============================================================================
