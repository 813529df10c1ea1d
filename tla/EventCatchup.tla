----------------------------- MODULE EventCatchup -----------------------------
(* The ledger catch-up worker: src/src/blockchain/event_catchup.ts with the      *)
(* inserts of event_processor.ts.  Ledgers come from Horizon, whose answer for   *)
(* each is a ledger, nothing yet, or an error; live ingestion adds the events of *)
(* a ledger at any moment.  The events that are read of a ledger are inserted by *)
(* one statement that skips those already there.  Numbers of ledgers come out of *)
(* the database as texts: its BIGINT columns are converted nowhere.  The worker  *)
(* may die anywhere, or meet an error that ends its cycle, and starts again.     *)
EXTENDS Integers, Sequences, FiniteSets
CONSTANTS LastLedger,
          SetHash,         \* ledger -> its transaction set hash
          Eventful,        \* ledgers that have events
          Radix,           \* of the texts of their numbers (10)
          RetryLimit,      \* failures that escalate a gap (10)
          MaxGapRows,      \* bound: rows of ledger_gaps
          MaxFailures,     \* bound: failed fills
          MaxCuts          \* bound: cycles cut short
ASSUME CatchupAssumption == /\ LastLedger \in Nat /\ RetryLimit \in Nat /\ Radix \in Nat \ {0, 1}
                            /\ Eventful \subseteq 1 .. LastLedger
VARIABLES ledgerEvents,    \* ledgers with events in ledger_events
          gapRows,         \* ledger_gaps, by number: start, end, status, retry
          gapAlerts,       \* row -> its alerts
          worker,          \* pc, gaps without a row yet and gaps still to fill,
                           \* the row, ledger and hash at hand
          unread,          \* ledgers walked without getting all their events
          failures, cuts

catchupVars == <<ledgerEvents, gapRows, gapAlerts, worker, unread, failures, cuts>>
Ledgers == 1 .. LastLedger
NoHash == "none"
Idle == [pc |-> "idle", found |-> {}, todo |-> {}, row |-> 0, seq |-> 0, hash |-> NoHash]

CatchupInit ==
    /\ ledgerEvents \in {s \in SUBSET Eventful : 1 \in s}
    /\ gapRows = <<>> /\ gapAlerts = <<>> /\ worker = Idle
    /\ unread = {} /\ failures = 0 /\ cuts = 0

(* What the worker does with the texts: it compares the two ends of a range, by  *)
(* their first digits first, and appends a 1 to the number of the last ledger.   *)
Text[n \in Nat] == IF n < Radix THEN <<n>> ELSE Append(Text[n \div Radix], n % Radix)
TextLeq(s, t) ==
    \A i \in DOMAIN s : (\A j \in 1 .. i - 1 : j \in DOMAIN t /\ s[j] = t[j]) => i \in DOMAIN t /\ s[i] <= t[i]
ComparesInOrder(range) == TextLeq(Text[range.start], Text[range.end])
OneAppended(n) == n * Radix + 1

(* Ledgers the gap query counts as present: those with events and both ends of   *)
(* every filled gap, whether or not those ends have events.                      *)
Known(events, rows) == events \cup UNION {{r.start, r.end} : r \in {rows[i] : i \in {j \in DOMAIN rows : rows[j].status = "filled"}}}
PairsWide(known) == {p \in known \X known : p[2] - p[1] > 2 /\ ~\E k \in known : p[1] < k /\ k < p[2]}  \* mutant
Pairs(known) == {p \in known \X known : p[2] - p[1] > 1 /\ ~\E k \in known : p[1] < k /\ k < p[2]}
Gaps(known) == {[start |-> p[1] + 1, end |-> p[2] - 1] : p \in Pairs(known)}
Earliest(gap, gaps) == gap \in gaps /\ \A g \in gaps : gap.start <= g.start

Same(row, gap) == row.start = gap.start /\ row.end = gap.end
IsOpen(row) == row.status \in {"discovered", "filling"}
NewRow(gap) == [start |-> gap.start, end |-> gap.end, status |-> "discovered", retry |-> 0]

(* One query finds the gaps.  Then each that has no open row gets a new one.     *)
IdentifyGaps ==
    LET gaps == Gaps(Known(ledgerEvents, gapRows)) IN
    /\ worker.pc = "idle" /\ gaps # {}
    /\ worker' = [worker EXCEPT !.pc = "record", !.found = gaps, !.todo = gaps]
    /\ UNCHANGED <<ledgerEvents, gapRows, gapAlerts, unread, failures, cuts>>

InsertRow(gap) ==
    /\ Len(gapRows) < MaxGapRows
    /\ gapRows' = Append(gapRows, NewRow(gap)) /\ gapAlerts' = Append(gapAlerts, 0)
RecordGapAlways(gap) ==                                         \* mutant
    /\ worker.pc = "record" /\ Earliest(gap, worker.found) /\ InsertRow(gap)
    /\ worker' = [worker EXCEPT !.found = @ \ {gap}, !.pc = IF worker.found = {gap} THEN "pick" ELSE @]
    /\ UNCHANGED <<ledgerEvents, unread, failures, cuts>>
RecordGap(gap) ==
    /\ worker.pc = "record" /\ Earliest(gap, worker.found)
    /\ IF \E i \in DOMAIN gapRows : Same(gapRows[i], gap) /\ IsOpen(gapRows[i])
       THEN UNCHANGED <<gapRows, gapAlerts>>
       ELSE InsertRow(gap)
    /\ worker' = [worker EXCEPT !.found = @ \ {gap}, !.pc = IF worker.found = {gap} THEN "pick" ELSE @]
    /\ UNCHANGED <<ledgerEvents, unread, failures, cuts>>

(* Any row of the range will do: the query has no status and no order.           *)
RowsOfRange(gap) == {i \in DOMAIN gapRows : Same(gapRows[i], gap)}
GetGapId(gap, i) ==
    /\ worker.pc = "pick" /\ Earliest(gap, worker.todo) /\ i \in RowsOfRange(gap)
    /\ gapRows' = [gapRows EXCEPT ![i].status = "filling"]
    /\ worker' = [worker EXCEPT !.pc = "hash", !.todo = @ \ {gap}, !.row = i, !.seq = gap.start]
    /\ UNCHANGED <<ledgerEvents, gapAlerts, unread, failures, cuts>>

(* rangeEnd + 1 joins two texts: "4" + 1 is ledger 41.                           *)
KnownHash(seq) == IF seq \in ledgerEvents THEN SetHash[seq] ELSE NoHash
GetKnownHash ==
    /\ worker.pc = "hash"
    /\ worker' = [worker EXCEPT !.pc = "fetch", !.hash = KnownHash(OneAppended(gapRows[worker.row].end))]
    /\ UNCHANGED <<ledgerEvents, gapRows, gapAlerts, unread, failures, cuts>>

(* The loop's test: of two texts the first time, then of a number and a text.    *)
Further(row) == IF worker.seq = row.start THEN ComparesInOrder(row) ELSE worker.seq <= row.end

(* Horizon, after the bridge's retries, has the ledger, does not have it yet     *)
(* (404), or fails.                                                              *)
GetLedger(answer) ==
    /\ worker.pc = "fetch" /\ Further(gapRows[worker.row])
    /\ worker' = [worker EXCEPT !.pc = answer]
    /\ UNCHANGED <<ledgerEvents, gapRows, gapAlerts, unread, failures, cuts>>

(* The ledger's effects never fail: an error reads as none, and only the first   *)
(* page is asked for.                                                            *)
GetLedgerEffects(seq) ==
    LET all == {seq} \cap Eventful
    IN  {[got |-> all, missed |-> {}], [got |-> all, missed |-> all], [got |-> {}, missed |-> all]}

Advance == worker' = [worker EXCEPT !.pc = "fetch", !.seq = @ + 1]
SkipLedger ==
    /\ worker.pc = "nothing" /\ Advance
    /\ unread' = unread \cup ({worker.seq} \cap Eventful)
    /\ UNCHANGED <<ledgerEvents, gapRows, gapAlerts, failures, cuts>>

(* The one known hash is asked of every ledger of the gap.                       *)
HashAccepted(seq) == worker.hash \in {NoHash, SetHash[seq]}
InsertEvents(events) == ledgerEvents' = ledgerEvents \cup events
InsertLedger ==
    /\ worker.pc = "ledger" /\ HashAccepted(worker.seq) /\ Advance
    /\ \E effects \in GetLedgerEffects(worker.seq) :
          /\ InsertEvents(effects.got)
          /\ unread' = unread \cup effects.missed
    /\ UNCHANGED <<gapRows, gapAlerts, failures, cuts>>

NextGap == worker' = IF worker.todo = {} THEN Idle ELSE [Idle EXCEPT !.pc = "pick", !.todo = worker.todo]
MarkFilledEarly ==                                              \* mutant
    /\ worker.pc = "fetch" /\ (Further(gapRows[worker.row]) => worker.seq = gapRows[worker.row].end)
    /\ gapRows' = [gapRows EXCEPT ![worker.row].status = "filled"]
    /\ NextGap /\ UNCHANGED <<ledgerEvents, gapAlerts, unread, failures, cuts>>
MarkFilled ==
    /\ worker.pc = "fetch" /\ ~Further(gapRows[worker.row])
    /\ gapRows' = [gapRows EXCEPT ![worker.row].status = "filled"]
    /\ NextGap /\ UNCHANGED <<ledgerEvents, gapAlerts, unread, failures, cuts>>

(* A mismatch, an error of Horizon's or of a statement ends the attempt: the row *)
(* counts it, then an alert is recorded.                                         *)
FillFails ==
    /\ worker.pc \in {"hash", "fetch", "ledger", "error"} /\ failures < MaxFailures
    /\ failures' = failures + 1
    /\ worker' = [worker EXCEPT !.pc = "failed"]
    /\ UNCHANGED <<ledgerEvents, gapRows, gapAlerts, unread, cuts>>
CountRetry ==
    gapRows' = [gapRows EXCEPT ![worker.row].retry = @ + 1,
                  ![worker.row].status = IF gapRows[worker.row].retry >= RetryLimit - 1 THEN "escalated" ELSE "discovered"]
CountFailureSilently ==                                         \* mutant
    /\ worker.pc = "failed" /\ CountRetry
    /\ NextGap /\ UNCHANGED <<ledgerEvents, gapAlerts, unread, failures, cuts>>
CountFailure ==
    /\ worker.pc = "failed" /\ CountRetry
    /\ worker' = [worker EXCEPT !.pc = "alert"]
    /\ UNCHANGED <<ledgerEvents, gapAlerts, unread, failures, cuts>>
InsertAlert ==
    /\ worker.pc = "alert"
    /\ gapAlerts' = [gapAlerts EXCEPT ![worker.row] = @ + 1]
    /\ NextGap /\ UNCHANGED <<ledgerEvents, gapRows, unread, failures, cuts>>

(* The worker dies; or a statement outside the try fails, done or not, and the   *)
(* cycle is over: one that finds or records gaps, picks a row, counts a failure  *)
(* or inserts an alert.                                                          *)
CycleEnds ==
    /\ worker.pc # "idle" /\ cuts < MaxCuts
    /\ cuts' = cuts + 1 /\ worker' = Idle
    /\ UNCHANGED <<ledgerEvents, gapRows, gapAlerts, unread, failures>>

(* Live ingestion; external.                                                     *)
IngestLedger(l) ==
    /\ l \in Eventful \ ledgerEvents /\ ledgerEvents' = ledgerEvents \cup {l}
    /\ UNCHANGED <<gapRows, gapAlerts, worker, unread, failures, cuts>>

CatchupNext ==
    \/ IdentifyGaps \/ GetKnownHash \/ SkipLedger \/ InsertLedger \/ MarkFilled
    \/ FillFails \/ CountFailure \/ InsertAlert \/ CycleEnds
    \/ \E answer \in {"ledger", "nothing", "error"} : GetLedger(answer)
    \/ \E gap \in worker.found : RecordGap(gap)
    \/ \E gap \in worker.todo : \E i \in DOMAIN gapRows : GetGapId(gap, i)
    \/ \E l \in Ledgers : IngestLedger(l)
CatchupSpec == CatchupInit /\ [][CatchupNext]_catchupVars

-------------------------------------------------------------------------------
CatchupTypeOK ==
    /\ ledgerEvents \subseteq Eventful /\ unread \subseteq Ledgers
    /\ \A i \in DOMAIN gapRows :
         /\ gapRows[i].start \in Ledgers /\ gapRows[i].end \in gapRows[i].start .. LastLedger
         /\ gapRows[i].status \in {"discovered", "filling", "filled", "escalated"}
    /\ DOMAIN gapAlerts = DOMAIN gapRows /\ worker.row \in 0 .. Len(gapRows)

(* The gaps the query finds hold exactly the ledgers between the first and the   *)
(* last known one that are not known, each once (event_catchup.ts:96-114).       *)
GapsAreHoles ==
    LET known == Known(ledgerEvents, gapRows)
        hole(l) == l \notin known /\ (\E k \in known : k < l) /\ (\E k \in known : k > l)
    IN \A l \in Ledgers : Cardinality({g \in Gaps(known) : l \in g.start .. g.end}) = IF hole(l) THEN 1 ELSE 0

(* A ledger of a filled gap has its events, but for those that Horizon did not   *)
(* have or list when the gap was walked; an error elsewhere or a cycle cut short *)
(* never leaves a gap filled that was not walked to its end.  Except that a gap  *)
(* whose ends do not compare as texts is never walked                            *)
(* (event_catchup.ts:147-188, soroban_bridge.ts:69-86).                          *)
FilledIsComplete ==
    \A i \in DOMAIN gapRows : gapRows[i].status = "filled" /\ ComparesInOrder(gapRows[i]) =>
        (gapRows[i].start .. gapRows[i].end) \cap Eventful \subseteq ledgerEvents \cup unread

(* An escalated gap is still a gap: the next cycle gives it a new row, and any   *)
(* row of the range may then be walked again.  Each row beyond the first takes   *)
(* another that escalated (event_catchup.ts:122-133, 147-154, 189-196).          *)
RowsFollowEscalations ==
    \A i \in DOMAIN gapRows :
        Cardinality({j \in DOMAIN gapRows : Same(gapRows[j], gapRows[i])})
          <= 1 + Cardinality({j \in DOMAIN gapRows : Same(gapRows[j], gapRows[i]) /\ gapRows[j].retry >= RetryLimit})

(* Every failed attempt that is counted leaves an alert, unless the cycle was    *)
(* cut short in between (event_catchup.ts:189-205).                              *)
FailuresAreAlerted ==
    \A i \in DOMAIN gapRows :
        gapRows[i].retry <= gapAlerts[i] + cuts + (IF worker.pc = "alert" /\ worker.row = i THEN 1 ELSE 0)

(* Gaps, their rows, their ledgers and their alerts are accounted for through    *)
(* failures, escalations and cut cycles (event_catchup.ts:95-205).               *)
GapsAccounted == GapsAreHoles /\ FilledIsComplete /\ RowsFollowEscalations /\ FailuresAreAlerted
===============================================================================
