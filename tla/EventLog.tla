------------------------------ MODULE EventLog ------------------------------
(***************************************************************************)
(* What an event store promises its callers: one log that only grows at    *)
(* the end, by a whole batch of one caller, and only when that caller      *)
(* expected the log to end where it does (compare-and-append).             *)
(***************************************************************************)
EXTENDS Naturals, Sequences

CONSTANTS Callers, MaxBatch
VARIABLES log,        \* who wrote each event, in order
          expected,   \* the version each caller expects
          acked       \* the version its last append returned, 0 when none
vars == <<log, expected, acked>>

Init == log = <<>> /\ expected = [c \in Callers |-> 0] /\ acked = [c \in Callers |-> 0]

\* A caller starts over from whatever version it has loaded.
Expect(c) ==
  /\ \E v \in 0..Len(log) : expected' = [expected EXCEPT ![c] = v]
  /\ acked' \in {acked, [acked EXCEPT ![c] = 0]}
  /\ UNCHANGED log

\* The batch is appended; the caller may fail to hear of it.  Either way it
\* expects nothing more until it loads the stream again.
Append_(c) ==
  /\ expected[c] = Len(log)
  /\ \E n \in 1..MaxBatch :
       /\ log' = log \o [i \in 1..n |-> c]
       /\ acked' \in {acked, [acked EXCEPT ![c] = Len(log) + n]}
  /\ expected' = [expected EXCEPT ![c] = 0]

\* The process restarts and forgets.
Forget ==
  /\ acked' = [c \in Callers |-> 0]
  /\ expected' = [c \in Callers |-> 0]
  /\ UNCHANGED log

Next == Forget \/ \E c \in Callers : Expect(c) \/ Append_(c)
Spec == Init /\ [][Next]_vars
=============================================================================
