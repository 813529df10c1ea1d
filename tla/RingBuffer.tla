----------------------------- MODULE RingBuffer -----------------------------
(***************************************************************************)
(* The bounded buffer of websocket/ring-buffer.ts: an array of a fixed     *)
(* capacity, the index of its oldest entry and the number of entries.      *)
(* Positions are those of the array, from 0.                               *)
(***************************************************************************)
EXTENDS Naturals, Sequences

CONSTANTS Capacity, NoEntry

ASSUME CapacityAssumption == Capacity \in Nat \ {0}

VARIABLES items, head, size

ringVars == <<items, head, size>>

RingInit ==
  /\ items = [k \in 0..Capacity - 1 |-> NoEntry]
  /\ head = 0
  /\ size = 0

\* Mutant: the head stays where it is when the buffer is full.
PushKeepsHead(entry) ==
  /\ items' = [items EXCEPT ![(head + size) % Capacity] = entry]
  /\ size' = IF size < Capacity THEN size + 1 ELSE size
  /\ UNCHANGED head

\* A full buffer overwrites its oldest entry, and moves on.
Push(entry) ==
  /\ items' = [items EXCEPT ![(head + size) % Capacity] = entry]
  /\ IF size < Capacity
     THEN size' = size + 1 /\ UNCHANGED head
     ELSE head' = (head + 1) % Capacity /\ UNCHANGED size

\* The iterator, and at(): oldest to newest.
Entries == [k \in 1..size |-> items[(head + k - 1) % Capacity]]
=============================================================================
