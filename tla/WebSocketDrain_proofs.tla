------------------------ MODULE WebSocketDrain_proofs -----------------------
(***************************************************************************)
(* What holds of the telemetry connections for any number of devices,      *)
(* handles and frames, any ratio and any capacity of the lifecycle log:    *)
(* controller, manager and channels agree, the log is faithful, and no     *)
(* scan starts a stampede.                                                 *)
(***************************************************************************)
EXTENDS WebSocketDrain, FiniteSetTheorems, SequenceTheorems, WellFoundedInduction, TLAPS

(***************************************************************************)
(* The inductive invariant.                                                *)
(***************************************************************************)
Actives == {i \in Ids : states[i] = "Active"}

\* The entries: the counter is right, and counts something finite.
EntriesOK ==
  /\ IsFiniteSet(Actives) /\ IsFiniteSet(Draining)
  /\ ActiveCounted

\* The registry holds an id once, and each entry has the handle it is about.
RegistryOK ==
  /\ \A j, k \in DOMAIN connections :
       IdOf[connections[j]] = IdOf[connections[k]] => j = k
  /\ \A i \in Ids : states[i] # "none" => holder[i] # NoHandle
  /\ \A i \in Ids : holder[i] \in Handles => IdOf[holder[i]] = i
  /\ RegistriesAgree
  /\ OneTimerPerDrain

\* What has become of a socket goes with the state of its entry.
SocketsOK ==
  /\ \A h \in Handles :
       /\ socket[h] = "new" => ~Holds(h) /\ queue[h] = 0
       /\ Holds(h) /\ states[IdOf[h]] \in {"Active", "Draining"} => socket[h] = "open"
       /\ Holds(h) /\ states[IdOf[h]] = "Closed" => socket[h] = "closed"
  /\ FramesCounted

\* Where the ring keeps what is k places behind its first position.
Slot(k) == k % Capacity

\* The ring holds the newest entries from its head on.
RingOK ==
  /\ items = [k \in 0..Capacity - 1 |-> items[k]]
  /\ head \in 0..Capacity - 1
  /\ size = IF Len(recorded) <= Capacity THEN Len(recorded) ELSE Capacity
  /\ \A k \in 1..size :
       items[Slot(head + k - 1)] = recorded[Len(recorded) - size + k]

\* A socket that is closed is recorded as closed at one place, another nowhere.
ClosesOK ==
  /\ \A h \in Handles :
       socket[h] = "closed" <=> \E k \in DOMAIN recorded : recorded[k] = <<h, "closed">>
  /\ \A h \in Handles : \A j, k \in DOMAIN recorded :
       recorded[j] = <<h, "closed">> /\ recorded[k] = <<h, "closed">> => j = k

DrainInv == TypeOK /\ EntriesOK /\ RegistryOK /\ SocketsOK /\ RingOK /\ ClosesOK

(***************************************************************************)
(* Sequences and finite sets.                                              *)
(***************************************************************************)
\* Of what a sequence keeps when the element at one position is removed.
LEMMA Removal ==
  ASSUME NEW S, NEW s \in Seq(S), NEW k \in 1..Len(s)
  PROVE  /\ RemoveAt(s, k) \in Seq(S)
         /\ Len(RemoveAt(s, k)) = Len(s) - 1
         /\ \A j \in 1..Len(s) - 1 :
              RemoveAt(s, k)[j] = IF j < k THEN s[j] ELSE s[j + 1]
<1> DEFINE a == SubSeq(s, 1, k - 1)
           b == SubSeq(s, k + 1, Len(s))
<1>1. Len(s) \in Nat /\ k \in Int BY LenProperties
<1>2. \A j \in 1..Len(s) : s[j] \in S BY ElementOfSeq
<1>3. /\ a \in Seq(S) /\ Len(a) = k - 1
      /\ \A j \in 1..k - 1 : a[j] = s[j]
  <2>1. \A j \in 1..k - 1 : s[j] \in S BY <1>1, <1>2
  <2>2. /\ a \in Seq(S)
        /\ Len(a) = IF 1 <= k - 1 THEN (k - 1) - 1 + 1 ELSE 0
        /\ \A j \in 1..(k - 1) - 1 + 1 : a[j] = s[1 + j - 1]
    BY <1>1, <2>1, SubSeqProperties
  <2> QED BY <1>1, <2>2
<1>4. /\ b \in Seq(S) /\ Len(b) = Len(s) - k
      /\ \A j \in 1..Len(s) - k : b[j] = s[k + j]
  <2>1. \A j \in k + 1..Len(s) : s[j] \in S BY <1>1, <1>2
  <2>2. /\ b \in Seq(S)
        /\ Len(b) = IF k + 1 <= Len(s) THEN Len(s) - (k + 1) + 1 ELSE 0
        /\ \A j \in 1..Len(s) - (k + 1) + 1 : b[j] = s[(k + 1) + j - 1]
    BY <1>1, <2>1, SubSeqProperties
  <2> QED BY <1>1, <2>2
<1> HIDE DEF a, b
<1>5. /\ a \o b \in Seq(S) /\ Len(a \o b) = Len(a) + Len(b)
      /\ \A j \in 1..Len(a) + Len(b) :
           (a \o b)[j] = IF j <= Len(a) THEN a[j] ELSE b[j - Len(a)]
  BY <1>3, <1>4, ConcatProperties
<1>6. RemoveAt(s, k) = a \o b BY DEF RemoveAt, a, b
<1>7. Len(a \o b) = Len(s) - 1 BY <1>1, <1>3, <1>4, <1>5
<1>8. ASSUME NEW j \in 1..Len(s) - 1
      PROVE  (a \o b)[j] = IF j < k THEN s[j] ELSE s[j + 1]
  <2>1. (a \o b)[j] = IF j <= k - 1 THEN a[j] ELSE b[j - (k - 1)] BY <1>1, <1>3, <1>4, <1>5
  <2>2. CASE j < k BY <1>1, <1>3, <2>1, <2>2
  <2>3. CASE ~(j < k)
    <3>1. j - (k - 1) \in 1..Len(s) - k BY <1>1, <2>3
    <3>2. b[j - (k - 1)] = s[k + (j - (k - 1))] BY <1>4, <3>1
    <3> QED BY <1>1, <2>1, <2>3, <3>2
  <2> QED BY <2>2, <2>3
<1> QED BY <1>5, <1>6, <1>7, <1>8

\* What deleting an id leaves of the registry.
LEMMA Deletion ==
  ASSUME TypeOK, NEW i \in Ids, Delete(i),
         \A j, k \in DOMAIN connections : IdOf[connections[j]] = IdOf[connections[k]] => j = k
  PROVE  /\ connections' \in Seq(Handles)
         /\ (\A j, k \in DOMAIN connections : IdOf[connections[j]] = IdOf[connections[k]] => j = k)'
         /\ Connected' = {c \in Connected : IdOf[c] # i}
<1>1. /\ connections \in Seq(Handles) /\ Len(connections) \in Nat
      /\ DOMAIN connections = 1..Len(connections)
  BY LenProperties DEF TypeOK
<1>2. CASE Registered(i) = {}
  <2>1. UNCHANGED connections BY <1>2 DEF Delete
  <2>2. \A c \in Connected : IdOf[c] # i BY <1>2 DEF Registered, Connected
  <2>3. Connected' = Connected BY <2>1 DEF Connected
  <2> QED BY <1>1, <2>1, <2>2, <2>3
<1>3. CASE Registered(i) # {}
  <2> DEFINE n == Len(connections)
  <2>1. PICK k \in Registered(i) : connections' = RemoveAt(connections, k)
    BY <1>3 DEF Delete
  <2>2. k \in 1..n /\ IdOf[connections[k]] = i BY <1>1, <2>1 DEF Registered
  <2>3. /\ connections' \in Seq(Handles) /\ Len(connections') = n - 1
        /\ \A j \in 1..n - 1 :
             connections'[j] = IF j < k THEN connections[j] ELSE connections[j + 1]
    BY <1>1, <2>1, <2>2, Removal
  <2>4. DOMAIN connections' = 1..n - 1 BY <2>3, LenProperties
  <2> DEFINE At(j) == IF j < k THEN j ELSE j + 1
  <2>5. \A j \in 1..n - 1 : At(j) \in 1..n /\ At(j) # k /\ connections'[j] = connections[At(j)]
    BY <1>1, <2>2, <2>3
  <2>6. \A j, l \in 1..n - 1 : At(j) = At(l) => j = l BY <1>1, <2>2
  <2>7. \A m \in 1..n : m # k => \E j \in 1..n - 1 : At(j) = m
    <3>1. SUFFICES ASSUME NEW m \in 1..n, m # k PROVE \E j \in 1..n - 1 : At(j) = m OBVIOUS
    <3>2. CASE m < k BY <1>1, <2>2, <3>2
    <3>3. CASE m > k
      <4>1. m - 1 \in 1..n - 1 /\ At(m - 1) = m BY <1>1, <2>2, <3>3
      <4> QED BY <4>1
    <3> QED BY <1>1, <2>2, <3>1, <3>2, <3>3
  <2> HIDE DEF At
  <2>8. ASSUME NEW j \in 1..n - 1, NEW l \in 1..n - 1,
               IdOf[connections'[j]] = IdOf[connections'[l]]
        PROVE  j = l
    <3>1. At(j) = At(l) BY <1>1, <2>5, <2>8
    <3> QED BY <2>6, <3>1
  <2>9. \A m \in 1..n : m # k => IdOf[connections[m]] # i BY <1>1, <2>2
  <2>10. Connected' = {c \in Connected : IdOf[c] # i}
    <3>1. Connected = {connections[m] : m \in 1..n} /\ Connected' = {connections'[j] : j \in 1..n - 1}
      BY <1>1, <2>4 DEF Connected
    <3>2. \A j \in 1..n - 1 : connections'[j] \in {c \in Connected : IdOf[c] # i}
      BY <2>5, <2>9, <3>1
    <3>3. \A m \in 1..n : IdOf[connections[m]] # i => connections[m] \in Connected'
      <4>1. SUFFICES ASSUME NEW m \in 1..n, IdOf[connections[m]] # i PROVE connections[m] \in Connected'
        OBVIOUS
      <4>2. PICK j \in 1..n - 1 : At(j) = m BY <2>2, <2>7, <4>1
      <4> QED BY <2>5, <3>1, <4>2
    <3> QED BY <3>1, <3>2, <3>3
  <2> QED BY <2>3, <2>4, <2>8, <2>10
<1> QED BY <1>2, <1>3

(***************************************************************************)
(* The lifecycle log.                                                      *)
(***************************************************************************)
\* Positions of the ring, within a turn of it.
LEMMA Wraps ==
  ASSUME NEW k \in Nat, k < 2 * Capacity
  PROVE  Slot(k) = IF k < Capacity THEN k ELSE k - Capacity
BY CapacityAssumption DEF Slot

\* When the head moves on, each position becomes the one before it, and the
\* last one is where the head was.
LEMMA Turning ==
  ASSUME NEW a \in 0..Capacity - 1
  PROVE  /\ Slot(a + 1) \in 0..Capacity - 1
         /\ \A k \in 1..Capacity :
              /\ Slot(Slot(a + 1) + k - 1) \in 0..Capacity - 1
              /\ k = Capacity => Slot(Slot(a + 1) + k - 1) = a
              /\ k # Capacity => /\ Slot(Slot(a + 1) + k - 1) = Slot(a + (k + 1) - 1)
                                 /\ Slot(Slot(a + 1) + k - 1) # a
<1>1. Capacity \in Nat \ {0} BY CapacityAssumption
<1>2. PICK b \in Nat : b = Slot(a + 1)
      /\ b = IF a + 1 < Capacity THEN a + 1 ELSE 0
  <2>1. a + 1 \in Nat /\ a + 1 < 2 * Capacity BY <1>1
  <2>2. Slot(a + 1) = IF a + 1 < Capacity THEN a + 1 ELSE a + 1 - Capacity BY <1>1, <2>1, Wraps
  <2> QED BY <1>1, <2>2
<1>3. b \in 0..Capacity - 1 BY <1>1, <1>2
<1>4. ASSUME NEW k \in 1..Capacity
      PROVE  /\ Slot(b + k - 1) \in 0..Capacity - 1
             /\ k = Capacity => Slot(b + k - 1) = a
             /\ k # Capacity => Slot(b + k - 1) = Slot(a + (k + 1) - 1) /\ Slot(b + k - 1) # a
  <2>1. b + k - 1 \in Nat /\ b + k - 1 < 2 * Capacity BY <1>1, <1>3
  <2>2. Slot(b + k - 1) = IF b + k - 1 < Capacity THEN b + k - 1 ELSE b + k - 1 - Capacity
    BY <1>1, <2>1, Wraps
  <2>3. CASE k = Capacity BY <1>1, <1>2, <2>2, <2>3
  <2>4. CASE k # Capacity
    <3>1. a + (k + 1) - 1 \in Nat /\ a + (k + 1) - 1 < 2 * Capacity BY <1>1, <2>4
    <3>2. Slot(a + (k + 1) - 1) = IF a + (k + 1) - 1 < Capacity THEN a + (k + 1) - 1
                                                               ELSE a + (k + 1) - 1 - Capacity
      BY <1>1, <3>1, Wraps
    <3> QED BY <1>1, <1>2, <2>2, <2>4, <3>2
  <2> QED BY <2>3, <2>4
<1> QED BY <1>2, <1>3, <1>4

\* ring-buffer.ts:32-46: an entry pushed comes last, and the ring still holds
\* the newest of what has been recorded.
LEMMA Pushing ==
  ASSUME TypeOK, RingOK, NEW h \in Handles, NEW what \in {"open", "closed"}, Record(h, what)
  PROVE  /\ RingOK'
         /\ recorded' \in Seq(Handles \X {"open", "closed"})
         /\ Len(recorded) \in Nat /\ Len(recorded') = Len(recorded) + 1
         /\ \A k \in 1..Len(recorded) : recorded'[k] = recorded[k]
         /\ recorded'[Len(recorded) + 1] = <<h, what>>
<1> DEFINE n == Len(recorded)
           e == <<h, what>>
           at == Slot(head + size)
<1>1. e \in Handles \X {"open", "closed"} OBVIOUS
<1>2. /\ recorded \in Seq(Handles \X {"open", "closed"}) /\ n \in Nat
      /\ recorded' = Append(recorded, e)
  BY LenProperties DEF TypeOK, Record
<1>3. /\ recorded' \in Seq(Handles \X {"open", "closed"}) /\ Len(recorded') = n + 1
      /\ \A k \in 1..n : recorded'[k] = recorded[k]
      /\ recorded'[n + 1] = e
  BY <1>1, <1>2, AppendProperties
<1>4. Push(e) BY DEF Record
<1> HIDE DEF e
<1>5. /\ Capacity \in Nat \ {0} /\ head \in 0..Capacity - 1 /\ size \in 0..Capacity
  <2>1. Capacity \in Nat \ {0} BY CapacityAssumption
  <2>2. size = IF n <= Capacity THEN n ELSE Capacity BY DEF RingOK
  <2>3. size \in 0..Capacity BY <1>2, <2>1, <2>2
  <2> QED BY <2>1, <2>2, <2>3 DEF RingOK
<1>6. size = IF n <= Capacity THEN n ELSE Capacity BY DEF RingOK
<1>7. /\ items = [k \in 0..Capacity - 1 |-> items[k]]
      /\ \A k \in 1..size : items[Slot(head + k - 1)] = recorded[n - size + k]
  BY DEF RingOK
<1>8. items' = [items EXCEPT ![at] = e] BY <1>4 DEF Push, Slot
<1>9. /\ at \in 0..Capacity - 1
      /\ at = IF head + size < Capacity THEN head + size ELSE head + size - Capacity
  <2>1. head + size \in Nat /\ head + size < 2 * Capacity BY <1>5
  <2>2. at = IF head + size < Capacity THEN head + size ELSE head + size - Capacity
    BY <1>5, <2>1, Wraps
  <2> QED BY <1>5, <2>1, <2>2
<1>10. /\ items' = [k \in 0..Capacity - 1 |-> items'[k]]
      /\ \A k \in 0..Capacity - 1 : items'[k] = IF k = at THEN e ELSE items[k]
  BY <1>5, <1>8, <1>9, <1>7
<1>11. RingOK'
  <2>1. CASE size < Capacity
    <3>1. size' = size + 1 /\ head' = head BY <1>4, <2>1 DEF Push
    <3>2. size = n /\ size' = IF Len(recorded') <= Capacity THEN Len(recorded') ELSE Capacity
      BY <1>2, <1>3, <1>5, <1>6, <2>1, <3>1
    <3>3. ASSUME NEW k \in 1..size'
          PROVE  items'[Slot(head' + k - 1)] = recorded'[Len(recorded') - size' + k]
      <4> DEFINE p == Slot(head + k - 1)
      <4>1. k \in 1..size + 1 BY <1>5, <3>1
      <4>2. Len(recorded') - size' + k = k BY <1>2, <1>3, <1>5, <3>1, <3>2, <4>1
      <4>3. p = IF head + k - 1 < Capacity THEN head + k - 1 ELSE head + k - 1 - Capacity
        <5>1. head + k - 1 \in Nat /\ head + k - 1 < 2 * Capacity BY <1>5, <2>1, <4>1
        <5> QED BY <1>5, <5>1, Wraps
      <4>4. at = IF head + size < Capacity THEN head + size ELSE head + size - Capacity
        BY <1>9
      <4>5. p \in 0..Capacity - 1 BY <1>5, <2>1, <4>1, <4>3
      <4> HIDE DEF p, at
      <4>6. p = at <=> k = size + 1 BY <1>5, <2>1, <4>1, <4>3, <4>4
      <4>7. items'[p] = recorded'[k]
        <5>1. CASE k = size + 1
          <6>1. items'[p] = e BY <1>9, <1>10, <4>6, <5>1 DEF at
          <6> QED BY <1>3, <3>2, <5>1, <6>1
        <5>2. CASE k # size + 1
          <6>1. k \in 1..size BY <1>5, <4>1, <5>2
          <6>2. items'[p] = items[p] BY <1>10, <4>5, <4>6, <5>2
          <6>3. items[p] = recorded[n - size + k] BY <1>7, <6>1 DEF p
          <6>4. n - size + k = k /\ k \in 1..n BY <1>2, <3>2, <6>1
          <6> QED BY <1>3, <6>2, <6>3, <6>4
        <5> QED BY <5>1, <5>2
      <4> QED BY <3>1, <4>2, <4>7 DEF p
    <3> QED BY <1>5, <1>10, <3>1, <3>2, <3>3 DEF RingOK
  <2>2. CASE ~(size < Capacity)
    <3>1. head' = Slot(head + 1) /\ size' = size BY <1>4, <2>2 DEF Push, Slot
    <3>2. size = Capacity /\ n >= Capacity BY <1>2, <1>5, <1>6, <2>2
    <3>3. Slot(head + 1) \in 0..Capacity - 1
          /\ \A k \in 1..Capacity :
               /\ Slot(Slot(head + 1) + k - 1) \in 0..Capacity - 1
               /\ k = Capacity => Slot(Slot(head + 1) + k - 1) = head
               /\ k # Capacity => /\ Slot(Slot(head + 1) + k - 1) = Slot(head + (k + 1) - 1)
                                  /\ Slot(Slot(head + 1) + k - 1) # head
      BY <1>5, Turning
    <3>4. at = head BY <1>5, <1>9, <3>2
    <3> DEFINE p(k) == Slot(head' + k - 1)
    <3>5. \A k \in 1..Capacity :
            /\ p(k) \in 0..Capacity - 1
            /\ k = Capacity => p(k) = head
            /\ k # Capacity => p(k) = Slot(head + (k + 1) - 1) /\ p(k) # head
      BY <3>1, <3>3
    <3> HIDE DEF p
    <3>6. ASSUME NEW k \in 1..size'
          PROVE  items'[p(k)] = recorded'[Len(recorded') - size' + k]
      <4>1. k \in 1..Capacity BY <3>1, <3>2
      <4>2. Len(recorded') - size' + k = n + 1 - Capacity + k
        BY <1>2, <1>3, <1>5, <3>1, <3>2, <4>1
      <4>3. CASE k = Capacity
        <5>1. items'[p(k)] = e BY <1>10, <3>4, <3>5, <4>1, <4>3
        <5>2. n + 1 - Capacity + k = n + 1 BY <1>2, <1>5, <4>3
        <5> QED BY <1>3, <4>2, <5>1, <5>2
      <4>4. CASE k # Capacity
        <5>1. k \in 1..Capacity - 1 BY <1>5, <4>1, <4>4
        <5>2. k + 1 \in 1..size /\ n - size + (k + 1) = n + 1 - Capacity + k
              /\ n + 1 - Capacity + k \in 1..n
          <6> HIDE DEF n
          <6> QED BY <1>2, <1>5, <3>2, <5>1
        <5>3. items'[p(k)] = items[p(k)] BY <1>10, <3>4, <3>5, <4>1, <4>4
        <5>4. items[p(k)] = recorded[n - size + (k + 1)] BY <1>7, <3>5, <4>1, <4>4, <5>2
        <5> QED BY <1>3, <4>2, <5>2, <5>3, <5>4
      <4> QED BY <4>3, <4>4
    <3>7. size' = IF Len(recorded') <= Capacity THEN Len(recorded') ELSE Capacity
      BY <1>2, <1>3, <1>5, <3>1, <3>2
    <3> QED BY <1>10, <3>1, <3>3, <3>6, <3>7 DEF RingOK, p
  <2> QED BY <2>1, <2>2
<1> QED BY <1>2, <1>3, <1>11 DEF e

\* ring-buffer.ts:53-65: the entries of the ring are the newest recorded.
LEMMA RingIsNewest ==
  ASSUME TypeOK, RingOK PROVE LogIsNewest
<1> DEFINE n == Len(recorded)
           E == Handles \X {"open", "closed"}
           newest == IF n <= Capacity THEN recorded ELSE SubSeq(recorded, n - Capacity + 1, n)
<1>1. /\ recorded \in Seq(E) /\ n \in Nat /\ \A k \in 1..n : recorded[k] \in E
      /\ Capacity \in Nat \ {0}
  BY LenProperties, ElementOfSeq, CapacityAssumption DEF TypeOK
<1>2. /\ size = IF n <= Capacity THEN n ELSE Capacity
      /\ \A k \in 1..size : items[Slot(head + k - 1)] = recorded[n - size + k]
  BY DEF RingOK
<1>3. size \in 0..n BY <1>1, <1>2
<1>4. \A k \in 1..size : n - size + k \in 1..n BY <1>1, <1>3
<1>5. Entries = [k \in 1..size |-> recorded[n - size + k]] BY <1>2 DEF Entries, Slot
<1>6. /\ newest \in Seq(E) /\ Len(newest) = size
      /\ \A k \in 1..size : newest[k] = recorded[n - size + k]
  <2>1. CASE n <= Capacity
    <3>1. newest = recorded /\ size = n BY <1>2, <2>1
    <3>2. \A k \in 1..size : n - size + k = k BY <1>1, <3>1
    <3> QED BY <1>1, <3>1, <3>2
  <2>2. CASE ~(n <= Capacity)
    <3>1. newest = SubSeq(recorded, n - Capacity + 1, n) /\ size = Capacity BY <1>2, <2>2
    <3>2. \A k \in n - Capacity + 1..n : recorded[k] \in E BY <1>1, <2>2
    <3>3. n - Capacity + 1 \in Int /\ n \in Int /\ n - Capacity + 1 <= n
          /\ n - (n - Capacity + 1) + 1 = Capacity
      BY <1>1
    <3>4. /\ SubSeq(recorded, n - Capacity + 1, n) \in Seq(E)
          /\ Len(SubSeq(recorded, n - Capacity + 1, n)) = Capacity
          /\ \A k \in 1..Capacity :
               SubSeq(recorded, n - Capacity + 1, n)[k] = recorded[(n - Capacity + 1) + k - 1]
      BY <3>2, <3>3, SubSeqProperties
    <3>5. \A k \in 1..size : (n - Capacity + 1) + k - 1 = n - size + k BY <1>1, <3>1
    <3> QED BY <3>1, <3>4, <3>5
  <2> QED BY <2>1, <2>2
<1> HIDE DEF newest
<1>7. newest = [k \in 1..size |-> newest[k]] BY <1>6, LenProperties
<1>8. newest = [k \in 1..size |-> recorded[n - size + k]] BY <1>6, <1>7
<1>9. newest = Entries BY <1>5, <1>8
<1> QED BY <1>9 DEF newest, LogIsNewest

(***************************************************************************)
(* Entries, and the counter of the Active ones.                            *)
(***************************************************************************)
\* What corresponds one to one to something finite is as large.
LEMMA SameSize ==
  ASSUME NEW S, NEW T, NEW f \in [S -> T], IsFiniteSet(S) \/ IsFiniteSet(T),
         \A x, y \in S : f[x] = f[y] => x = y,
         \A y \in T : \E x \in S : f[x] = y
  PROVE  IsFiniteSet(S) /\ IsFiniteSet(T) /\ Cardinality(S) = Cardinality(T)
<1>1. f \in Injection(S, T) BY DEF Injection, IsInjective
<1>2. f \in Surjection(S, T) BY DEF Surjection
<1>3. CASE IsFiniteSet(S)
  <2>1. ExistsBijection(S, T) BY <1>1, <1>2 DEF ExistsBijection, Bijection
  <2> QED BY <1>3, <2>1, FS_Bijection
<1>4. CASE IsFiniteSet(T) BY <1>1, <1>2, <1>4, FS_Injection
<1> QED BY <1>3, <1>4

\* Handles that hold their ids are as many as the ids.
LEMMA OneIdEach ==
  ASSUME NEW H \in SUBSET Handles, \A h \in H : Holds(h)
  PROVE  /\ \A g, h \in H : IdOf[g] = IdOf[h] => g = h
         /\ IsFiniteSet({IdOf[h] : h \in H}) =>
              IsFiniteSet(H) /\ Cardinality({IdOf[h] : h \in H}) = Cardinality(H)
<1> DEFINE D == {IdOf[h] : h \in H}
           f == [h \in H |-> IdOf[h]]
<1>1. \A g, h \in H : IdOf[g] = IdOf[h] => g = h BY DEF Holds
<1>2. f \in [H -> D] /\ \A h \in H : f[h] = IdOf[h] OBVIOUS
<1>3. \A y \in D : \E x \in H : f[x] = y BY <1>2
<1> HIDE DEF f
<1>4. \A x, y \in H : f[x] = f[y] => x = y BY <1>1, <1>2
<1>5. ASSUME IsFiniteSet(D) PROVE IsFiniteSet(H) /\ Cardinality(D) = Cardinality(H)
  <2> HIDE DEF D
  <2> QED BY <1>2, <1>3, <1>4, <1>5, SameSize
<1> QED BY <1>1, <1>5

\* drain-controller.ts:130-154: when connections begin to drain, the counter
\* follows, and the total of live connections stays what it was.
LEMMA Beginning ==
  ASSUME TypeOK, EntriesOK, NEW H \in SUBSET Handles, BeginDrain(H),
         \A h \in H : Holds(h) /\ states[IdOf[h]] = "Active"
  PROVE  /\ EntriesOK' /\ totalActive' \in Nat
         /\ IsFiniteSet(H) /\ Cardinality(H) \in Nat
         /\ Cardinality(Draining) \in Nat
         /\ Cardinality(Draining') = Cardinality(Draining) + Cardinality(H)
         /\ Total' = Total
<1> DEFINE D == {IdOf[h] : h \in H}
<1>1. /\ states' = [i \in Ids |-> IF i \in D THEN "Draining" ELSE states[i]]
      /\ totalActive' = totalActive - Cardinality(H)
  BY DEF BeginDrain
<1>2. /\ IsFiniteSet(Actives) /\ IsFiniteSet(Draining)
      /\ totalActive = Cardinality(Actives)
      /\ Cardinality(Actives) \in Nat /\ Cardinality(Draining) \in Nat
  BY FS_CardinalityType DEF EntriesOK, ActiveCounted, Actives
<1>3. D \in SUBSET Actives BY DrainAssumption DEF Actives
<1>4. IsFiniteSet(D) /\ Cardinality(D) <= Cardinality(Actives) BY <1>2, <1>3, FS_Subset
<1>5. Cardinality(D) \in Nat BY <1>4, FS_CardinalityType
<1>6. IsFiniteSet(H) /\ Cardinality(H) = Cardinality(D) BY <1>4, OneIdEach
<1> HIDE DEF D
<1>7. Actives' = Actives \ D BY <1>1, <1>3 DEF Actives
<1>8. Draining' = Draining \cup D BY <1>1, <1>3 DEF Draining, Actives
<1>9. Draining \cap D = {} /\ Actives \cap D = D BY <1>3 DEF Draining, Actives
<1>10. IsFiniteSet(Actives') /\ Cardinality(Actives') = Cardinality(Actives) - Cardinality(D)
  BY <1>2, <1>7, <1>9, FS_Difference
<1>11. IsFiniteSet(Draining') /\ Cardinality(Draining') = Cardinality(Draining) + Cardinality(D)
  <2>1. /\ IsFiniteSet(Draining \cup D)
        /\ Cardinality(Draining \cup D) =
             Cardinality(Draining) + Cardinality(D) - Cardinality(Draining \cap D)
    BY <1>2, <1>4, FS_Union, Zenon
  <2>2. Cardinality(Draining \cap D) = 0 BY <1>9, FS_EmptySet
  <2> QED BY <1>2, <1>5, <1>8, <2>1, <2>2
<1>12. totalActive' = Cardinality(Actives') BY <1>1, <1>2, <1>6, <1>10
<1>13. totalActive' \in Nat BY <1>2, <1>4, <1>5, <1>10, <1>12
<1>14. EntriesOK' BY <1>10, <1>11, <1>12 DEF EntriesOK, ActiveCounted, Actives
<1>15. Total' = Total BY <1>1, <1>2, <1>5, <1>6, <1>11 DEF Total
<1> QED BY <1>2, <1>5, <1>6, <1>11, <1>13, <1>14, <1>15

\* drain-controller.ts:210-258: closed or purged, an entry is no longer counted
\* where it was.
LEMMA Leaving ==
  ASSUME TypeOK, EntriesOK, NEW i \in Ids, NEW s \in {"none", "Closed"},
         states' = [states EXCEPT ![i] = s],
         totalActive' = IF states[i] = "Active" THEN totalActive - 1 ELSE totalActive
  PROVE  /\ EntriesOK' /\ totalActive' \in Nat
         /\ Cardinality(Draining) \in Nat /\ Cardinality(Draining') \in Nat
         /\ Cardinality(Draining') <= Cardinality(Draining)
<1>1. /\ IsFiniteSet(Actives) /\ IsFiniteSet(Draining)
      /\ totalActive = Cardinality(Actives)
      /\ Cardinality(Actives) \in Nat /\ Cardinality(Draining) \in Nat
  BY FS_CardinalityType DEF EntriesOK, ActiveCounted, Actives
<1>2. Actives' = Actives \ {i} /\ Draining' = Draining \ {i} BY DEF TypeOK, Actives, Draining
<1>3. i \in Actives <=> states[i] = "Active" BY DEF Actives
<1>4. /\ IsFiniteSet(Actives')
      /\ Cardinality(Actives') = IF i \in Actives THEN Cardinality(Actives) - 1 ELSE Cardinality(Actives)
  BY <1>1, <1>2, FS_RemoveElement
<1>5. IsFiniteSet(Draining') /\ Cardinality(Draining') <= Cardinality(Draining)
  BY <1>1, <1>2, FS_Subset
<1>6. Cardinality(Actives') \in Nat /\ Cardinality(Draining') \in Nat
  BY <1>4, <1>5, FS_CardinalityType
<1>7. totalActive' = Cardinality(Actives') BY <1>1, <1>3, <1>4
<1>8. EntriesOK' BY <1>4, <1>5, <1>7 DEF EntriesOK, ActiveCounted, Actives
<1> QED BY <1>1, <1>5, <1>6, <1>7, <1>8

\* connection-manager.ts:63-89, drain-controller.ts:81-90: a connection that
\* comes under an id without a live one counts one more.
LEMMA Entering ==
  ASSUME TypeOK, EntriesOK, NEW i \in Ids, states[i] \notin {"Active", "Draining"},
         states' = [states EXCEPT ![i] = "Active"], totalActive' = totalActive + 1
  PROVE  EntriesOK' /\ totalActive' \in Nat /\ Draining' = Draining
<1>1. /\ IsFiniteSet(Actives) /\ IsFiniteSet(Draining)
      /\ totalActive = Cardinality(Actives) /\ Cardinality(Actives) \in Nat
  BY FS_CardinalityType DEF EntriesOK, ActiveCounted, Actives
<1>2. Actives' = Actives \cup {i} /\ Draining' = Draining /\ i \notin Actives
  BY DEF TypeOK, Actives, Draining
<1>3. IsFiniteSet(Actives') /\ Cardinality(Actives') = Cardinality(Actives) + 1
  BY <1>1, <1>2, FS_AddElement
<1>4. EntriesOK' BY <1>1, <1>2, <1>3 DEF EntriesOK, ActiveCounted, Actives
<1> QED BY <1>1, <1>2, <1>4

(***************************************************************************)
(* The steps.                                                              *)
(***************************************************************************)
\* What a step that leaves the log alone has to show of the sockets.
LEMMA LogKept ==
  ASSUME RingOK, ClosesOK, UNCHANGED <<ringVars, recorded>>,
         \A h \in Handles : socket'[h] = "closed" <=> socket[h] = "closed"
  PROVE  RingOK' /\ ClosesOK'
<1>1. items' = items /\ head' = head /\ size' = size /\ recorded' = recorded BY DEF ringVars
<1> QED BY <1>1 DEF RingOK, ClosesOK

\* connection-manager.ts:55-59, 78-83: what becomes of a socket is recorded in
\* the step it does, so that a close is found once.
LEMMA LogGrows ==
  ASSUME TypeOK, RingOK, ClosesOK, NEW h \in Handles, NEW what \in {"open", "closed"},
         Record(h, what), socket[h] # "closed", socket' = [socket EXCEPT ![h] = what]
  PROVE  RingOK' /\ ClosesOK' /\ recorded' \in Seq(Handles \X {"open", "closed"})
<1> DEFINE n == Len(recorded)
<1>1. /\ RingOK'
      /\ recorded' \in Seq(Handles \X {"open", "closed"})
      /\ n \in Nat /\ Len(recorded') = n + 1
      /\ \A k \in 1..n : recorded'[k] = recorded[k]
      /\ recorded'[n + 1] = <<h, what>>
  BY Pushing
<1>2. DOMAIN recorded = 1..n BY LenProperties DEF TypeOK
<1>3. DOMAIN recorded' = 1..n + 1 BY <1>1, LenProperties
<1>4. socket'[h] = what /\ \A g \in Handles \ {h} : socket'[g] = socket[g] BY DEF TypeOK
<1> HIDE DEF n
<1>5. \A k \in 1..n : recorded[k] # <<h, "closed">> BY <1>2 DEF ClosesOK
<1>6. 1..n + 1 = (1..n) \cup {n + 1} BY <1>1
<1>7. ASSUME NEW g \in Handles
      PROVE  socket'[g] = "closed" <=> \E k \in DOMAIN recorded' : recorded'[k] = <<g, "closed">>
  <2>1. CASE g = h
    <3>1. \A k \in 1..n : recorded'[k] # <<h, "closed">> BY <1>1, <1>5
    <3>2. recorded'[n + 1] = <<h, "closed">> <=> what = "closed" BY <1>1
    <3> QED BY <1>3, <1>4, <1>6, <2>1, <3>1, <3>2
  <2>2. CASE g # h
    <3>1. socket[g] = "closed" <=> \E k \in 1..n : recorded[k] = <<g, "closed">>
      BY <1>2 DEF ClosesOK
    <3>2. recorded'[n + 1] # <<g, "closed">> BY <1>1, <2>2
    <3> QED BY <1>1, <1>3, <1>4, <1>6, <2>2, <3>1, <3>2
  <2> QED BY <2>1, <2>2
<1>8. ASSUME NEW g \in Handles, NEW j \in DOMAIN recorded', NEW k \in DOMAIN recorded',
             recorded'[j] = <<g, "closed">>, recorded'[k] = <<g, "closed">>
      PROVE  j = k
  <2>1. CASE g = h
    <3>1. j = n + 1 /\ k = n + 1 BY <1>1, <1>3, <1>5, <1>6, <1>8, <2>1
    <3> QED BY <3>1
  <2>2. CASE g # h
    <3>1. j \in 1..n /\ k \in 1..n BY <1>1, <1>3, <1>6, <1>8, <2>2
    <3>2. recorded[j] = <<g, "closed">> /\ recorded[k] = <<g, "closed">> BY <1>1, <1>8, <3>1
    <3> QED BY <1>2, <3>1, <3>2 DEF ClosesOK
  <2> QED BY <2>1, <2>2
<1>9. ClosesOK' BY <1>7, <1>8 DEF ClosesOK
<1> QED BY <1>1, <1>9

\* A live entry is registered.
LEMMA LiveIsRegistered ==
  ASSUME TypeOK, RegistryOK, NEW i \in Ids, states[i] \in {"Active", "Draining"}
  PROVE  holder[i] \in Connected /\ Registered(i) # {}
<1>1. holder[i] \in Handles /\ IdOf[holder[i]] = i BY DEF TypeOK, RegistryOK
<1>2. Holds(holder[i]) BY <1>1 DEF Holds
<1>3. holder[i] \in Connected BY <1>1, <1>2 DEF RegistryOK, RegistriesAgree
<1> QED BY <1>1, <1>3 DEF Connected, Registered

\* connection-manager.ts:63-89: a connection arrives under an id not registered.
LEMMA AddKeeps ==
  ASSUME DrainInv, NEW h \in Handles, AddConnection(h)
  PROVE  DrainInv' /\ Draining' = Draining
<1> DEFINE i == IdOf[h]
<1>1. i \in Ids BY DrainAssumption
<1>2. TypeOK /\ EntriesOK /\ RegistryOK /\ SocketsOK /\ RingOK /\ ClosesOK BY DEF DrainInv
<1> HIDE DEF i
<1>3. /\ socket[h] = "new" /\ Registered(i) = {}
      /\ states' = [states EXCEPT ![i] = "Active"]
      /\ pendingFrames' = [pendingFrames EXCEPT ![i] = 0]
      /\ totalActive' = totalActive + 1
      /\ connections' = Append(connections, h)
      /\ holder' = [holder EXCEPT ![i] = h]
      /\ socket' = [socket EXCEPT ![h] = "open"]
      /\ Record(h, "open")
      /\ handler' \in {handler, handler \cup {h}}
      /\ grace' = grace /\ ack' = ack /\ quiet' = quiet /\ queue' = queue
  BY DEF AddConnection, i
<1>4. states[i] \notin {"Active", "Draining"} BY <1>1, <1>2, <1>3, LiveIsRegistered
<1>5. EntriesOK' /\ totalActive' \in Nat /\ Draining' = Draining
  BY <1>1, <1>2, <1>3, <1>4, Entering
<1>6. RingOK' /\ ClosesOK' /\ recorded' \in Seq(Handles \X {"open", "closed"})
  BY <1>2, <1>3, LogGrows
<1> DEFINE n == Len(connections)
<1>7. /\ connections \in Seq(Handles) /\ n \in Nat /\ DOMAIN connections = 1..n
      /\ connections' \in Seq(Handles) /\ DOMAIN connections' = 1..n + 1
      /\ \A k \in 1..n : connections'[k] = connections[k]
      /\ connections'[n + 1] = h
  <2>1. connections \in Seq(Handles) /\ n \in Nat /\ DOMAIN connections = 1..n
    BY <1>2, LenProperties DEF TypeOK
  <2>2. /\ connections' \in Seq(Handles) /\ Len(connections') = n + 1
        /\ \A k \in 1..n : connections'[k] = connections[k]
        /\ connections'[n + 1] = h
    BY <1>3, <2>1, AppendProperties
  <2> QED BY <2>1, <2>2, LenProperties
<1> HIDE DEF n
<1>8. 1..n + 1 = (1..n) \cup {n + 1} BY <1>7
<1>9. Connected' = Connected \cup {h} BY <1>7, <1>8 DEF Connected
<1>10. \A c \in Connected : IdOf[c] # i BY <1>3 DEF Connected, Registered
<1>11. \A j, k \in DOMAIN connections' : IdOf[connections'[j]] = IdOf[connections'[k]] => j = k
  <2>1. \A k \in 1..n : IdOf[connections[k]] # i BY <1>7, <1>10 DEF Connected
  <2>2. \A j, k \in 1..n : IdOf[connections[j]] = IdOf[connections[k]] => j = k
    BY <1>2, <1>7 DEF RegistryOK
  <2> QED BY <1>7, <1>8, <2>1, <2>2 DEF i
<1>12. TypeOK' BY <1>1, <1>2, <1>3, <1>5, <1>6, <1>7 DEF TypeOK
<1>13. /\ states'[i] = "Active" /\ \A j \in Ids \ {i} : states'[j] = states[j]
       /\ holder'[i] = h /\ \A j \in Ids \ {i} : holder'[j] = holder[j]
       /\ pendingFrames'[i] = 0 /\ \A j \in Ids \ {i} : pendingFrames'[j] = pendingFrames[j]
       /\ socket'[h] = "open" /\ \A g \in Handles \ {h} : socket'[g] = socket[g]
  BY <1>1, <1>2, <1>3 DEF TypeOK
<1>14. /\ \A g \in Handles : IdOf[g] = i => (Holds(g)' <=> g = h)
       /\ \A g \in Handles : IdOf[g] # i => (Holds(g)' <=> Holds(g))
  BY <1>13, DrainAssumption DEF Holds
<1>15. RegistryOK'
  <2>1. \A j \in Ids : states'[j] # "none" => holder'[j] # NoHandle
    BY <1>2, <1>13, DrainAssumption DEF RegistryOK
  <2>2. \A j \in Ids : holder'[j] \in Handles => IdOf[holder'[j]] = j
    BY <1>2, <1>13 DEF RegistryOK, i
  <2>3. RegistriesAgree'
    <3>1. \A g \in Handles : g \in Connected' <=> Holds(g)' /\ states'[IdOf[g]] \in {"Active", "Draining"}
      <4>1. SUFFICES ASSUME NEW g \in Handles
                     PROVE g \in Connected' <=> Holds(g)' /\ states'[IdOf[g]] \in {"Active", "Draining"}
        OBVIOUS
      <4>2. g \in Connected <=> Holds(g) /\ states[IdOf[g]] \in {"Active", "Draining"}
        BY <1>2 DEF RegistryOK, RegistriesAgree
      <4>3. IdOf[g] \in Ids BY DrainAssumption
      <4> QED BY <1>9, <1>10, <1>13, <1>14, <4>2, <4>3 DEF i
    <3>2. Connected' \subseteq Handles BY <1>2, <1>9 DEF RegistryOK, RegistriesAgree
    <3> QED BY <3>1, <3>2 DEF RegistriesAgree
  <2>4. OneTimerPerDrain'
    <3>1. \A g \in Handles : Holds(g)' /\ states'[IdOf[g]] = "Draining" <=> Holds(g) /\ states[IdOf[g]] = "Draining"
      <4>1. SUFFICES ASSUME NEW g \in Handles
                     PROVE Holds(g)' /\ states'[IdOf[g]] = "Draining" <=> Holds(g) /\ states[IdOf[g]] = "Draining"
        OBVIOUS
      <4>2. IdOf[g] \in Ids BY DrainAssumption
      <4> QED BY <1>4, <1>13, <1>14, <4>2
    <3> QED BY <1>2, <1>3, <3>1 DEF RegistryOK, OneTimerPerDrain
  <2> QED BY <1>11, <2>1, <2>2, <2>3, <2>4 DEF RegistryOK
<1>16. SocketsOK'
  <2>1. ASSUME NEW g \in Handles
        PROVE  /\ socket'[g] = "new" => ~Holds(g)' /\ queue'[g] = 0
               /\ Holds(g)' /\ states'[IdOf[g]] \in {"Active", "Draining"} => socket'[g] = "open"
               /\ Holds(g)' /\ states'[IdOf[g]] = "Closed" => socket'[g] = "closed"
               /\ Holds(g)' /\ states'[IdOf[g]] # "none" => pendingFrames'[IdOf[g]] = queue'[g]
    <3>1. IdOf[g] \in Ids BY DrainAssumption
    <3>2. /\ socket[g] = "new" => ~Holds(g) /\ queue[g] = 0
          /\ Holds(g) /\ states[IdOf[g]] \in {"Active", "Draining"} => socket[g] = "open"
          /\ Holds(g) /\ states[IdOf[g]] = "Closed" => socket[g] = "closed"
          /\ Holds(g) /\ states[IdOf[g]] # "none" => pendingFrames[IdOf[g]] = queue[g]
      BY <1>2 DEF SocketsOK, FramesCounted
    <3>3. CASE g = h BY <1>3, <1>13, <3>2, <3>3 DEF i
    <3>4. CASE g # h /\ IdOf[g] = i BY <1>3, <1>13, <1>14, <3>2, <3>4
    <3>5. CASE IdOf[g] # i
      <4>1. g # h BY <3>5 DEF i
      <4> QED BY <1>3, <1>13, <1>14, <3>1, <3>2, <3>5, <4>1
    <3> QED BY <3>3, <3>4, <3>5
  <2> QED BY <2>1 DEF SocketsOK, FramesCounted
<1> QED BY <1>5, <1>6, <1>12, <1>15, <1>16 DEF DrainInv

\* drain-controller.ts:210-258, connection-manager.ts:97-101: an entry that is
\* purged or closed leaves the registry, with its timers.
LEMMA LeaveKeeps ==
  ASSUME DrainInv, NEW h \in Handles, Holds(h), NEW s \in {"none", "Closed"},
         states' = [states EXCEPT ![IdOf[h]] = s],
         totalActive' = IF states[IdOf[h]] = "Active" THEN totalActive - 1 ELSE totalActive,
         ClearTimers(IdOf[h]), Delete(IdOf[h]), UNCHANGED holder
  PROVE  /\ EntriesOK' /\ RegistryOK' /\ totalActive' \in Nat
         /\ connections' \in Seq(Handles)
         /\ Cardinality(Draining') <= Cardinality(Draining)
         /\ Cardinality(Draining) \in Nat /\ Cardinality(Draining') \in Nat
<1> DEFINE i == IdOf[h]
<1>1. i \in Ids BY DrainAssumption
<1>2. TypeOK /\ EntriesOK /\ RegistryOK BY DEF DrainInv
<1> HIDE DEF i
<1>3. /\ EntriesOK' /\ totalActive' \in Nat
      /\ Cardinality(Draining) \in Nat /\ Cardinality(Draining') \in Nat
      /\ Cardinality(Draining') <= Cardinality(Draining)
  BY <1>1, <1>2, Leaving DEF i
<1>4. /\ connections' \in Seq(Handles)
      /\ \A j, k \in DOMAIN connections' : IdOf[connections'[j]] = IdOf[connections'[k]] => j = k
      /\ Connected' = {c \in Connected : IdOf[c] # i}
  BY <1>1, <1>2, Deletion DEF i, RegistryOK
<1>5. states'[i] = s /\ \A j \in Ids \ {i} : states'[j] = states[j]
  BY <1>1, <1>2 DEF TypeOK, i
<1>6. holder' = holder /\ \A g \in Handles : Holds(g)' <=> Holds(g) BY DEF Holds
<1>7. grace' = {g \in grace : IdOf[g] # i} /\ ack' = {a \in ack : IdOf[a] # i}
  BY DEF ClearTimers, i
<1>8. \A j \in Ids : states'[j] # "none" => holder'[j] # NoHandle
  <2>1. holder[i] # NoHandle BY DrainAssumption DEF Holds, i
  <2> QED BY <1>2, <1>5, <1>6, <2>1 DEF RegistryOK
<1>9. RegistriesAgree'
  <2>1. Connected = {g \in Handles : Holds(g) /\ states[IdOf[g]] \in {"Active", "Draining"}}
    BY <1>2 DEF RegistryOK, RegistriesAgree
  <2>2. \A g \in Handles : IdOf[g] \in Ids BY DrainAssumption
  <2> QED BY <1>4, <1>5, <1>6, <2>1, <2>2 DEF RegistriesAgree
<1>10. OneTimerPerDrain'
  <2>1. grace \cup ack = {g \in Handles : Holds(g) /\ states[IdOf[g]] = "Draining"} /\ grace \cap ack = {}
    BY <1>2 DEF RegistryOK, OneTimerPerDrain
  <2>2. \A g \in Handles : IdOf[g] \in Ids BY DrainAssumption
  <2>3. \A g \in Handles : Holds(g)' /\ states'[IdOf[g]] = "Draining"
                             <=> g \in grace \cup ack /\ IdOf[g] # i
    BY <1>5, <1>6, <2>1, <2>2
  <2>4. grace' \cup ack' = {g \in grace \cup ack : IdOf[g] # i} /\ grace' \cap ack' = {}
    BY <1>7, <2>1
  <2>5. grace \cup ack \subseteq Handles BY <2>1
  <2> QED BY <2>3, <2>4, <2>5 DEF OneTimerPerDrain
<1>11. RegistryOK' BY <1>2, <1>4, <1>6, <1>8, <1>9, <1>10 DEF RegistryOK
<1> QED BY <1>3, <1>4, <1>11

(* A handle that leaves the registry (removeConnection, connection_manager.ts)  *)
(* keeps every part of the invariant that speaks of the registry.               *)
LEMMA RemoveKeeps ==
  ASSUME DrainInv, NEW h \in Handles, RemoveConnection(h)
  PROVE  DrainInv' /\ Cardinality(Draining') <= Cardinality(Draining)
<1> DEFINE i == IdOf[h]
<1>1. i \in Ids BY DrainAssumption
<1>2. TypeOK /\ EntriesOK /\ RegistryOK /\ SocketsOK /\ RingOK /\ ClosesOK BY DEF DrainInv
<1>3. /\ Holds(h) /\ Delete(i) /\ ClearTimers(i)
      /\ states' = [states EXCEPT ![i] = "none"]
      /\ pendingFrames' = [pendingFrames EXCEPT ![i] = 0]
      /\ totalActive' = IF states[i] = "Active" THEN totalActive - 1 ELSE totalActive
      /\ quiet' = {q \in quiet : IdOf[q] # i}
      /\ UNCHANGED <<holder, socket, ringVars, recorded, channelVars>>
  BY DEF RemoveConnection, Purge
<1>4. /\ EntriesOK' /\ RegistryOK' /\ totalActive' \in Nat
      /\ connections' \in Seq(Handles)
      /\ Cardinality(Draining') <= Cardinality(Draining)
  BY <1>3, LeaveKeeps
<1> HIDE DEF i
<1>5. RingOK' /\ ClosesOK' BY <1>2, <1>3, LogKept
<1>6. grace' \subseteq grace /\ ack' \subseteq ack /\ quiet' \subseteq quiet
  BY <1>3 DEF ClearTimers
<1>7. TypeOK' BY <1>1, <1>2, <1>3, <1>4, <1>6 DEF TypeOK, channelVars
<1>8. /\ states'[i] = "none" /\ \A j \in Ids \ {i} : states'[j] = states[j]
      /\ \A j \in Ids \ {i} : pendingFrames'[j] = pendingFrames[j]
      /\ socket' = socket /\ queue' = queue /\ \A g \in Handles : Holds(g)' <=> Holds(g)
  BY <1>1, <1>2, <1>3 DEF TypeOK, channelVars, Holds
<1>9. SocketsOK'
  <2>1. \A g \in Handles : IdOf[g] \in Ids BY DrainAssumption
  <2> QED BY <1>2, <1>8, <2>1 DEF SocketsOK, FramesCounted
<1> QED BY <1>4, <1>5, <1>7, <1>9 DEF DrainInv

\* A close, by the client, the deadline or force.
LEMMA CloseKeeps ==
  ASSUME DrainInv, NEW h \in Handles, Holds(h), states[IdOf[h]] # "none", TransitionClosed(h)
  PROVE  DrainInv' /\ Cardinality(Draining') <= Cardinality(Draining)
<1> DEFINE i == IdOf[h]
<1>1. i \in Ids BY DrainAssumption
<1>2. TypeOK /\ EntriesOK /\ RegistryOK /\ SocketsOK /\ RingOK /\ ClosesOK BY DEF DrainInv
<1>3. /\ ClearTimers(i) /\ RecordClose(i)
      /\ states' = [states EXCEPT ![i] = "Closed"]
      /\ totalActive' = IF states[i] = "Active" THEN totalActive - 1 ELSE totalActive
      /\ socket' = [socket EXCEPT ![h] = "closed"]
      /\ quiet' = {q \in quiet : IdOf[q] # i}
      /\ UNCHANGED <<pendingFrames, holder, channelVars>>
  BY DEF TransitionClosed
<1>4. Delete(i) BY <1>3 DEF RecordClose, Delete
<1>5. /\ EntriesOK' /\ RegistryOK' /\ totalActive' \in Nat
      /\ connections' \in Seq(Handles)
      /\ Cardinality(Draining') <= Cardinality(Draining)
  BY <1>3, <1>4, LeaveKeeps
<1>6. /\ socket[h] # "new"
      /\ states[i] \in {"Active", "Draining"} => socket[h] = "open"
      /\ states[i] = "Closed" => socket[h] = "closed"
  BY <1>2 DEF SocketsOK
<1> HIDE DEF i
<1>7. socket'[h] = "closed" /\ \A g \in Handles \ {h} : socket'[g] = socket[g]
  BY <1>2, <1>3 DEF TypeOK
<1>8. RingOK' /\ ClosesOK' /\ recorded' \in Seq(Handles \X {"open", "closed"})
  <2>1. CASE Registered(i) = {}
    <3>1. UNCHANGED <<ringVars, recorded>> BY <1>3, <2>1 DEF RecordClose
    <3>2. states[i] \notin {"Active", "Draining"} BY <1>1, <1>2, <2>1, LiveIsRegistered
    <3>3. socket[h] = "closed" BY <1>1, <1>2, <1>6, <3>2 DEF TypeOK, i
    <3>4. \A g \in Handles : socket'[g] = "closed" <=> socket[g] = "closed" BY <1>7, <3>3
    <3>5. RingOK' /\ ClosesOK' BY <1>2, <3>1, <3>4, LogKept
    <3> QED BY <1>2, <3>1, <3>5 DEF TypeOK
  <2>2. CASE Registered(i) # {}
    <3>1. PICK k \in Registered(i) : Record(connections[k], "closed")
      BY <1>3, <2>2 DEF RecordClose
    <3>2. connections[k] \in Connected /\ IdOf[connections[k]] = i
      BY <3>1 DEF Registered, Connected
    <3>3. Holds(connections[k]) /\ states[i] \in {"Active", "Draining"}
      BY <1>2, <3>2 DEF RegistryOK, RegistriesAgree
    <3>4. connections[k] = h BY <3>2, <3>3 DEF Holds, i
    <3>5. socket[h] # "closed" BY <1>6, <3>3
    <3> QED BY <1>2, <1>3, <3>1, <3>4, <3>5, LogGrows
  <2> QED BY <2>1, <2>2
<1>9. grace' \subseteq grace /\ ack' \subseteq ack /\ quiet' \subseteq quiet
  BY <1>3 DEF ClearTimers
<1>10. TypeOK' BY <1>1, <1>2, <1>3, <1>5, <1>8, <1>9 DEF TypeOK, channelVars
<1>11. /\ states'[i] = "Closed" /\ \A j \in Ids \ {i} : states'[j] = states[j]
       /\ pendingFrames' = pendingFrames /\ queue' = queue
       /\ \A g \in Handles : Holds(g)' <=> Holds(g)
       /\ states[i] # "none"
  BY <1>1, <1>2, <1>3 DEF TypeOK, channelVars, Holds, i
<1>12. SocketsOK'
  <2>1. ASSUME NEW g \in Handles
        PROVE  /\ socket'[g] = "new" => ~Holds(g)' /\ queue'[g] = 0
               /\ Holds(g)' /\ states'[IdOf[g]] \in {"Active", "Draining"} => socket'[g] = "open"
               /\ Holds(g)' /\ states'[IdOf[g]] = "Closed" => socket'[g] = "closed"
               /\ Holds(g)' /\ states'[IdOf[g]] # "none" => pendingFrames'[IdOf[g]] = queue'[g]
    <3>1. IdOf[g] \in Ids BY DrainAssumption
    <3>2. /\ socket[g] = "new" => ~Holds(g) /\ queue[g] = 0
          /\ Holds(g) /\ states[IdOf[g]] \in {"Active", "Draining"} => socket[g] = "open"
          /\ Holds(g) /\ states[IdOf[g]] = "Closed" => socket[g] = "closed"
          /\ Holds(g) /\ states[IdOf[g]] # "none" => pendingFrames[IdOf[g]] = queue[g]
      BY <1>2 DEF SocketsOK, FramesCounted
    <3>3. CASE g = h BY <1>7, <1>11, <3>2, <3>3 DEF i
    <3>4. CASE g # h /\ IdOf[g] = i
      <4>1. ~Holds(g) BY <3>4 DEF Holds, i
      <4> QED BY <1>7, <1>11, <3>2, <3>4, <4>1
    <3>5. CASE IdOf[g] # i
      <4>1. g # h BY <3>5 DEF i
      <4> QED BY <1>7, <1>11, <3>1, <3>2, <3>5, <4>1
    <3> QED BY <3>3, <3>4, <3>5
  <2> QED BY <2>1 DEF SocketsOK, FramesCounted
<1> QED BY <1>5, <1>8, <1>10, <1>12 DEF DrainInv

\* drain-controller.ts:112-154, 166-177, telemetry-channel.ts:45-107: some
\* connections begin to drain, and frames come and go that are counted.
LEMMA DrainKeeps ==
  ASSUME DrainInv, NEW H \in SUBSET Handles, BeginDrain(H),
         \A h \in H : Holds(h) /\ states[IdOf[h]] = "Active",
         UNCHANGED <<managerVars, handler>>,
         pendingFrames' \in [Ids -> Nat], queue' \in [Handles -> 0..MaxFrames],
         \A g \in Handles : socket[g] = "new" => queue'[g] = queue[g],
         \A g \in Handles : Holds(g) /\ states[IdOf[g]] # "none" => pendingFrames'[IdOf[g]] = queue'[g]
  PROVE  DrainInv'
<1> DEFINE D == {IdOf[h] : h \in H}
<1>1. TypeOK /\ EntriesOK /\ RegistryOK /\ SocketsOK /\ RingOK /\ ClosesOK BY DEF DrainInv
<1>2. EntriesOK' /\ totalActive' \in Nat BY <1>1, Beginning
<1>3. /\ states' = [i \in Ids |-> IF i \in D THEN "Draining" ELSE states[i]]
      /\ grace' = grace \cup H /\ ack' = ack
  BY DEF BeginDrain
<1>4. /\ connections' = connections /\ quiet' = quiet /\ holder' = holder /\ socket' = socket
      /\ UNCHANGED <<ringVars, recorded>> /\ handler' = handler
  BY DEF managerVars
<1>5. RingOK' /\ ClosesOK' BY <1>1, <1>4, LogKept
<1>6. \A i \in D : states[i] = "Active" /\ i \in Ids BY DrainAssumption
<1>7. \A g \in Handles : Holds(g) /\ IdOf[g] \in D <=> g \in H BY DEF Holds
<1> HIDE DEF D
<1>8. TypeOK' BY <1>1, <1>2, <1>3, <1>4 DEF TypeOK
<1>9. \A g \in Handles : IdOf[g] \in Ids /\ (Holds(g)' <=> Holds(g)) BY <1>4, DrainAssumption DEF Holds
<1>10. RegistryOK'
  <2>1. Connected' = Connected BY <1>4 DEF Connected
  <2>2. \A i \in Ids : /\ states'[i] \in {"Active", "Draining"} <=> states[i] \in {"Active", "Draining"}
                       /\ states'[i] # "none" <=> states[i] # "none"
    BY <1>3, <1>6
  <2>3. RegistriesAgree' BY <1>1, <1>9, <2>1, <2>2 DEF RegistryOK, RegistriesAgree
  <2>4. OneTimerPerDrain'
    <3>1. \A g \in Handles : Holds(g)' /\ states'[IdOf[g]] = "Draining"
                               <=> (Holds(g) /\ states[IdOf[g]] = "Draining") \/ g \in H
      BY <1>3, <1>6, <1>7, <1>9
    <3>2. /\ grace \cup ack = {g \in Handles : Holds(g) /\ states[IdOf[g]] = "Draining"}
          /\ grace \cap ack = {}
      BY <1>1 DEF RegistryOK, OneTimerPerDrain
    <3>3. H \cap ack = {} BY <3>2
    <3> QED BY <1>3, <3>1, <3>2, <3>3 DEF OneTimerPerDrain
  <2> QED BY <1>1, <1>4, <2>2, <2>3, <2>4 DEF RegistryOK
<1>11. SocketsOK'
  <2>1. \A i \in Ids : /\ states'[i] \in {"Active", "Draining"} <=> states[i] \in {"Active", "Draining"}
                       /\ states'[i] # "none" <=> states[i] # "none"
                       /\ states'[i] = "Closed" <=> states[i] = "Closed"
    BY <1>3, <1>6
  <2> QED BY <1>1, <1>4, <1>9, <2>1 DEF SocketsOK, FramesCounted
<1> QED BY <1>2, <1>5, <1>8, <1>10, <1>11 DEF DrainInv

(***************************************************************************)
(* The herd guard.                                                         *)
(***************************************************************************)
\* What NoStampede says of one step.
WithinRatio ==
  Cardinality(Draining') > Cardinality(Draining) =>
    (Cardinality(Draining') - 1) * RatioDen < Total'

\* A drain that goes through found room for one more, and one that is deferred
\* changes nothing.
LEMMA Initiating ==
  ASSUME DrainInv, NEW h \in Handles, Holds(h),
         InitiateDrain(h) \/ UNCHANGED <<states, totalActive, grace, ack>>
  PROVE  /\ WithinRatio
         /\ \E H \in SUBSET Handles :
              BeginDrain(H) /\ \A g \in H : Holds(g) /\ states[IdOf[g]] = "Active"
<1>1. TypeOK /\ EntriesOK BY DEF DrainInv
<1>2. Cardinality(Draining) \in Nat BY <1>1, FS_CardinalityType DEF EntriesOK
<1>3. CASE states[IdOf[h]] = "Active" /\ CanDrain(0) /\ InitiateDrain(h)
  <2> DEFINE c == Cardinality(Draining)
  <2>1. BeginDrain({h}) BY <1>3 DEF InitiateDrain
  <2>2. Cardinality({h}) = 1 BY FS_Singleton
  <2>3. \A g \in {h} : Holds(g) /\ states[IdOf[g]] = "Active" BY <1>3
  <2>4. {h} \in SUBSET Handles OBVIOUS
  <2>5. Cardinality(Draining') = c + 1 /\ Total' = Total
    BY <1>1, <2>1, <2>2, <2>3, <2>4, Beginning
  <2>6. (c + 0) * RatioDen < Total BY <1>3 DEF CanDrain
  <2> HIDE DEF c
  <2>7. c \in Nat BY <1>2 DEF c
  <2>8. c + 0 = c /\ Cardinality(Draining') - 1 = c BY <2>5, <2>7
  <2>9. WithinRatio BY <2>5, <2>6, <2>8 DEF WithinRatio
  <2> QED BY <2>1, <2>3, <2>4, <2>9
<1>4. CASE UNCHANGED <<states, totalActive, grace, ack>>
  <2>1. BeginDrain({})
    <3>1. Cardinality({}) = 0 BY FS_EmptySet
    <3>2. totalActive' = totalActive - 0 BY <1>1, <1>4 DEF TypeOK
    <3>3. states = [i \in Ids |-> states[i]] BY <1>1 DEF TypeOK
    <3> QED BY <1>4, <3>1, <3>2, <3>3 DEF BeginDrain
  <2>2. Draining' = Draining BY <1>4 DEF Draining
  <2> QED BY <1>2, <2>1, <2>2 DEF WithinRatio
<1> QED BY <1>3, <1>4 DEF InitiateDrain

\* A finite set of positions has a last one, as the sets of what is behind its
\* members are well-founded.
LEMMA LastPosition ==
  ASSUME NEW S, S \subseteq Nat, S # {}, IsFiniteSet(S)
  PROVE  \E m \in S : \A k \in S : k <= m
<1> DEFINE R == StrictSubsetOrdering(S)
           Behind(k) == {j \in S : j > k}
           T == {Behind(k) : k \in S}
<1>1. T \subseteq FiniteSubsetsOf(S) /\ T # {}
  <2>1. FiniteSubsetsOf(S) = SUBSET S BY FS_FiniteSubsetsOfFinite
  <2>2. \A k \in S : Behind(k) \in SUBSET S OBVIOUS
  <2>3. T \subseteq SUBSET S /\ T # {} BY <2>2
  <2> QED BY <2>1, <2>3
<1>2. PICK u \in T : \A y \in T : <<y, u>> \notin R
  BY <1>1, FS_StrictSubsetOrderingWellFounded, WFMin
<1>3. PICK m \in S : u = Behind(m) OBVIOUS
<1>4. ASSUME NEW k \in S PROVE k <= m
  <2>1. CASE k > m
    <3>1. \A j \in Behind(k) : j \in Behind(m) BY <2>1
    <3>2. k \in Behind(m) /\ k \notin Behind(k) BY <2>1
    <3>3. <<Behind(k), u>> \in R BY <1>3, <3>1, <3>2 DEF StrictSubsetOrdering
    <3> QED BY <1>2, <3>3
  <2> QED BY <2>1
<1> QED BY <1>4

\* A product of numbers grows with each of them.
LEMMA TimesMonotonic ==
  ASSUME NEW a \in Nat, NEW b \in Nat, NEW r \in Nat, a <= b
  PROVE  a * r <= b * r
<1>1. PICK d \in Nat : b = a + d
  <2>1. b - a \in Nat /\ b = a + (b - a) OBVIOUS
  <2> QED BY <2>1
<1>2. b * r = a * r + d * r BY <1>1
<1>3. a * r \in Nat /\ d * r \in Nat OBVIOUS
<1> QED BY <1>2, <1>3

\* connection-manager.ts:127-137: a scan asks the guard again for each
\* connection, with those ahead of it counted.
LEMMA Scanning ==
  ASSUME DrainInv, Scan
  PROVE  DrainInv' /\ WithinRatio
<1> DEFINE H == {connections[k] : k \in Due}
           n == Len(connections)
           Ahead(k) == {j \in Silent : j < k}
<1>1. TypeOK /\ EntriesOK /\ RegistryOK /\ SocketsOK BY DEF DrainInv
<1>2. n \in Nat /\ DOMAIN connections = 1..n /\ \A k \in 1..n : connections[k] \in Handles
  BY <1>1, LenProperties, ElementOfSeq DEF TypeOK
<1>3. Due \subseteq Silent /\ Silent \subseteq 1..n /\ Due # {}
  BY <1>2 DEF Due, Silent, Scan
<1>4. IsFiniteSet(1..n) BY <1>2, FS_Interval
<1>5. IsFiniteSet(Silent) /\ IsFiniteSet(Due) BY <1>3, <1>4, FS_Subset
<1>6. H \in SUBSET Handles BY <1>2, <1>3
<1>7. \A h \in H : Holds(h) /\ states[IdOf[h]] = "Active"
  <2>1. \A k \in Due : connections[k] \in Connected /\ states[IdOf[connections[k]]] = "Active"
    BY <1>3 DEF Silent, Connected
  <2> QED BY <1>1, <2>1 DEF RegistryOK, RegistriesAgree
<1>8. BeginDrain(H) BY DEF Scan
<1> HIDE DEF H
<1>9. /\ UNCHANGED <<managerVars, handler>> /\ pendingFrames' = pendingFrames /\ queue' = queue
  BY DEF Scan, channelVars
<1>10. DrainInv'
  <2>1. pendingFrames \in [Ids -> Nat] /\ queue \in [Handles -> 0..MaxFrames] BY <1>1 DEF TypeOK
  <2>2. \A g \in Handles : Holds(g) /\ states[IdOf[g]] # "none" => pendingFrames[IdOf[g]] = queue[g]
    BY <1>1 DEF SocketsOK, FramesCounted
  <2> QED BY <1>6, <1>7, <1>8, <1>9, <2>1, <2>2, DrainKeeps
<1>11. Cardinality(H) = Cardinality(Due)
  <2> DEFINE f == [k \in Due |-> connections[k]]
  <2>1. f \in [Due -> H] /\ \A k \in Due : f[k] = connections[k] BY DEF H
  <2>2. \A k, j \in Due : f[k] = f[j] => k = j
    BY <1>1, <1>2, <1>3, <2>1 DEF RegistryOK
  <2>3. \A h \in H : \E k \in Due : f[k] = h BY <2>1 DEF H
  <2> HIDE DEF f
  <2> QED BY <1>5, <2>1, <2>2, <2>3, SameSize
<1>12. PICK m \in Due : \A k \in Due : k <= m
  <2>1. Due \subseteq Nat BY <1>2, <1>3
  <2> QED BY <1>3, <1>5, <2>1, LastPosition
<1> DEFINE c == Cardinality(Draining)
           a == Cardinality(Ahead(m))
<1>13. c \in Nat BY <1>1, FS_CardinalityType DEF EntriesOK
<1>14. \A k \in Silent : IsFiniteSet(Ahead(k)) /\ Cardinality(Ahead(k)) \in Nat
  <2>1. \A k \in Silent : Ahead(k) \in SUBSET Silent OBVIOUS
  <2>2. \A k \in Silent : IsFiniteSet(Ahead(k)) BY <1>5, <2>1, FS_Subset
  <2> QED BY <2>2, FS_CardinalityType
<1>15. (c + a) * RatioDen < Total BY <1>12 DEF Due, CanDrain
<1>16. Due = Ahead(m) \cup {m}
  <2>1. \A k \in Due : k \in Ahead(m) \cup {m} BY <1>2, <1>3, <1>12
  <2>2. ASSUME NEW k \in Ahead(m) PROVE k \in Due
    <3> DEFINE b == Cardinality(Ahead(k))
    <3>1. k \in Silent /\ m \in Silent /\ k \in 1..n /\ m \in 1..n /\ k < m BY <1>3
    <3>2. Ahead(k) \subseteq Ahead(m)
      <4>1. \A j \in 1..n : j < k => j < m BY <1>2, <3>1
      <4> QED BY <1>3, <4>1
    <3>3. b \in Nat /\ a \in Nat /\ b <= a BY <1>14, <3>1, <3>2, FS_Subset
    <3> HIDE DEF a, b, c
    <3>4. (c + b) * RatioDen <= (c + a) * RatioDen
      <4>1. c + b \in Nat /\ c + a \in Nat /\ c + b <= c + a BY <1>13, <3>3
      <4> QED BY <4>1, TimesMonotonic, DrainAssumption
    <3>5. (c + b) * RatioDen < Total
      <4>1. (c + b) * RatioDen \in Int /\ (c + a) * RatioDen \in Int BY <1>13, <3>3, DrainAssumption
      <4>2. Total \in Int BY <1>1, <1>13 DEF Total, TypeOK, c
      <4> QED BY <1>15, <3>4, <4>1, <4>2
    <3> QED BY <3>1, <3>5 DEF Due, CanDrain, b, c
  <2> QED BY <1>12, <2>1, <2>2
<1>17. Cardinality(Due) = a + 1
  <2>1. m \notin Ahead(m) BY <1>2, <1>3
  <2>2. IsFiniteSet(Ahead(m)) BY <1>3, <1>14
  <2> HIDE DEF Ahead
  <2> QED BY <1>16, <2>1, <2>2, FS_AddElement
<1>18. a \in Nat BY <1>3, <1>14
<1>19. Cardinality(Draining') = c + Cardinality(H) /\ Total' = Total
  BY <1>1, <1>6, <1>7, <1>8, Beginning
<1> HIDE DEF a, c
<1>20. Cardinality(Draining') - 1 = c + a BY <1>11, <1>13, <1>17, <1>18, <1>19
<1> QED BY <1>10, <1>15, <1>19, <1>20 DEF WithinRatio

(***************************************************************************)
(* The invariant, and what follows from it.                                *)
(***************************************************************************)
(* A process begins with empty maps, no socket and an empty log.                *)
LEMMA InitDrain == Init => DrainInv
<1> SUFFICES ASSUME Init PROVE DrainInv OBVIOUS
<1>1. /\ states = [i \in Ids |-> "none"] /\ pendingFrames = [i \in Ids |-> 0]
      /\ totalActive = 0 /\ grace = {} /\ ack = {} /\ connections = <<>> /\ quiet = {}
      /\ holder = [i \in Ids |-> NoHandle] /\ socket = [h \in Handles |-> "new"]
      /\ queue = [h \in Handles |-> 0] /\ handler = {} /\ recorded = <<>>
      /\ items = [k \in 0..Capacity - 1 |-> NoEntry] /\ head = 0 /\ size = 0
  BY DEF Init, RingInit
<1>2. /\ connections \in Seq(Handles) /\ recorded \in Seq(Handles \X {"open", "closed"})
      /\ Len(recorded) = 0 /\ DOMAIN recorded = {} /\ DOMAIN connections = {}
  BY <1>1
<1>3. TypeOK
  <2>1. 0 \in 0..MaxFrames BY DrainAssumption
  <2> QED BY <1>1, <1>2, <2>1 DEF TypeOK
<1>4. EntriesOK
  <2>1. Actives = {} /\ Draining = {} BY <1>1 DEF Actives, Draining
  <2> QED BY <1>1, <2>1, FS_EmptySet DEF EntriesOK, ActiveCounted, Actives
<1>5. \A h \in Handles : ~Holds(h)
  <2>1. \A h \in Handles : IdOf[h] \in Ids /\ h # NoHandle BY DrainAssumption
  <2> QED BY <1>1, <2>1 DEF Holds
<1>6. RegistryOK
  <2>1. Connected = {} BY <1>2 DEF Connected
  <2>2. RegistriesAgree /\ OneTimerPerDrain BY <1>1, <1>5, <2>1 DEF RegistriesAgree, OneTimerPerDrain
  <2> QED BY <1>1, <1>2, <2>2, DrainAssumption DEF RegistryOK
<1>7. SocketsOK BY <1>1, <1>5 DEF SocketsOK, FramesCounted
<1>8. RingOK
  <2>1. Capacity \in Nat \ {0} BY CapacityAssumption
  <2>2. items = [k \in 0..Capacity - 1 |-> items[k]] BY <1>1
  <2>3. size = IF Len(recorded) <= Capacity THEN Len(recorded) ELSE Capacity BY <1>1, <1>2, <2>1
  <2>4. head \in 0..Capacity - 1 BY <1>1, <2>1
  <2>5. 1..size = {} BY <1>1
  <2> QED BY <2>2, <2>3, <2>4, <2>5 DEF RingOK
<1>9. ClosesOK BY <1>1, <1>2 DEF ClosesOK
<1> QED BY <1>3, <1>4, <1>6, <1>7, <1>8, <1>9 DEF DrainInv

\* telemetry-channel.ts:45-107: what enters or leaves the queue is counted.
LEMMA FramesKeep ==
  ASSUME DrainInv, NEW h \in Handles, AcceptFrame(h) \/ Flush(h)
  PROVE  DrainInv' /\ WithinRatio
<1> DEFINE i == IdOf[h]
<1>1. TypeOK /\ SocketsOK BY DEF DrainInv
<1>2. i \in Ids /\ queue[h] \in Nat /\ queue[h] <= MaxFrames /\ MaxFrames \in Nat /\ Holds(h)
  BY <1>1, DrainAssumption DEF TypeOK, AcceptFrame, Flush
<1>3. socket[h] # "new" BY <1>1, <1>2 DEF SocketsOK
<1>4. states[i] # "none" => pendingFrames[i] = queue[h] BY <1>1, <1>2 DEF SocketsOK, FramesCounted
<1>5. UNCHANGED <<managerVars, handler>> BY DEF AcceptFrame, Flush
<1> HIDE DEF i
<1>6. \E n \in 0..MaxFrames, p \in Nat :
        /\ queue' = [queue EXCEPT ![h] = n]
        /\ pendingFrames' = [pendingFrames EXCEPT ![i] = p]
        /\ states[i] # "none" => p = n
  <2>1. CASE AcceptFrame(h)
    <3> DEFINE n == queue[h] + 1
    <3>1. states[i] = "Active" /\ queue[h] < MaxFrames BY <2>1 DEF AcceptFrame, i
    <3>2. n \in 0..MaxFrames /\ 0 \in 0..MaxFrames /\ n \in Nat BY <1>2, <3>1
    <3>3. pendingFrames[i] + 1 = n BY <1>4, <3>1
    <3>4. Acked(n, n) = 0 BY <3>2 DEF Acked
    <3>5. CASE n <= MaxPending /\ h \in handler
      <4>1. /\ queue' = [queue EXCEPT ![h] = 0]
            /\ pendingFrames' = [pendingFrames EXCEPT ![i] = Acked(@ + 1, n)]
        BY <2>1, <3>5 DEF AcceptFrame, i
      <4>2. pendingFrames' = [pendingFrames EXCEPT ![i] = 0] BY <3>3, <3>4, <4>1
      <4> QED BY <3>2, <4>1, <4>2
    <3>6. CASE ~(n <= MaxPending /\ h \in handler)
      <4>1. /\ queue' = [queue EXCEPT ![h] = n]
            /\ pendingFrames' = [pendingFrames EXCEPT ![i] = @ + 1]
        BY <2>1, <3>6 DEF AcceptFrame, i
      <4>2. pendingFrames' = [pendingFrames EXCEPT ![i] = n] BY <3>3, <4>1
      <4> QED BY <3>2, <4>1, <4>2
    <3> QED BY <3>5, <3>6
  <2>2. CASE Flush(h)
    <3> DEFINE p == Acked(pendingFrames[i], queue[h])
    <3>1. /\ queue' = [queue EXCEPT ![h] = 0]
          /\ pendingFrames' = [pendingFrames EXCEPT ![i] = Acked(@, queue[h])]
      BY <2>2 DEF Flush, DeliverPending, i
    <3>2. pendingFrames' = [pendingFrames EXCEPT ![i] = p] BY <3>1
    <3>3. pendingFrames[i] \in Nat BY <1>1, <1>2 DEF TypeOK
    <3>4. p \in Nat /\ (states[i] # "none" => p = 0) BY <1>2, <1>4, <3>3 DEF Acked
    <3>5. 0 \in 0..MaxFrames BY <1>2
    <3> HIDE DEF p
    <3> QED BY <3>1, <3>2, <3>4, <3>5
  <2> QED BY <2>1, <2>2
<1>7. PICK n \in 0..MaxFrames, p \in Nat :
        /\ queue' = [queue EXCEPT ![h] = n]
        /\ pendingFrames' = [pendingFrames EXCEPT ![i] = p]
        /\ states[i] # "none" => p = n
  BY <1>6
<1>8. /\ pendingFrames' \in [Ids -> Nat] /\ queue' \in [Handles -> 0..MaxFrames]
      /\ pendingFrames'[i] = p /\ \A j \in Ids \ {i} : pendingFrames'[j] = pendingFrames[j]
      /\ queue'[h] = n /\ \A g \in Handles \ {h} : queue'[g] = queue[g]
  BY <1>1, <1>2, <1>7 DEF TypeOK
<1>9. \A g \in Handles : socket[g] = "new" => queue'[g] = queue[g] BY <1>3, <1>8
<1>10. ASSUME NEW g \in Handles, Holds(g), states[IdOf[g]] # "none"
       PROVE  pendingFrames'[IdOf[g]] = queue'[g]
  <2>1. IdOf[g] \in Ids BY DrainAssumption
  <2>2. CASE IdOf[g] = i
    <3>1. g = h BY <1>2, <1>10, <2>2 DEF Holds, i
    <3> QED BY <1>7, <1>8, <1>10, <2>2, <3>1
  <2>3. CASE IdOf[g] # i
    <3>1. g # h BY <2>3 DEF i
    <3> QED BY <1>1, <1>8, <1>10, <2>1, <2>3, <3>1 DEF SocketsOK, FramesCounted
  <2> QED BY <2>2, <2>3
<1>11. InitiateDrain(h) \/ UNCHANGED <<states, totalActive, grace, ack>>
  BY DEF AcceptFrame, Flush, CheckBackpressure
<1>12. /\ WithinRatio
       /\ \E H \in SUBSET Handles :
            BeginDrain(H) /\ \A g \in H : Holds(g) /\ states[IdOf[g]] = "Active"
  BY <1>2, <1>11, Initiating
<1>13. PICK H \in SUBSET Handles :
         BeginDrain(H) /\ \A g \in H : Holds(g) /\ states[IdOf[g]] = "Active"
  BY <1>12
<1>14. DrainInv' BY <1>5, <1>8, <1>9, <1>10, <1>13, DrainKeeps
<1> QED BY <1>12, <1>14

\* drain-controller.ts:112-154: a drain on request.
LEMMA RequestKeeps ==
  ASSUME DrainInv, NEW h \in Handles, Drain(h)
  PROVE  DrainInv' /\ WithinRatio
<1>1. /\ Holds(h) /\ InitiateDrain(h) /\ UNCHANGED <<managerVars, handler>>
      /\ pendingFrames' = pendingFrames /\ queue' = queue
  BY DEF Drain, channelVars
<1>2. PICK H \in SUBSET Handles :
        BeginDrain(H) /\ \A g \in H : Holds(g) /\ states[IdOf[g]] = "Active"
  BY <1>1, Initiating
<1>3. TypeOK /\ SocketsOK BY DEF DrainInv
<1>4. pendingFrames \in [Ids -> Nat] /\ queue \in [Handles -> 0..MaxFrames] BY <1>3 DEF TypeOK
<1>5. \A g \in Handles : Holds(g) /\ states[IdOf[g]] # "none" => pendingFrames[IdOf[g]] = queue[g]
  BY <1>3 DEF SocketsOK, FramesCounted
<1>6. DrainInv' BY <1>1, <1>2, <1>4, <1>5, DrainKeeps
<1> QED BY <1>1, <1>6, Initiating

\* The clock: activity is not seen by the rest, and the end of the grace
\* window passes the drain from one timer to the other.
LEMMA ClockKeeps ==
  ASSUME DrainInv, NEW h \in Handles, GoQuiet(h) \/ Touch(h) \/ GraceEnds(h)
  PROVE  DrainInv' /\ Draining' = Draining
<1>1. TypeOK /\ EntriesOK /\ RegistryOK /\ SocketsOK /\ RingOK /\ ClosesOK BY DEF DrainInv
<1>2. /\ states' = states /\ pendingFrames' = pendingFrames /\ totalActive' = totalActive
      /\ connections' = connections /\ holder' = holder /\ socket' = socket
      /\ recorded' = recorded /\ UNCHANGED <<ringVars, recorded>>
      /\ queue' = queue /\ handler' = handler
  BY DEF GoQuiet, Touch, GraceEnds, entryVars, managerVars, channelVars
<1>3. quiet' \subseteq Handles
  BY <1>1 DEF GoQuiet, Touch, GraceEnds, managerVars, TypeOK, RegistryOK, RegistriesAgree
<1>4. grace' \cup ack' = grace \cup ack /\ grace' \cap ack' = {}
  <2>1. grace \cap ack = {} BY <1>1 DEF RegistryOK, OneTimerPerDrain
  <2>2. CASE GraceEnds(h)
    <3>1. states[IdOf[h]] = "Draining"
      <4>1. h \in grace BY <2>2 DEF GraceEnds
      <4> QED BY <1>1, <4>1 DEF RegistryOK, OneTimerPerDrain
    <3>2. h \in grace /\ grace' = grace \ {h} /\ ack' = ack \cup {h} BY <2>2, <3>1 DEF GraceEnds
    <3> QED BY <2>1, <3>2
  <2>3. CASE GoQuiet(h) \/ Touch(h) BY <2>1, <2>3 DEF GoQuiet, Touch, entryVars
  <2> QED BY <2>2, <2>3
<1>5. RingOK' /\ ClosesOK' BY <1>1, <1>2, LogKept
<1>6. TypeOK'
  <2>1. grace \cup ack \subseteq Handles BY <1>1 DEF TypeOK
  <2> QED BY <1>1, <1>2, <1>3, <1>4, <2>1 DEF TypeOK
<1>7. Draining' = Draining BY <1>2 DEF Draining
<1>8. EntriesOK' BY <1>1, <1>2, <1>7 DEF EntriesOK, Actives, ActiveCounted
<1>9. Connected' = Connected /\ \A g \in Handles : Holds(g)' <=> Holds(g)
  BY <1>2 DEF Connected, Holds
<1>10. RegistryOK'
  <2>1. RegistriesAgree' BY <1>1, <1>2, <1>9 DEF RegistryOK, RegistriesAgree
  <2>2. OneTimerPerDrain' BY <1>1, <1>2, <1>4, <1>9 DEF RegistryOK, OneTimerPerDrain
  <2> QED BY <1>1, <1>2, <2>1, <2>2 DEF RegistryOK
<1>11. SocketsOK' BY <1>1, <1>2, <1>9 DEF SocketsOK, FramesCounted
<1> QED BY <1>5, <1>6, <1>7, <1>8, <1>10, <1>11 DEF DrainInv

(* Every listener, timer and scan keeps the invariant, and no scan admits more  *)
(* drains than the ratio lets it.                                               *)
LEMMA StepDrain == DrainInv /\ [Next]_vars => DrainInv' /\ WithinRatio
<1> SUFFICES ASSUME DrainInv, [Next]_vars PROVE DrainInv' /\ WithinRatio OBVIOUS
<1>1. Cardinality(Draining) \in Nat BY FS_CardinalityType DEF DrainInv, EntriesOK
<1>2. CASE Scan BY <1>2, Scanning
<1>3. ASSUME NEW h \in Handles, Owner(h) \/ Clock(h) PROVE DrainInv' /\ WithinRatio
  <2>1. CASE AddConnection(h)
    <3>1. DrainInv' /\ Draining' = Draining BY <2>1, AddKeeps
    <3> QED BY <1>1, <3>1 DEF WithinRatio
  <2>2. CASE RemoveConnection(h)
    <3>1. DrainInv' /\ Cardinality(Draining') <= Cardinality(Draining) BY <2>2, RemoveKeeps
    <3>2. Cardinality(Draining') \in Nat BY <3>1, FS_CardinalityType DEF DrainInv, EntriesOK
    <3> QED BY <1>1, <3>1, <3>2 DEF WithinRatio
  <2>3. CASE Drain(h) BY <2>3, RequestKeeps
  <2>4. CASE AcknowledgeDrain(h) \/ ForceClose(h) \/ AckDeadline(h)
    <3>1. Holds(h) /\ states[IdOf[h]] # "none" /\ TransitionClosed(h)
      <4>1. CASE AcknowledgeDrain(h) \/ ForceClose(h) BY <4>1 DEF AcknowledgeDrain, ForceClose
      <4>2. CASE AckDeadline(h)
        <5>1. h \in grace \cup ack BY <4>2 DEF AckDeadline
        <5> QED BY <4>2, <5>1 DEF AckDeadline, DrainInv, RegistryOK, OneTimerPerDrain
      <4> QED BY <2>4, <4>1, <4>2
    <3>2. DrainInv' /\ Cardinality(Draining') <= Cardinality(Draining) BY <3>1, CloseKeeps
    <3>3. Cardinality(Draining') \in Nat BY <3>2, FS_CardinalityType DEF DrainInv, EntriesOK
    <3> QED BY <1>1, <3>2, <3>3 DEF WithinRatio
  <2>5. CASE AcceptFrame(h) \/ Flush(h) BY <2>5, FramesKeep
  <2>6. CASE GoQuiet(h) \/ Touch(h) \/ GraceEnds(h)
    <3>1. DrainInv' /\ Draining' = Draining BY <2>6, ClockKeeps
    <3> QED BY <1>1, <3>1 DEF WithinRatio
  <2> QED BY <1>3, <2>1, <2>2, <2>3, <2>4, <2>5, <2>6 DEF Owner, Clock
<1>4. CASE UNCHANGED vars
  <2>1. /\ UNCHANGED <<states, pendingFrames, totalActive, grace, ack, connections, quiet, holder>>
        /\ UNCHANGED <<socket, items, head, size, recorded, queue, handler>>
    BY <1>4 DEF vars, entryVars, managerVars, ringVars, channelVars
  <2>2. Draining' = Draining /\ Actives' = Actives /\ Connected' = Connected
        /\ \A g \in Handles : Holds(g)' <=> Holds(g)
    BY <2>1 DEF Draining, Actives, Connected, Holds
  <2>3. TypeOK' BY <2>1 DEF DrainInv, TypeOK
  <2>4. EntriesOK' BY <2>1, <2>2 DEF DrainInv, EntriesOK, ActiveCounted
  <2>5. RegistryOK'
    <3>1. RegistriesAgree' BY <2>1, <2>2 DEF DrainInv, RegistryOK, RegistriesAgree
    <3>2. OneTimerPerDrain' BY <2>1, <2>2 DEF DrainInv, RegistryOK, OneTimerPerDrain
    <3> QED BY <2>1, <3>1, <3>2 DEF DrainInv, RegistryOK
  <2>6. SocketsOK' BY <2>1, <2>2 DEF DrainInv, SocketsOK, FramesCounted
  <2>7. RingOK' /\ ClosesOK' BY <2>1 DEF DrainInv, RingOK, ClosesOK
  <2>8. DrainInv' BY <2>3, <2>4, <2>5, <2>6, <2>7 DEF DrainInv
  <2> QED BY <1>1, <2>2, <2>8 DEF WithinRatio
<1> QED BY <1>2, <1>3, <1>4 DEF Next

\* One place of the log, or none, tells of a close.
LEMMA ClosesAreOnce ==
  ASSUME TypeOK, ClosesOK PROVE ClosedOnce
<1>1. SUFFICES ASSUME NEW h \in Handles
               PROVE Cardinality({k \in DOMAIN recorded : recorded[k] = <<h, "closed">>})
                       = IF socket[h] = "closed" THEN 1 ELSE 0
  BY DEF ClosedOnce
<1> DEFINE At == {k \in DOMAIN recorded : recorded[k] = <<h, "closed">>}
<1>2. CASE socket[h] = "closed"
  <2>1. PICK k \in DOMAIN recorded : recorded[k] = <<h, "closed">> BY <1>2 DEF ClosesOK
  <2>2. \A j \in At : j = k BY <2>1 DEF ClosesOK
  <2>3. At = {k} BY <2>1, <2>2
  <2>4. Cardinality(At) = 1 BY <2>3, FS_Singleton
  <2> QED BY <1>2, <2>4
<1>3. CASE socket[h] # "closed"
  <2>1. At = {} BY <1>3 DEF ClosesOK
  <2>2. Cardinality(At) = 0 BY <2>1, FS_EmptySet
  <2> QED BY <1>3, <2>2
<1> QED BY <1>2, <1>3

(* The invariant holds in every reachable state.                                *)
LEMMA SpecDrain == Spec => []DrainInv
<1>1. DrainInv /\ [Next]_vars => DrainInv' BY StepDrain
<1> QED BY InitDrain, <1>1, PTL DEF Spec

\* drain-controller.ts:67-269, connection-manager.ts:55-105,
\* telemetry-channel.ts:45-66: whatever the devices, handles and limits, the
\* controller, the manager and the channels agree on every connection, its
\* timer and its frames, and the counter of the herd guard is right.
THEOREM RegistriesNeverDiffer == Spec => []ConnectionsAgree
<1>1. DrainInv => ConnectionsAgree
  BY DEF DrainInv, EntriesOK, RegistryOK, SocketsOK, ConnectionsAgree
<1> QED BY SpecDrain, <1>1, PTL

\* connection-manager.ts:55-59, ring-buffer.ts:38-89: whatever the capacity, the
\* lifecycle log is the newest of what was recorded, in its order, and every
\* socket that was closed has been recorded as closed at exactly one place.
THEOREM LogTellsTheTruth == Spec => []LogIsFaithful
<1>1. DrainInv => LogIsFaithful
  BY RingIsNewest, ClosesAreOnce DEF DrainInv, LogIsFaithful
<1> QED BY SpecDrain, <1>1, PTL

\* drain-controller.ts:112-191, connection-manager.ts:127-137: whatever the
\* ratio and however many connections go quiet at once, a step that makes some
\* of them drain leaves all but the last of them within the ratio.
THEOREM NoScanStampedes == Spec => NoStampede
<1>1. DrainInv /\ [Next]_vars =>
        [Cardinality(Draining') > Cardinality(Draining) =>
           (Cardinality(Draining') - 1) * RatioDen < Total']_vars
  BY StepDrain DEF WithinRatio
<1> QED BY SpecDrain, <1>1, PTL DEF Spec, NoStampede
=============================================================================
