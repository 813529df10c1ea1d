-------------------------- MODULE Services_proofs --------------------------
(***************************************************************************)
(* What the services of MCServices guarantee for any number of their       *)
(* actors and any history: the sensor gateway, certificate minting, the    *)
(* batch audit log, the rate limiter, the ledger catch-up, tenant routing  *)
(* and the health evaluations.  Each is a specification of its own.        *)
(***************************************************************************)
EXTENDS MCServices, SequenceTheorems, FiniteSetTheorems, WellFoundedInduction, TLAPS

(***************************************************************************)
(* What the sensor gateway guarantees for any number of sensors, any       *)
(* window and any number of frames and connections: the flag agrees with   *)
(* the levels, who is held waits, only a hang-up releases, and the window  *)
(* holds the newest frames, and loses one only after enough hang-ups.     *)
(***************************************************************************)
(***************************************************************************)
(* Types.                                                                  *)
(***************************************************************************)
LEMMA LevelsAre == /\ Levels = {0, 1, 2} /\ NORMAL = 0 /\ WARNING = 1 /\ CRITICAL = 2
                   /\ ConnectionPool \in Keys /\ \A s \in Sensors : s \in Keys /\ s # ConnectionPool
BY KeysAssumption DEF Levels, NORMAL, WARNING, CRITICAL, Keys

\* Setting a level keeps the types and the agreement of the flag with them.
LEMMA SetKeepsFlag ==
  ASSUME NEW key \in Keys, NEW level \in Levels, SetBackpressure(key, level),
         levels \in [Keys -> Levels], globalBackpressure \in BOOLEAN, GlobalAgrees
  PROVE  levels' \in [Keys -> Levels] /\ globalBackpressure' \in BOOLEAN /\ GlobalAgrees'
<1>1. levels' \in [Keys -> Levels] BY DEF SetBackpressure
<1>2. CASE levels[key] = level
  <2>1. levels' = levels /\ globalBackpressure' = globalBackpressure BY <1>2 DEF SetBackpressure
  <2> QED BY <1>1, <2>1 DEF GlobalAgrees
<1>3. CASE levels[key] # level
  <2>1. globalBackpressure' = \E k \in Keys : levels'[k] >= 1
    BY <1>3 DEF SetBackpressure, ComputeGlobal, WARNING
  <2>2. \A k \in Keys : levels'[k] >= 1 <=> levels'[k] # 0 BY <1>1, LevelsAre
  <2> QED BY <1>1, <2>1, <2>2, LevelsAre DEF GlobalAgrees
<1> QED BY <1>2, <1>3

SocketTypes ==
  /\ socket \in [Sensors -> {"closed", "open", "paused"}]
  /\ connection \in [Sensors -> Nat] /\ accepted \in Nat
  /\ intervals \subseteq [sensor : Sensors, connection : Nat]
StreamTypes ==
  /\ window \in Seq(Nat) /\ windowPaused \in BOOLEAN /\ stalled \in BOOLEAN
  /\ written \in Nat /\ dropped \in Nat /\ taken \in Nat
LevelTypes == levels \in [Keys -> Levels] /\ globalBackpressure \in BOOLEAN

\* A frame is written, or frames are read: the types stay.
LEMMA WriteTypes == ASSUME StreamTypes, Write PROVE StreamTypes'
<1>1. CASE Len(window) >= Capacity
  <2>1. window # <<>> BY <1>1, CapacityAssumption DEF StreamTypes
  <2>2. Tail(window) \in Seq(Nat) BY <2>1 DEF StreamTypes
  <2>3. written' \in Nat BY DEF Write, StreamTypes
  <2>4. window' \in Seq(Nat) BY <1>1, <2>2, <2>3 DEF Write
  <2> QED BY <1>1, <2>3, <2>4 DEF Write, StreamTypes
<1>2. CASE ~(Len(window) >= Capacity)
  <2>1. written' \in Nat BY DEF Write, StreamTypes
  <2>2. window' \in Seq(Nat) BY <1>2, <2>1 DEF Write, StreamTypes
  <2> QED BY <1>2, <2>1, <2>2 DEF Write, StreamTypes
<1> QED BY <1>1, <1>2

\* A read keeps the stream's types.
LEMMA ReadTypes == ASSUME StreamTypes, NEW n \in 0..Capacity, Read(n) PROVE StreamTypes'
<1>1. window' \in Seq(Nat) BY DEF Read, StreamTypes
<1>2. taken' \in Nat BY CapacityAssumption DEF Read, StreamTypes
<1> QED BY <1>1, <1>2 DEF Read, StreamTypes

(***************************************************************************)
(* Levels and sockets.                                                     *)
(***************************************************************************)
FlagInv == LevelTypes /\ SocketTypes /\ StreamTypes /\ GlobalAgrees /\ HeldSocketsWait

\* While the flag is down nobody is held.
LEMMA NobodyHeld ==
  ASSUME HeldSocketsWait, GlobalAgrees, ~globalBackpressure, NEW s \in Sensors
  PROVE  socket[s] # "paused"
<1>1. s \in Keys /\ CRITICAL # NORMAL BY LevelsAre
<1>2. levels[s] = NORMAL BY <1>1 DEF GlobalAgrees
<1> QED BY <1>1, <1>2 DEF HeldSocketsWait

\* In the beginning the flag agrees.
LEMMA FlagInit == GatewayInit => FlagInv
<1> SUFFICES ASSUME GatewayInit PROVE FlagInv
  OBVIOUS
<1> USE DEF GatewayInit, BackpressureInit
<1>1. LevelTypes BY LevelsAre DEF LevelTypes
<1>2. SocketTypes BY DEF SocketTypes
<1>3. StreamTypes
  <2>1. window \in Seq(Nat) OBVIOUS
  <2>2. windowPaused \in BOOLEAN /\ stalled \in BOOLEAN OBVIOUS
  <2>3. written \in Nat /\ dropped \in Nat /\ taken \in Nat OBVIOUS
  <2> QED BY <2>1, <2>2, <2>3 DEF StreamTypes
<1>4. GlobalAgrees BY DEF GlobalAgrees
<1>5. HeldSocketsWait BY DEF HeldSocketsWait
<1> QED BY <1>1, <1>2, <1>3, <1>4, <1>5 DEF FlagInv

\* Every step keeps the flag in agreement.
LEMMA FlagStep == FlagInv /\ [GatewayNext]_gatewayVars => FlagInv'
<1> SUFFICES ASSUME FlagInv, [GatewayNext]_gatewayVars PROVE FlagInv'
  OBVIOUS
<1> USE DEF FlagInv, LevelTypes, SocketTypes
<1>1. ASSUME NEW s \in Sensors, Accept(s) PROVE FlagInv'
  <2>1. LevelTypes' /\ StreamTypes' /\ GlobalAgrees' BY <1>1 DEF Accept, GlobalAgrees, StreamTypes, streamVars
  <2>2. SocketTypes' BY <1>1 DEF Accept
  <2>3. HeldSocketsWait' BY <1>1 DEF Accept, HeldSocketsWait
  <2> QED BY <2>1, <2>2, <2>3
<1>2. ASSUME NEW s \in Sensors, Store(s) PROVE FlagInv'
  <2>1. StreamTypes' BY <1>2, WriteTypes DEF Store
  <2>2. \E level \in Levels : SetBackpressure(s, level) BY <1>2, LevelsAre DEF Store
  <2>3. LevelTypes' /\ GlobalAgrees' BY <2>2, SetKeepsFlag, LevelsAre
  <2>4. SocketTypes' BY <1>2 DEF Store, socketVars
  <2>5. \A r \in Sensors : socket[r] # "paused"
    BY <1>2, NobodyHeld DEF Store
  <2>6. HeldSocketsWait' BY <1>2, <2>5 DEF Store, socketVars, HeldSocketsWait
  <2> QED BY <2>1, <2>3, <2>4, <2>6
<1>3. ASSUME NEW s \in Sensors, Hold(s) PROVE FlagInv'
  <2>1. LevelTypes' /\ GlobalAgrees' BY <1>3, SetKeepsFlag, LevelsAre DEF Hold
  <2>2. SocketTypes' BY <1>3 DEF Hold
  <2>3. StreamTypes' BY <1>3 DEF Hold, StreamTypes, streamVars
  <2>4. levels' = [levels EXCEPT ![s] = CRITICAL] BY <1>3 DEF Hold, SetBackpressure
  <2>5. HeldSocketsWait'
    <3>1. SUFFICES ASSUME NEW r \in Sensors, socket'[r] = "paused"
                   PROVE  levels'[r] = CRITICAL /\ [sensor |-> r, connection |-> connection'[r]] \in intervals'
      BY DEF HeldSocketsWait
    <3>2. CASE r = s BY <1>3, <2>4, <3>2, LevelsAre DEF Hold
    <3>3. CASE r # s BY <1>3, <2>4, <3>1, <3>3, LevelsAre DEF Hold, HeldSocketsWait
    <3> QED BY <3>2, <3>3
  <2> QED BY <2>1, <2>2, <2>3, <2>5
<1>4. ASSUME NEW s \in Sensors, Close(s) PROVE FlagInv'
  <2>1. LevelTypes' /\ GlobalAgrees' BY <1>4, SetKeepsFlag, LevelsAre DEF Close
  <2>2. SocketTypes' BY <1>4 DEF Close
  <2>3. StreamTypes' BY <1>4 DEF Close, StreamTypes, streamVars
  <2>4. levels' = [levels EXCEPT ![s] = NORMAL] BY <1>4 DEF Close, SetBackpressure
  <2>5. HeldSocketsWait' BY <1>4, <2>4, LevelsAre DEF Close, HeldSocketsWait
  <2> QED BY <2>1, <2>2, <2>3, <2>5
<1>5. ASSUME NEW t \in intervals, CheckInterval(t) PROVE FlagInv'
  <2>1. t.sensor \in Sensors OBVIOUS
  <2>2. LevelTypes' /\ GlobalAgrees' BY <1>5, <2>1, SetKeepsFlag, LevelsAre DEF CheckInterval
  <2>3. \A r \in Sensors : socket[r] # "paused"
    BY <1>5, NobodyHeld DEF CheckInterval
  <2>4. socket' = socket BY <1>5, <2>1, <2>3 DEF CheckInterval
  <2>5. SocketTypes' BY <1>5, <2>4 DEF CheckInterval
  <2>6. StreamTypes' BY <1>5 DEF CheckInterval, StreamTypes, streamVars
  <2>7. HeldSocketsWait' BY <2>3, <2>4 DEF HeldSocketsWait
  <2> QED BY <2>2, <2>5, <2>6, <2>7
<1>6. ASSUME NEW n \in 0..Capacity, Read(n) PROVE FlagInv'
  <2>1. StreamTypes' BY <1>6, ReadTypes
  <2>2. LevelTypes' /\ SocketTypes' BY <1>6 DEF Read, socketVars
  <2>3. GlobalAgrees' /\ HeldSocketsWait' BY <1>6 DEF Read, socketVars, GlobalAgrees, HeldSocketsWait
  <2> QED BY <2>1, <2>2, <2>3
<1>7. ASSUME NEW level \in Levels, UpdateBackpressure(level) PROVE FlagInv'
  <2>1. LevelTypes' /\ GlobalAgrees' BY <1>7, SetKeepsFlag, LevelsAre DEF UpdateBackpressure
  <2>2. SocketTypes' BY <1>7 DEF UpdateBackpressure, socketVars
  <2>3. StreamTypes' BY <1>7 DEF UpdateBackpressure, StreamTypes, streamVars
  <2>4. levels' = [levels EXCEPT ![ConnectionPool] = level] BY <1>7 DEF UpdateBackpressure, SetBackpressure
  <2>5. HeldSocketsWait' BY <1>7, <2>4, LevelsAre DEF UpdateBackpressure, socketVars, HeldSocketsWait
  <2> QED BY <2>1, <2>2, <2>3, <2>5
<1>8. ASSUME UNCHANGED gatewayVars PROVE FlagInv'
  BY <1>8 DEF gatewayVars, streamVars, socketVars, StreamTypes, GlobalAgrees, HeldSocketsWait
<1> QED BY <1>1, <1>2, <1>3, <1>4, <1>5, <1>6, <1>7, <1>8 DEF GatewayNext

\* backpressure.ts:14-32: for any number of sensors the flag is up exactly
\* while some key is above NORMAL.
THEOREM FlagAgrees == GatewaySpec => []GlobalAgrees
<1>1. FlagInv => GlobalAgrees BY DEF FlagInv
<1> QED BY FlagInit, FlagStep, <1>1, PTL DEF GatewaySpec

\* gateway.ts:52-65: a paused socket is CRITICAL and its interval is set.
THEOREM HeldWait == GatewaySpec => []HeldSocketsWait
<1>1. FlagInv => HeldSocketsWait BY DEF FlagInv
<1> QED BY FlagInit, FlagStep, <1>1, PTL DEF GatewaySpec

\* Whoever stores a frame, and any interval that acts, finds no level raised.
LEMMA ReleaseStep ==
  ASSUME FlagInv, GatewayNext, NEW s \in Sensors, levels[s] # NORMAL, levels'[s] = NORMAL
  PROVE  socket'[s] = "closed"
<1> USE DEF FlagInv, LevelTypes, SocketTypes
<1>1. globalBackpressure BY LevelsAre DEF GlobalAgrees
<1>2. ASSUME NEW r \in Sensors, Accept(r) PROVE FALSE BY <1>2 DEF Accept
<1>3. ASSUME NEW r \in Sensors, Store(r) PROVE FALSE BY <1>1, <1>3 DEF Store
<1>4. ASSUME NEW r \in Sensors, Hold(r) PROVE FALSE
  <2>1. levels' = [levels EXCEPT ![r] = CRITICAL] BY <1>4 DEF Hold, SetBackpressure
  <2> QED BY <2>1, LevelsAre
<1>5. ASSUME NEW r \in Sensors, Close(r) PROVE socket'[s] = "closed"
  <2>1. levels' = [levels EXCEPT ![r] = NORMAL] BY <1>5 DEF Close, SetBackpressure
  <2>2. s = r BY <2>1, LevelsAre
  <2> QED BY <1>5, <2>2 DEF Close
<1>6. ASSUME NEW t \in intervals, CheckInterval(t) PROVE FALSE BY <1>1, <1>6 DEF CheckInterval
<1>7. ASSUME NEW n \in 0..Capacity, Read(n) PROVE FALSE BY <1>7 DEF Read
<1>8. ASSUME NEW level \in Levels, UpdateBackpressure(level) PROVE FALSE
  <2>1. levels' = [levels EXCEPT ![ConnectionPool] = level] BY <1>8 DEF UpdateBackpressure, SetBackpressure
  <2> QED BY <2>1, LevelsAre
<1> QED BY <1>2, <1>3, <1>4, <1>5, <1>6, <1>7, <1>8 DEF GatewayNext

\* gateway.ts:53-61: for any number of sensors and any load, a level once
\* raised returns to NORMAL only when its sensor hangs up.
THEOREM HangUpsAlone == GatewaySpec => OnlyHangUpsRelease
<1>1. ASSUME FlagInv, [GatewayNext]_gatewayVars
      PROVE  [\A s \in Sensors : levels[s] # NORMAL /\ levels'[s] = NORMAL => socket'[s] = "closed"]_gatewayVars
  <2>1. CASE GatewayNext BY <1>1, <2>1, ReleaseStep
  <2>2. CASE UNCHANGED gatewayVars BY <2>2
  <2> QED BY <1>1, <2>1, <2>2
<1> QED BY FlagInit, FlagStep, <1>1, PTL DEF GatewaySpec, OnlyHangUpsRelease

(***************************************************************************)
(* The window.                                                             *)
(***************************************************************************)
WindowInv == StreamTypes /\ WindowIsNewest /\ Len(window) <= Capacity

\* The window and its counters after a frame is written, or frames are read.
LEMMA WindowWritten ==
  ASSUME WindowInv, Write
  PROVE  /\ WindowInv'
         /\ windowPaused' = (windowPaused \/ Len(window') >= HighWatermark)
         /\ IF Len(window) = Capacity
            THEN dropped' = dropped + 1 /\ Len(window') = Len(window)
            ELSE dropped' = dropped /\ Len(window') = Len(window) + 1
<1> USE DEF WindowInv, StreamTypes
<1>1. Len(window) \in Nat /\ Capacity \in Nat /\ Capacity > 0 BY CapacityAssumption
<1>2. StreamTypes' BY WriteTypes
<1>3. written' = written + 1 /\ taken' = taken BY DEF Write
<1>4. CASE Len(window) = Capacity
  <2>1. window # <<>> BY <1>1, <1>4
  <2>2. Tail(window) \in Seq(Nat) /\ Len(Tail(window)) = Len(window) - 1
        /\ \A i \in 1..Len(window) - 1 : Tail(window)[i] = window[i + 1]
    BY <2>1
  <2>3. window' = Append(Tail(window), written') /\ dropped' = dropped + 1
    BY <1>1, <1>4 DEF Write
  <2>4. Len(window') = Len(window) BY <1>1, <2>2, <2>3
  <2>5. ASSUME NEW i \in 1..Len(window') PROVE window'[i] = written' - Len(window') + i
    <3>1. CASE i = Len(window) BY <1>1, <1>2, <2>2, <2>3, <2>4, <3>1
    <3>2. CASE i < Len(window)
      <4>1. i \in 1..Len(window) - 1 /\ i + 1 \in 1..Len(window) BY <1>1, <2>4, <3>2
      <4>2. window'[i] = window[i + 1] BY <1>2, <2>2, <2>3, <4>1
      <4>3. window[i + 1] = written - Len(window) + (i + 1) BY <4>1 DEF WindowIsNewest
      <4> QED BY <1>1, <1>3, <2>4, <4>2, <4>3
    <3> QED BY <1>1, <2>4, <3>1, <3>2
  <2>6. WindowIsNewest'
    <3>1. written = dropped + taken + Len(window) BY DEF WindowIsNewest
    <3>2. dropped' = dropped + 1 BY <2>3
    <3>3. written' = dropped' + taken' + Len(window') BY <1>1, <1>3, <2>4, <3>1, <3>2
    <3> QED BY <2>5, <3>3 DEF WindowIsNewest
  <2> QED BY <1>1, <1>2, <1>4, <2>3, <2>4, <2>6 DEF Write
<1>5. CASE Len(window) < Capacity
  <2>1. window' = Append(window, written') /\ dropped' = dropped BY <1>1, <1>5 DEF Write
  <2>2. Len(window') = Len(window) + 1 BY <2>1
  <2>3. ASSUME NEW i \in 1..Len(window') PROVE window'[i] = written' - Len(window') + i
    <3>1. CASE i = Len(window) + 1 BY <1>1, <1>2, <2>1, <2>2, <3>1
    <3>2. CASE i < Len(window) + 1
      <4>1. i \in 1..Len(window) BY <1>1, <2>2, <3>2
      <4>2. window'[i] = window[i] BY <1>2, <2>1, <4>1
      <4>3. window[i] = written - Len(window) + i BY <4>1 DEF WindowIsNewest
      <4> QED BY <1>1, <1>3, <2>2, <4>2, <4>3
    <3> QED BY <1>1, <2>2, <3>1, <3>2
  <2>4. WindowIsNewest'
    <3>1. written' = dropped' + taken' + Len(window')
      BY <1>1, <1>3, <2>1, <2>2 DEF WindowIsNewest
    <3> QED BY <2>3, <3>1 DEF WindowIsNewest
  <2> QED BY <1>1, <1>2, <1>5, <2>1, <2>2, <2>4 DEF Write
<1> QED BY <1>1, <1>4, <1>5

\* What is left of a sequence without its first n elements.
LEMMA RestOf ==
  ASSUME NEW s \in Seq(Nat), NEW n \in Nat, n <= Len(s)
  PROVE  /\ Len(SubSeq(s, n + 1, Len(s))) = Len(s) - n
         /\ \A i \in 1..Len(SubSeq(s, n + 1, Len(s))) : SubSeq(s, n + 1, Len(s))[i] = s[n + i]
<1>1. Len(s) \in Nat /\ n + 1 \in Int /\ Len(s) \in Int OBVIOUS
<1>2. \A i \in n + 1..Len(s) : s[i] \in Nat OBVIOUS
<1> DEFINE r == SubSeq(s, n + 1, Len(s))
<1>3. /\ Len(r) = IF n + 1 <= Len(s) THEN Len(s) - (n + 1) + 1 ELSE 0
      /\ \A i \in 1..Len(s) - (n + 1) + 1 : r[i] = s[(n + 1) + i - 1]
  BY <1>1, <1>2, SubSeqProperties
<1> HIDE DEF r
<1>4. Len(r) = Len(s) - n BY <1>1, <1>3
<1>5. ASSUME NEW i \in 1..Len(r) PROVE r[i] = s[n + i]
  <2>1. i \in 1..Len(s) - (n + 1) + 1 BY <1>1, <1>4
  <2>2. (n + 1) + i - 1 = n + i BY <1>1, <2>1
  <2> QED BY <1>3, <2>1, <2>2
<1> QED BY <1>4, <1>5 DEF r

\* A read takes the oldest frames of the window.
LEMMA WindowRead ==
  ASSUME WindowInv, NEW n \in 0..Capacity, Read(n)
  PROVE  /\ WindowInv' /\ dropped' = dropped /\ Len(window') = Len(window) - n
         /\ windowPaused' = (windowPaused /\ Len(window') > LowWatermark)
<1> USE DEF WindowInv, StreamTypes
<1>1. Len(window) \in Nat /\ n \in Nat /\ n <= Len(window) BY CapacityAssumption DEF Read
<1>2. StreamTypes' BY ReadTypes
<1>3. window' = SubSeq(window, n + 1, Len(window)) /\ taken' = taken + n
      /\ written' = written /\ dropped' = dropped
  BY DEF Read
<1>4. /\ Len(window') = Len(window) - n
      /\ \A i \in 1..Len(window') : window'[i] = window[n + i]
  <2>1. window \in Seq(Nat) OBVIOUS
  <2> QED BY <1>1, <1>3, <2>1, RestOf
<1>5. ASSUME NEW i \in 1..Len(window') PROVE window'[i] = written' - Len(window') + i
  <2>1. n + i \in 1..Len(window) BY <1>1, <1>4
  <2>2. window'[i] = window[n + i] BY <1>4
  <2>3. window[n + i] = written - Len(window) + (n + i) BY <2>1 DEF WindowIsNewest
  <2>4. written' = written /\ Len(window') = Len(window) - n BY <1>3, <1>4
  <2>5. i \in Int /\ written \in Int BY <2>1
  <2> QED BY <1>1, <2>2, <2>3, <2>4, <2>5
<1>6. WindowIsNewest'
  <2>1. written = dropped + taken + Len(window) BY DEF WindowIsNewest
  <2>2. dropped' = dropped /\ taken' = taken + n /\ written' = written BY <1>3
  <2>3. Len(window') = Len(window) - n BY <1>4
  <2>4. written' = dropped' + taken' + Len(window') BY <1>1, <2>1, <2>2, <2>3
  <2> QED BY <1>5, <2>4 DEF WindowIsNewest
<1> QED BY <1>1, <1>2, <1>3, <1>4, <1>6, CapacityAssumption DEF Read

\* In the beginning the window is the newest of nothing.
LEMMA WindowInit == GatewayInit => WindowInv
<1> SUFFICES ASSUME GatewayInit PROVE WindowInv
  OBVIOUS
<1>1. StreamTypes BY FlagInit DEF FlagInv
<1>2. window = <<>> /\ written = 0 /\ dropped = 0 /\ taken = 0 BY DEF GatewayInit
<1>3. Len(window) = 0 BY <1>2
<1> QED BY <1>1, <1>2, <1>3, CapacityAssumption DEF WindowInv, WindowIsNewest

\* Only a stored frame and a read touch the window.
LEMMA OtherwiseKept ==
  ASSUME [GatewayNext]_gatewayVars
  PROVE  \/ \E s \in Sensors : Store(s)
         \/ \E n \in 0..Capacity : Read(n)
         \/ streamVars' = streamVars
BY DEF GatewayNext, Accept, Hold, Close, CheckInterval, UpdateBackpressure, gatewayVars

\* Every step keeps the newest frames in the window.
LEMMA WindowStep == WindowInv /\ [GatewayNext]_gatewayVars => WindowInv'
<1> SUFFICES ASSUME WindowInv, [GatewayNext]_gatewayVars PROVE WindowInv'
  OBVIOUS
<1>1. CASE \E s \in Sensors : Store(s) BY <1>1, WindowWritten DEF Store
<1>2. CASE \E n \in 0..Capacity : Read(n) BY <1>2, WindowRead
<1>3. CASE streamVars' = streamVars
  BY <1>3 DEF streamVars, WindowInv, StreamTypes, WindowIsNewest
<1> QED BY <1>1, <1>2, <1>3, OtherwiseKept

\* buffer_manager.ts:31-58: for any window size the window holds the newest
\* frames in their order, and every other frame was read or dropped.
THEOREM NewestKept == GatewaySpec => []WindowIsNewest
<1>1. WindowInv => WindowIsNewest BY DEF WindowInv
<1> QED BY WindowInit, WindowStep, <1>1, PTL DEF GatewaySpec

(***************************************************************************)
(* Drops.  A window of one frame pauses at once and resumes never, so the  *)
(* two facts about its watermarks need a window of two.                    *)
(***************************************************************************)
LEMMA Watermarks ==
  ASSUME Capacity >= 2
  PROVE  /\ HighWatermark \in Nat /\ LowWatermark \in Nat /\ HighWatermark >= 1
         /\ LowWatermark < HighWatermark /\ HighWatermark < Capacity
BY CapacityAssumption DEF HighWatermark, LowWatermark

PausedInv == FlagInv /\ WindowInv /\ Hysteresis

\* In the beginning nothing is paused.
LEMMA PausedInit == ASSUME Capacity >= 2, GatewayInit PROVE PausedInv
<1>1. Len(window) = 0 /\ ~windowPaused BY DEF GatewayInit
<1>2. Hysteresis BY <1>1, Watermarks DEF Hysteresis
<1> QED BY <1>2, FlagInit, WindowInit DEF PausedInv

\* Every step keeps the pauses between the watermarks.
LEMMA PausedStep ==
  ASSUME Capacity >= 2, PausedInv, [GatewayNext]_gatewayVars PROVE PausedInv'
<1> USE DEF PausedInv
<1>1. FlagInv' /\ WindowInv' BY FlagStep, WindowStep
<1>2. Len(window) \in Nat /\ Len(window') \in Nat /\ windowPaused \in BOOLEAN
  BY <1>1 DEF WindowInv, StreamTypes
<1>3. Hysteresis'
  <2>1. CASE \E s \in Sensors : Store(s)
    <3>1. Write BY <2>1 DEF Store
    <3>2. windowPaused' = (windowPaused \/ Len(window') >= HighWatermark) BY <3>1, WindowWritten
    <3>3. Len(window') >= Len(window) BY <1>2, <3>1, WindowWritten
    <3>4. CASE windowPaused'
      <4>1. Len(window') > LowWatermark
        BY <1>2, <3>2, <3>3, <3>4, Watermarks DEF Hysteresis
      <4> QED BY <3>4, <4>1 DEF Hysteresis, LowWatermark
    <3>5. CASE ~windowPaused'
      <4>1. ~(Len(window') >= HighWatermark) BY <3>2, <3>5
      <4>2. Len(window') < HighWatermark BY <1>2, <4>1, Watermarks
      <4> QED BY <3>5, <4>2 DEF Hysteresis, HighWatermark
    <3> QED BY <3>4, <3>5
  <2>2. CASE \E n \in 0..Capacity : Read(n)
    <3>1. PICK n \in 0..Capacity : Read(n) BY <2>2
    <3>2. windowPaused' = (windowPaused /\ Len(window') > LowWatermark)
          /\ Len(window') = Len(window) - n
      BY <3>1, WindowRead
    <3>3. CASE windowPaused' BY <3>2, <3>3 DEF Hysteresis, LowWatermark
    <3>4. CASE ~windowPaused'
      <4>1. n >= 0 /\ n \in Int BY <3>1
      <4>2. Len(window') <= Len(window) BY <1>2, <3>2, <4>1
      <4>3. ASSUME windowPaused PROVE Len(window') < HighWatermark
        <5>1. ~(Len(window') > LowWatermark) BY <3>2, <3>4, <4>3
        <5> QED BY <1>2, <5>1, Watermarks
      <4>4. ASSUME ~windowPaused PROVE Len(window') < HighWatermark
        <5>1. Len(window) < HighWatermark BY <4>4 DEF Hysteresis
        <5> QED BY <1>2, <4>2, <5>1, Watermarks
      <4>5. Len(window') < HighWatermark BY <4>3, <4>4
      <4> QED BY <3>4, <4>5 DEF Hysteresis, HighWatermark
    <3> QED BY <3>3, <3>4
  <2>3. CASE streamVars' = streamVars
    BY <2>3 DEF streamVars, Hysteresis, HighWatermark, LowWatermark
  <2> QED BY <2>1, <2>2, <2>3, OtherwiseKept
<1> QED BY <1>1, <1>3

\* buffer_manager.ts:41-57: the window pauses at the high watermark and stays
\* paused down to the low one, for every window of at least two frames.
THEOREM PausesBetween == Capacity >= 2 => (GatewaySpec => []Hysteresis)
<1> SUFFICES ASSUME Capacity >= 2 PROVE GatewaySpec => []Hysteresis
  OBVIOUS
<1>1. GatewayInit => PausedInv BY PausedInit
<1>2. PausedInv /\ [GatewayNext]_gatewayVars => PausedInv' BY PausedStep
<1>3. PausedInv => Hysteresis BY DEF PausedInv
<1> QED BY <1>1, <1>2, <1>3, PTL DEF GatewaySpec

\* There are as many hang-ups as the window holds above the watermark, all but
\* one while a sensor whose level is raised has still to make its own.
Open     == {s \in Sensors : socket[s] # "closed"}
HungUp   == accepted - Cardinality(Open)
Raised   == \E s \in Sensors : levels[s] # NORMAL
Needed   == IF dropped > 0 THEN dropped + Capacity - HighWatermark + 1
            ELSE IF Len(window) >= HighWatermark THEN Len(window) - HighWatermark + 1 ELSE 0
DropInv  == /\ FlagInv /\ WindowInv /\ IsFiniteSet(Open)
            /\ HungUp + 1 >= Needed /\ (Raised \/ HungUp >= Needed)

\* The counts of frames and hang-ups are numbers.
LEMMA DropTypes ==
  ASSUME Capacity >= 2, DropInv
  PROVE  /\ HungUp \in Int /\ Needed \in Nat /\ Len(window) \in Nat /\ dropped \in Nat
         /\ Cardinality(Open) \in Nat /\ accepted \in Nat
<1> USE DEF DropInv
<1>1. Len(window) \in Nat /\ dropped \in Nat BY DEF WindowInv, StreamTypes
<1>2. accepted \in Nat BY DEF FlagInv, SocketTypes
<1>3. Cardinality(Open) \in Nat BY FS_CardinalityType
<1>4. HungUp \in Int BY <1>2, <1>3 DEF HungUp
<1>5. Needed \in Nat BY <1>1, Watermarks, CapacityAssumption DEF Needed
<1> QED BY <1>1, <1>2, <1>3, <1>4, <1>5

\* In the beginning nothing is lost.
LEMMA DropInit == ASSUME Capacity >= 2, GatewayInit PROVE DropInv
<1>1. Open = {} BY DEF GatewayInit, Open
<1>2. IsFiniteSet(Open) /\ Cardinality(Open) = 0 BY <1>1, FS_EmptySet
<1>3. accepted = 0 /\ dropped = 0 /\ Len(window) = 0 BY DEF GatewayInit
<1>4. Needed = 0 BY <1>3, Watermarks DEF Needed
<1>5. HungUp = 0 BY <1>2, <1>3 DEF HungUp
<1> QED BY <1>2, <1>4, <1>5, FlagInit, WindowInit DEF DropInv

\* While the flag is down no sensor is raised.
LEMMA NobodyRaised == ASSUME FlagInv, ~globalBackpressure PROVE ~Raised
BY LevelsAre DEF FlagInv, GlobalAgrees, Raised

\* Every step keeps the losses within what hang-ups explain.
LEMMA DropStep == ASSUME Capacity >= 2, DropInv, [GatewayNext]_gatewayVars PROVE DropInv'
<1> USE DEF DropInv
<1>1. FlagInv' /\ WindowInv' /\ HighWatermark' = HighWatermark
  BY FlagStep, WindowStep DEF HighWatermark
<1>2. /\ HungUp \in Int /\ Needed \in Nat /\ Len(window) \in Nat /\ dropped \in Nat
      /\ Cardinality(Open) \in Nat /\ accepted \in Nat
  BY DropTypes
<1>3. HungUp + 1 >= Needed /\ (Raised \/ HungUp >= Needed) OBVIOUS
<1>4. Len(window') \in Nat BY <1>1 DEF WindowInv, StreamTypes
<1>5. levels \in [Keys -> Levels] BY DEF FlagInv, LevelTypes
<1>6. ASSUME NEW s \in Sensors, Accept(s) PROVE DropInv'
  <2>1. Open' = Open \cup {s} /\ s \notin Open
    BY <1>6 DEF Accept, Open, FlagInv, SocketTypes
  <2>2. IsFiniteSet(Open') /\ Cardinality(Open') = Cardinality(Open) + 1 BY <2>1, FS_AddElement
  <2>3. HungUp' = HungUp BY <1>2, <1>6, <2>2 DEF Accept, HungUp
  <2>4. Raised' = Raised BY <1>6 DEF Accept, Raised
  <2>5. Needed' = Needed BY <1>1, <1>6 DEF Accept, streamVars, Needed
  <2> QED BY <1>1, <1>3, <2>2, <2>3, <2>4, <2>5
<1>7. ASSUME NEW s \in Sensors, Close(s) PROVE DropInv'
  <2>1. Open' = Open \ {s} /\ s \in Open
    BY <1>7 DEF Close, Open, FlagInv, SocketTypes
  <2>2. IsFiniteSet(Open') /\ Cardinality(Open') = Cardinality(Open) - 1 BY <2>1, FS_RemoveElement
  <2>3. HungUp' = HungUp + 1 BY <1>2, <1>7, <2>2 DEF Close, HungUp
  <2>4. Needed' = Needed BY <1>1, <1>7 DEF Close, streamVars, Needed
  <2>5. HungUp' + 1 >= Needed' /\ HungUp' >= Needed' BY <1>2, <1>3, <2>3, <2>4
  <2> QED BY <1>1, <2>2, <2>5
<1>8. ASSUME Open' = Open, accepted' = accepted, streamVars' = streamVars, Raised => Raised'
      PROVE  DropInv'
  <2>1. HungUp' = HungUp BY <1>8 DEF HungUp
  <2>2. Needed' = Needed BY <1>1, <1>8 DEF streamVars, Needed
  <2> QED BY <1>1, <1>3, <1>8, <2>1, <2>2
<1>9. ASSUME NEW s \in Sensors, Hold(s) PROVE DropInv'
  <2>1. Open' = Open BY <1>9 DEF Hold, Open, FlagInv, SocketTypes
  <2>2. levels'[s] # NORMAL BY <1>5, <1>9, LevelsAre DEF Hold, SetBackpressure
  <2>3. Raised' BY <2>2 DEF Raised, NORMAL
  <2> QED BY <1>8, <1>9, <2>1, <2>3 DEF Hold
<1>10. ASSUME NEW t \in intervals, CheckInterval(t) PROVE DropInv'
  <2>1. t.sensor \in Sensors BY DEF FlagInv, SocketTypes
  <2>2. Open' = Open BY <1>10, <2>1 DEF CheckInterval, Open, FlagInv, SocketTypes
  <2>3. ~Raised BY <1>10, NobodyRaised DEF CheckInterval
  <2> QED BY <1>8, <1>10, <2>2, <2>3 DEF CheckInterval
<1>11. ASSUME NEW level \in Levels, UpdateBackpressure(level) PROVE DropInv'
  <2>1. \A s \in Sensors : levels'[s] = levels[s]
    BY <1>5, <1>11, LevelsAre DEF UpdateBackpressure, SetBackpressure
  <2>2. Raised' = Raised BY <2>1 DEF Raised, NORMAL
  <2>3. Open' = Open /\ accepted' = accepted BY <1>11 DEF UpdateBackpressure, socketVars, Open
  <2> QED BY <1>8, <1>11, <2>2, <2>3 DEF UpdateBackpressure
<1>12. ASSUME NEW n \in 0..Capacity, Read(n) PROVE DropInv'
  <2>1. dropped' = dropped /\ Len(window') = Len(window) - n BY <1>12, WindowRead
  <2>2. n \in Nat BY CapacityAssumption
  <2>3. Needed' <= Needed /\ Needed' \in Nat
    BY <1>1, <1>2, <1>4, <2>1, <2>2, Watermarks, CapacityAssumption DEF Needed
  <2>4. Open' = Open /\ accepted' = accepted BY <1>12 DEF Read, socketVars, Open
  <2>5. Raised' = Raised BY <1>12 DEF Read, Raised
  <2>6. HungUp' = HungUp BY <2>4 DEF HungUp
  <2>7. HungUp' + 1 >= Needed' BY <1>2, <1>3, <2>3, <2>6
  <2>8. HungUp >= Needed => HungUp' >= Needed' BY <1>2, <2>3, <2>6
  <2> QED BY <1>1, <1>3, <2>4, <2>5, <2>7, <2>8
<1>13. ASSUME NEW s \in Sensors, Store(s) PROVE DropInv'
  <2>1. Write /\ ~globalBackpressure BY <1>13 DEF Store
  <2>2. HungUp >= Needed BY <1>3, <2>1, NobodyRaised
  <2>3. Open' = Open /\ accepted' = accepted BY <1>13 DEF Store, socketVars, Open
  <2>4. HungUp' = HungUp BY <2>3 DEF HungUp
  <2>5. ASSUME Len(window') >= HighWatermark, HungUp + 1 >= Needed' PROVE DropInv'
    <3>1. windowPaused' BY <2>1, <2>5, WindowWritten
    <3>2. levels'[s] # NORMAL BY <1>5, <1>13, <3>1, LevelsAre DEF Store, SetBackpressure
    <3>3. Raised' BY <3>2 DEF Raised, NORMAL
    <3> QED BY <1>1, <2>3, <2>4, <2>5, <3>3
  <2>6. ASSUME Needed' <= Needed, Needed' \in Nat PROVE DropInv'
    <3>1. HungUp' >= Needed' /\ HungUp' + 1 >= Needed' BY <1>2, <2>2, <2>4, <2>6
    <3> QED BY <1>1, <2>3, <3>1
  <2>7. CASE Len(window) = Capacity
    <3>1. dropped' = dropped + 1 /\ Len(window') = Capacity BY <2>1, <2>7, WindowWritten
    <3>2. Needed' = dropped + 1 + Capacity - HighWatermark + 1
      BY <1>1, <1>2, <3>1, Watermarks DEF Needed
    <3>3. Needed = dropped + Capacity - HighWatermark + 1
      BY <1>2, <2>7, Watermarks, CapacityAssumption DEF Needed
    <3>4. HungUp + 1 >= Needed' BY <1>2, <2>2, <3>2, <3>3, Watermarks, CapacityAssumption
    <3>5. Len(window') >= HighWatermark BY <3>1, Watermarks, CapacityAssumption
    <3> QED BY <2>5, <3>4, <3>5
  <2>8. CASE Len(window) # Capacity
    <3>1. dropped' = dropped /\ Len(window') = Len(window) + 1 BY <2>1, <2>8, WindowWritten
    <3>2. CASE dropped > 0
      <4>1. Needed' = Needed BY <1>1, <3>1, <3>2 DEF Needed
      <4> QED BY <1>2, <2>6, <4>1
    <3>3. CASE ~(dropped > 0) /\ Len(window') >= HighWatermark
      <4>1. Needed' = Len(window) + 1 - HighWatermark + 1
        BY <1>1, <1>2, <3>1, <3>3, Watermarks DEF Needed
      <4>2. Needed >= Len(window) - HighWatermark + 1
        BY <1>2, <3>3, Watermarks DEF Needed
      <4>3. HungUp + 1 >= Needed' BY <1>2, <2>2, <4>1, <4>2, Watermarks
      <4> QED BY <2>5, <3>3, <4>3
    <3>4. CASE ~(dropped > 0) /\ ~(Len(window') >= HighWatermark)
      <4>1. Needed' = 0 BY <1>1, <3>1, <3>4 DEF Needed
      <4> QED BY <1>2, <2>6, <4>1
    <3> QED BY <3>2, <3>3, <3>4
  <2> QED BY <2>7, <2>8
<1>14. CASE UNCHANGED gatewayVars
  <2>1. Open' = Open /\ Raised' = Raised BY <1>14 DEF gatewayVars, socketVars, Open, Raised
  <2> QED BY <1>8, <1>14, <2>1 DEF gatewayVars, socketVars
<1> QED BY <1>6, <1>7, <1>9, <1>10, <1>11, <1>12, <1>13, <1>14 DEF GatewayNext

\* gateway.ts:52-76, 89-91: for any number of sensors and every window of at
\* least two frames, k lost frames need k hang-ups beyond the room above the
\* high watermark.
THEOREM LossNeedsHangUps == Capacity >= 2 => (GatewaySpec => []DropsNeedHangUps)
<1> SUFFICES ASSUME Capacity >= 2 PROVE GatewaySpec => []DropsNeedHangUps
  OBVIOUS
<1>1. GatewayInit => DropInv BY DropInit
<1>2. DropInv /\ [GatewayNext]_gatewayVars => DropInv' BY DropStep
<1>3. DropInv => DropsNeedHangUps
  <2> SUFFICES ASSUME DropInv, dropped > 0
               PROVE  dropped + (Capacity - HighWatermark) <= HungUp
    BY DEF DropsNeedHangUps, HungUp, Open
  <2>1. Needed = dropped + Capacity - HighWatermark + 1 BY DEF Needed
  <2> QED BY <2>1, DropTypes, Watermarks, CapacityAssumption DEF DropInv
<1> QED BY <1>1, <1>2, <1>3, PTL DEF GatewaySpec

\* gateway.ts:42-91, buffer_manager.ts:31-58: for any number of sensors and every
\* window of at least two frames, the flag, the levels, the sockets and the
\* window agree, and frames are lost only after the hang-ups they need.
THEOREM FlagSocketsAndWindow == Capacity >= 2 => (GatewaySpec => []BackpressureHolds)
<1> SUFFICES ASSUME Capacity >= 2 PROVE GatewaySpec => []BackpressureHolds
  OBVIOUS
<1>1. GatewaySpec => []Hysteresis BY PausesBetween
<1>2. GatewaySpec => []DropsNeedHangUps BY LossNeedsHangUps
<1>3. GlobalAgrees /\ HeldSocketsWait /\ WindowIsNewest /\ Hysteresis /\ DropsNeedHangUps
      => BackpressureHolds
  BY DEF BackpressureHolds
<1> QED BY <1>1, <1>2, <1>3, FlagAgrees, HeldWait, NewestKept, PTL

(***************************************************************************)
(* For any number of calls, batches and faults: what the 'minting' row     *)
(* alone guarantees.  The session lock is not needed for it: whoever finds *)
(* no row and inserts one is the only call that mints, until a catch block *)
(* deletes the row.                                                        *)
(***************************************************************************)
MintRow   == [status : {"none", "minting", "minted"}, id : Nat]
MintPCs   == Underway \cup {"idle", "done", "lost"}
Call_ == [pc : MintPCs, batch : Batches, id : Nat, answer : Nat]

MintTypes ==
  /\ certificates \in [Batches -> MintRow] /\ mintLock \in [Batches -> SUBSET MintCalls]
  /\ call \in [MintCalls -> Call_] /\ leaked \in Nat /\ cancelled \in [Batches -> Nat]
  /\ minted \subseteq [batch : Batches, id : Nat] /\ IsFiniteSet(minted)
  /\ \A c \in MintCalls : call[c].pc = "idle" => call[c].answer = 0

\* The certificates a batch has, and those on their way to the chain: one for
\* the row, if there is one, and one for every intent that was deleted.
Minting(b)   == {c \in MintCalls : call[c].batch = b /\ call[c].pc \in {"mint", "doomed"}}
MintedFor(b) == {m \in minted : m.batch = b}
CountInv ==
  \A b \in Batches :
    /\ IsFiniteSet(Minting(b)) /\ IsFiniteSet(MintedFor(b))
    /\ Cardinality(MintedFor(b)) + Cardinality(Minting(b)) <= 1 + cancelled[b]
    /\ certificates[b].status = "none"
         => Cardinality(MintedFor(b)) + Cardinality(Minting(b)) <= cancelled[b]

\* Until an intent of its batch is deleted, a call that mints or records owns the row.
Owns(c, b) == call[c].batch = b /\ call[c].pc \in {"mint", "update"}
SoleOwner ==
  \A b \in Batches : cancelled[b] = 0 =>
    \A c \in MintCalls : Owns(c, b) =>
      certificates[b].status = "minting" /\ \A d \in MintCalls : Owns(d, b) => c = d

\* What a call is about to record, and what a row holds, is on the chain.
OnChain(b, id) == [batch |-> b, id |-> id] \in minted
Backed ==
  /\ \A c \in MintCalls : call[c].pc = "update" => OnChain(call[c].batch, call[c].id)
  /\ \A b \in Batches : cancelled[b] = 0 /\ certificates[b].status = "minted" => OnChain(b, certificates[b].id)

MintInv == MintTypes /\ CountInv /\ SoleOwner /\ Backed /\ AnswersAreRecorded /\ IntentsAreOwned

(***************************************************************************)
(* How a call moves.                                                       *)
(***************************************************************************)
Moves(c, pc, answer) ==
  /\ call' \in [MintCalls -> Call_] /\ \A d \in MintCalls \ {c} : call'[d] = call[d]
  /\ call'[c].pc = pc /\ call'[c].batch = call[c].batch
  /\ call'[c].id = call[c].id /\ call'[c].answer = answer

\* A call that goes on moves and does nothing else.
LEMMA GotoMoves ==
  ASSUME call \in [MintCalls -> Call_], NEW c \in MintCalls, NEW pc \in MintPCs, Goto(c, pc)
  PROVE  Moves(c, pc, call[c].answer)
<1>1. call[c] \in Call_ OBVIOUS
<1>2. call' = [call EXCEPT ![c] = [call[c] EXCEPT !.pc = pc]] BY DEF Goto
<1>3. [call[c] EXCEPT !.pc = pc] \in Call_ BY <1>1 DEF Call_
<1>4. call'[c] = [call[c] EXCEPT !.pc = pc] BY <1>2
<1> QED BY <1>1, <1>2, <1>3, <1>4 DEF Moves, Call_

\* So does a call that answers.
LEMMA AnswerMoves ==
  ASSUME call \in [MintCalls -> Call_], NEW c \in MintCalls, NEW id \in Nat, Answer(c, id)
  PROVE  Moves(c, "unlock", id)
<1>1. call[c] \in Call_ /\ "unlock" \in MintPCs BY DEF MintPCs, Underway
<1>2. call' = [call EXCEPT ![c] = [call[c] EXCEPT !.pc = "unlock", !.answer = id]] BY DEF Answer
<1>3. [call[c] EXCEPT !.pc = "unlock", !.answer = id] \in Call_ BY <1>1 DEF Call_
<1>4. call'[c] = [call[c] EXCEPT !.pc = "unlock", !.answer = id] BY <1>2
<1> QED BY <1>1, <1>2, <1>3, <1>4 DEF Moves, Call_

\* Reading a row sends a call to its answer, or on when there is no row.
LEMMA AnswerFromMoves ==
  ASSUME call \in [MintCalls -> Call_], NEW c \in MintCalls, NEW row \in MintRow, NEW pc \in MintPCs,
         AnswerFrom(c, row, Goto(c, pc))
  PROVE  \/ row.status = "minted" /\ Moves(c, "unlock", row.id)
         \/ row.status = "minting" /\ Moves(c, "unlock", 0)
         \/ row.status = "none" /\ Moves(c, pc, call[c].answer)
<1>1. row.status \in {"none", "minting", "minted"} /\ row.id \in Nat BY DEF MintRow
<1>2. CASE row.status = "minted" BY <1>1, <1>2, AnswerMoves DEF AnswerFrom
<1>3. CASE row.status = "minting" BY <1>1, <1>3, AnswerMoves DEF AnswerFrom
<1>4. CASE row.status = "none" BY <1>1, <1>4, GotoMoves DEF AnswerFrom
<1> QED BY <1>1, <1>2, <1>3, <1>4

(***************************************************************************)
(* Counting.                                                               *)
(***************************************************************************)
LEMMA CountKept ==
  ASSUME MintTypes, MintTypes', CountInv, minted' = minted,
         \A b \in Batches : Minting(b)' \subseteq Minting(b),
         \A b \in Batches : \/ /\ cancelled'[b] = cancelled[b]
                               /\ certificates'[b].status = "none" => certificates[b].status = "none"
                            \/ cancelled'[b] = cancelled[b] + 1
  PROVE  CountInv'
<1> SUFFICES ASSUME NEW b \in Batches
    PROVE  /\ IsFiniteSet(Minting(b)') /\ IsFiniteSet(MintedFor(b)')
           /\ Cardinality(MintedFor(b)') + Cardinality(Minting(b)') <= 1 + cancelled'[b]
           /\ certificates'[b].status = "none"
                => Cardinality(MintedFor(b)') + Cardinality(Minting(b)') <= cancelled'[b]
  BY DEF CountInv
<1>1. MintedFor(b)' = MintedFor(b) BY DEF MintedFor
<1>2. IsFiniteSet(Minting(b)') /\ Cardinality(Minting(b)') <= Cardinality(Minting(b))
  BY FS_Subset DEF CountInv
<1>3. /\ Cardinality(Minting(b)) \in Nat /\ Cardinality(Minting(b)') \in Nat
      /\ Cardinality(MintedFor(b)) \in Nat /\ cancelled[b] \in Nat
  BY <1>2, FS_CardinalityType DEF CountInv, MintTypes
<1> QED BY <1>1, <1>2, <1>3 DEF CountInv

(***************************************************************************)
(* Steps that touch neither the row nor the chain.                         *)
(***************************************************************************)
RunsOn == {"mint", "update", "catch"}
Keeps(d) ==
  /\ call'[d].pc = "mint" => call[d].pc = "mint"
  /\ call'[d].pc = "update" => call[d].pc = "update"
  /\ call'[d].pc = "doomed" => call[d].pc \in {"mint", "doomed"}
  /\ call'[d].id = call[d].id
  /\ call'[d].batch = call[d].batch \/ (call[d].pc = "idle" /\ call'[d].pc = "lock")
  /\ \/ call'[d].answer \in {0, call[d].answer}
     \/ /\ certificates[call[d].batch].status = "minted" /\ call'[d].batch = call[d].batch
        /\ call'[d].answer = certificates[call[d].batch].id
Neutral ==
  /\ UNCHANGED <<certificates, cancelled, minted>> /\ MintTypes'
  /\ \A d \in MintCalls : Keeps(d)
  /\ abandoned' \/ (abandoned' = abandoned /\ \A d \in MintCalls : call[d].pc \in RunsOn => call'[d].pc \in RunsOn)

\* A step that mints, records and locks nothing keeps the invariant.
LEMMA NeutralKeeps == ASSUME MintInv, Neutral PROVE MintInv'
<1> USE DEF MintInv, Neutral, Keeps
<1>1. CountInv'
  <2>1. \A b \in Batches : Minting(b)' \subseteq Minting(b) BY DEF Minting
  <2> QED BY <2>1, CountKept
<1>2. \A d \in MintCalls, b \in Batches : Owns(d, b)' => Owns(d, b) BY DEF Owns
<1>3. SoleOwner' BY <1>2 DEF SoleOwner
<1>4. Backed' BY DEF Backed, OnChain
<1>5. AnswersAreRecorded'
  <2>1. SUFFICES ASSUME NEW d \in MintCalls, call'[d].answer # 0, cancelled[call'[d].batch] = 0
                 PROVE  /\ certificates[call'[d].batch] = [status |-> "minted", id |-> call'[d].answer]
                        /\ [batch |-> call'[d].batch, id |-> call'[d].answer] \in minted
    BY DEF AnswersAreRecorded
  <2>2. call'[d].batch = call[d].batch /\ call[d].batch \in Batches
    <3>1. CASE call[d].pc = "idle" /\ call'[d].pc = "lock"
      <4>1. call[d].answer = 0 BY <3>1 DEF MintTypes
      <4> QED BY <2>1, <4>1 DEF MintTypes, Call_
    <3> QED BY <3>1 DEF MintTypes, Call_
  <2>3. CASE call'[d].answer = call[d].answer BY <2>1, <2>2, <2>3 DEF AnswersAreRecorded
  <2>4. CASE /\ certificates[call[d].batch].status = "minted"
             /\ call'[d].answer = certificates[call[d].batch].id
    <3>1. certificates[call[d].batch] = [status |-> "minted", id |-> call'[d].answer]
      BY <2>2, <2>4 DEF MintTypes, MintRow
    <3> QED BY <2>1, <2>2, <2>4, <3>1 DEF Backed, OnChain
  <2> QED BY <2>1, <2>3, <2>4
<1>6. IntentsAreOwned'
  <2>1. \A d \in MintCalls : call[d].pc \in RunsOn => call'[d].batch = call[d].batch BY DEF RunsOn
  <2> QED BY <2>1 DEF IntentsAreOwned, RunsOn
<1> QED BY <1>1, <1>3, <1>4, <1>5, <1>6

\* One call moves, to where it neither mints nor records, and answers as read.
LEMMA MovesNeutral ==
  ASSUME MintInv, UNCHANGED <<certificates, cancelled, minted>>, NEW c \in MintCalls, NEW pc \in MintPCs, NEW answer,
         Moves(c, pc, answer), pc \notin {"idle", "mint", "update", "doomed"},
         mintLock' \in [Batches -> SUBSET MintCalls], leaked' \in Nat,
         answer \in {0, call[c].answer} \/ (certificates[call[c].batch].status = "minted"
                                             /\ answer = certificates[call[c].batch].id),
         abandoned' \/ (abandoned' = abandoned /\ (call[c].pc \in RunsOn => pc \in RunsOn))
  PROVE  MintInv'
<1>1. MintTypes' BY DEF MintInv, MintTypes, Moves
<1>2. ASSUME NEW d \in MintCalls PROVE Keeps(d)
  <2>1. CASE d = c BY <2>1 DEF Keeps, Moves
  <2>2. CASE d # c BY <2>2 DEF Keeps, Moves
  <2> QED BY <2>1, <2>2
<1>3. Neutral BY <1>1, <1>2 DEF Neutral, Moves
<1> QED BY <1>3, NeutralKeeps

\* The fields of a call.
LEMMA CallIs == ASSUME MintTypes, NEW c \in MintCalls
                PROVE  /\ call[c].batch \in Batches /\ call[c].id \in Nat /\ call[c].answer \in Nat
                       /\ call[c].pc \in MintPCs /\ certificates[call[c].batch] \in MintRow
BY DEF MintTypes, Call_

\* A call that starts owns nothing yet.
LEMMA MintStarts == ASSUME MintInv, NEW c \in MintCalls, NEW b \in Batches, Mint(c, b) PROVE MintInv'
<1> USE DEF MintInv
<1>1. call' = [call EXCEPT ![c] = [call[c] EXCEPT !.pc = "lock", !.batch = b]] BY DEF Mint
<1>2. call[c] \in Call_ /\ "lock" \in MintPCs BY DEF MintTypes, MintPCs, Underway
<1>3. [call[c] EXCEPT !.pc = "lock", !.batch = b] \in Call_ BY <1>2 DEF Call_
<1>4. call'[c] = [call[c] EXCEPT !.pc = "lock", !.batch = b] BY <1>1 DEF MintTypes
<1>5. call'[c].pc = "lock" /\ call'[c].id = call[c].id /\ call'[c].answer = call[c].answer
  BY <1>2, <1>4 DEF Call_
<1>6. call[c].pc = "idle" /\ abandoned' = abandoned /\ UNCHANGED <<certificates, cancelled, minted>>
      /\ leaked' = leaked /\ mintLock' = mintLock
  BY DEF Mint
<1>7. \A d \in MintCalls \ {c} : call'[d] = call[d] BY <1>1 DEF MintTypes
<1>8. MintTypes'
  <2>1. call' \in [MintCalls -> Call_] BY <1>1, <1>3 DEF MintTypes
  <2>2. \A d \in MintCalls : call'[d].pc = "idle" => call'[d].answer = 0 BY <1>5, <1>7 DEF MintTypes
  <2> QED BY <1>6, <2>1, <2>2 DEF MintTypes
<1>9. ASSUME NEW d \in MintCalls PROVE Keeps(d) /\ (call[d].pc \in RunsOn => call'[d].pc \in RunsOn)
  <2>1. CASE d = c BY <1>5, <1>6, <2>1 DEF Keeps, RunsOn
  <2>2. CASE d # c BY <1>7, <2>2 DEF Keeps
  <2> QED BY <2>1, <2>2
<1>10. Neutral BY <1>6, <1>8, <1>9 DEF Neutral
<1> QED BY <1>10, NeutralKeeps

\* The lock, the reads, the failures: the call moves and nothing else does.
LEMMA QuietSteps ==
  ASSUME MintInv, NEW c \in MintCalls,
         \/ Lock(c) \/ Check(c) \/ StatementFails(c) \/ CatchFails(c) \/ Unlock(c) \/ UnlockFails(c)
         \/ Recheck(c)
         \/ InsertIntent(c) /\ certificates[call[c].batch].status # "none"
  PROVE  MintInv'
<1> USE DEF MintInv
<1>0. {"check", "insert", "recheck", "catch", "unlock", "done", "lost"} \subseteq MintPCs BY DEF MintPCs, Underway
<1>1. call \in [MintCalls -> Call_] /\ mintLock \in [Batches -> SUBSET MintCalls] /\ leaked \in Nat
  BY DEF MintTypes
<1>2. CASE Lock(c)
  <2>1. \E pc \in {"check", "catch"} : Goto(c, pc) BY <1>2 DEF Lock
  <2>2. PICK pc \in {"check", "catch"} : Moves(c, pc, call[c].answer) BY <1>0, <1>1, <2>1, GotoMoves
  <2>3. call[c].pc = "lock" /\ mintLock' \in [Batches -> SUBSET MintCalls]
        /\ UNCHANGED <<certificates, minted, cancelled, leaked, abandoned>>
    BY <1>1, <1>2 DEF Lock
  <2> QED BY <1>0, <1>1, <2>2, <2>3, MovesNeutral DEF RunsOn
<1>3. CASE Check(c)
  <2>1. call[c].pc = "check" /\ UNCHANGED <<certificates, mintLock, minted, cancelled, leaked, abandoned>>
        /\ AnswerFrom(c, certificates[call[c].batch], Goto(c, "insert"))
    BY <1>3 DEF Check
  <2>2. \/ certificates[call[c].batch].status = "minted" /\ Moves(c, "unlock", certificates[call[c].batch].id)
        \/ Moves(c, "unlock", 0) \/ Moves(c, "insert", call[c].answer)
    BY <1>0, <1>1, <2>1, CallIs, AnswerFromMoves
  <2> QED BY <1>0, <1>1, <2>1, <2>2, MovesNeutral DEF RunsOn
<1>4. CASE InsertIntent(c) /\ certificates[call[c].batch].status # "none"
  <2>1. call[c].pc = "insert" /\ UNCHANGED <<mintLock, minted, cancelled, leaked, abandoned>>
        /\ Goto(c, "recheck")
    BY <1>4 DEF InsertIntent
  <2>2. certificates' = certificates BY <1>4 DEF InsertIntent, MintTypes
  <2>3. Moves(c, "recheck", call[c].answer) BY <1>0, <1>1, <2>1, GotoMoves
  <2> QED BY <1>0, <1>1, <2>1, <2>2, <2>3, MovesNeutral DEF RunsOn
<1>9. CASE Recheck(c)
  <2>1. call[c].pc = "recheck" /\ UNCHANGED <<certificates, mintLock, minted, cancelled, leaked, abandoned>>
        /\ AnswerFrom(c, certificates[call[c].batch], Goto(c, "catch"))
    BY <1>9 DEF Recheck
  <2>2. \/ certificates[call[c].batch].status = "minted" /\ Moves(c, "unlock", certificates[call[c].batch].id)
        \/ Moves(c, "unlock", 0) \/ Moves(c, "catch", call[c].answer)
    BY <1>0, <1>1, <2>1, CallIs, AnswerFromMoves
  <2> QED BY <1>0, <1>1, <2>1, <2>2, MovesNeutral DEF RunsOn
<1>5. CASE StatementFails(c)
  <2>1. Moves(c, "catch", call[c].answer) BY <1>0, <1>1, <1>5, GotoMoves DEF StatementFails
  <2> QED BY <1>0, <1>1, <1>5, <2>1, MovesNeutral DEF StatementFails, RunsOn
<1>6. CASE CatchFails(c)
  <2>1. Moves(c, "unlock", 0) BY <1>1, <1>6, AnswerMoves DEF CatchFails
  <2> QED BY <1>0, <1>1, <1>6, <2>1, MovesNeutral DEF CatchFails
<1>7. CASE Unlock(c)
  <2>1. Moves(c, "done", call[c].answer) BY <1>0, <1>1, <1>7, GotoMoves DEF Unlock
  <2>2. mintLock' \in [Batches -> SUBSET MintCalls] BY <1>1, <1>7 DEF Unlock
  <2> QED BY <1>0, <1>1, <1>7, <2>1, <2>2, MovesNeutral DEF Unlock, RunsOn
<1>8. CASE UnlockFails(c)
  <2>1. Moves(c, "lost", call[c].answer) BY <1>0, <1>1, <1>8, GotoMoves DEF UnlockFails
  <2>2. leaked' \in Nat BY <1>1, <1>8 DEF UnlockFails
  <2> QED BY <1>0, <1>1, <1>8, <2>1, <2>2, MovesNeutral DEF UnlockFails, RunsOn
<1> QED BY <1>2, <1>3, <1>4, <1>5, <1>6, <1>7, <1>8, <1>9

\* A lost connection gives back its lock.
LEMMA ConnectionLostStep == ASSUME MintInv, NEW c \in MintCalls, ConnectionLost(c) PROVE MintInv'
<1> USE DEF MintInv
<1>1. PICK pc \in {"doomed", "lost"} : Goto(c, pc) /\ (pc = "doomed" => call[c].pc = "mint")
  BY DEF ConnectionLost
<1>2. pc \in MintPCs BY DEF MintPCs, Underway
<1>3. Moves(c, pc, call[c].answer) BY <1>1, <1>2, GotoMoves DEF MintTypes
<1>4. MintTypes'
  <2>1. leaked' \in Nat BY DEF ConnectionLost, MintTypes
  <2>2. mintLock' \in [Batches -> SUBSET MintCalls] BY DEF ConnectionLost, MintTypes
  <2> QED BY <1>3, <2>1, <2>2 DEF ConnectionLost, MintTypes, Moves
<1>5. ASSUME NEW d \in MintCalls PROVE Keeps(d)
  <2>1. CASE d = c BY <1>1, <1>3, <2>1 DEF Keeps, Moves
  <2>2. CASE d # c BY <1>3, <2>2 DEF Keeps, Moves
  <2> QED BY <2>1, <2>2
<1>6. Neutral BY <1>4, <1>5 DEF Neutral, ConnectionLost
<1> QED BY <1>6, NeutralKeeps

\* A death of the process ends every call.
LEMMA ProcessDiesStep == ASSUME MintInv, ProcessDies PROVE MintInv'
<1> USE DEF MintInv
<1>1. \A d \in MintCalls : call'[d] = IF IsUnderway(d) THEN [call[d] EXCEPT !.pc = "lost"] ELSE call[d]
  BY DEF ProcessDies
<1>2. ASSUME NEW d \in MintCalls
      PROVE  /\ call'[d] \in Call_ /\ call'[d].pc \in {"lost", call[d].pc}
             /\ call'[d].id = call[d].id /\ call'[d].batch = call[d].batch /\ call'[d].answer = call[d].answer
  <2>1. call[d] \in Call_ /\ "lost" \in MintPCs BY DEF MintTypes, MintPCs
  <2>2. CASE IsUnderway(d)
    <3>1. call'[d] = [call[d] EXCEPT !.pc = "lost"] BY <1>1, <2>2
    <3> QED BY <2>1, <3>1 DEF Call_
  <2>3. CASE ~IsUnderway(d) BY <1>1, <2>1, <2>3
  <2> QED BY <2>2, <2>3
<1>3. MintTypes'
  <2>1. DOMAIN call' = MintCalls /\ call' = [d \in MintCalls |-> call'[d]] BY DEF ProcessDies
  <2>2. call' \in [MintCalls -> Call_] BY <1>2, <2>1
  <2>3. \A d \in MintCalls : call'[d].pc = "idle" => call'[d].answer = 0 BY <1>2 DEF MintTypes
  <2> QED BY <2>2, <2>3 DEF ProcessDies, MintTypes
<1>4. \A d \in MintCalls : Keeps(d) BY <1>2 DEF Keeps
<1>5. Neutral BY <1>3, <1>4 DEF Neutral, ProcessDies
<1> QED BY <1>5, NeutralKeeps

(***************************************************************************)
(* The intent, the certificate, the record and the catch block.            *)
(***************************************************************************)
LEMMA InsertStep ==
  ASSUME MintInv, NEW c \in MintCalls, InsertIntent(c), certificates[call[c].batch].status = "none" PROVE MintInv'
<1> USE DEF MintInv
<1>1. PICK b \in Batches : b = call[c].batch BY CallIs
<1>2. call[c].pc = "insert" /\ UNCHANGED <<mintLock, minted, cancelled, leaked, abandoned>>
  BY DEF InsertIntent
<1>3. Moves(c, "mint", call[c].answer)
  <2>1. Goto(c, "mint") BY DEF InsertIntent
  <2>2. "mint" \in MintPCs BY DEF MintPCs, Underway
  <2> QED BY <2>1, <2>2, GotoMoves DEF MintTypes
<1>4. certificates' = [certificates EXCEPT ![b] = [status |-> "minting", id |-> 0]]
  <2>1. certificates' = [certificates EXCEPT ![b] = IF certificates[b].status = "none"
                                                    THEN [status |-> "minting", id |-> 0] ELSE certificates[b]]
    BY <1>1 DEF InsertIntent
  <2> QED BY <1>1, <2>1
<1>5. certificates'[b].status = "minting" /\ \A a \in Batches \ {b} : certificates'[a] = certificates[a]
  BY <1>4 DEF MintTypes
<1>6. MintTypes'
  <2>1. [status |-> "minting", id |-> 0] \in MintRow BY DEF MintRow
  <2>2. certificates' \in [Batches -> MintRow] BY <1>4, <2>1 DEF MintTypes
  <2> QED BY <1>2, <1>3, <2>2 DEF MintTypes, Moves
<1>7. CountInv'
  <2>1. \A a \in Batches : MintedFor(a)' = MintedFor(a) BY <1>2 DEF MintedFor
  <2>2. \A a \in Batches \ {b} : Minting(a)' = Minting(a) BY <1>1, <1>2, <1>3 DEF Minting, Moves
  <2>3. Minting(b)' = Minting(b) \cup {c} /\ c \notin Minting(b) BY <1>1, <1>2, <1>3 DEF Minting, Moves
  <2>4. IsFiniteSet(Minting(b)) /\ IsFiniteSet(MintedFor(b)) BY DEF CountInv
  <2>5. IsFiniteSet(Minting(b)') /\ Cardinality(Minting(b)') = Cardinality(Minting(b)) + 1
    BY <2>3, <2>4, FS_AddElement
  <2>6. /\ Cardinality(Minting(b)) \in Nat /\ Cardinality(MintedFor(b)) \in Nat /\ cancelled[b] \in Nat
    BY <2>4, FS_CardinalityType DEF MintTypes
  <2>7. Cardinality(MintedFor(b)) + Cardinality(Minting(b)) <= cancelled[b] BY <1>1 DEF CountInv
  <2>8. Cardinality(MintedFor(b)) + (Cardinality(Minting(b)) + 1) <= 1 + cancelled[b] BY <2>6, <2>7
  <2>9. Cardinality(MintedFor(b)') + Cardinality(Minting(b)') <= 1 + cancelled'[b]
    BY <1>2, <2>1, <2>5, <2>8
  <2>10. ASSUME NEW a \in Batches
         PROVE  /\ IsFiniteSet(Minting(a)') /\ IsFiniteSet(MintedFor(a)')
                /\ Cardinality(MintedFor(a)') + Cardinality(Minting(a)') <= 1 + cancelled'[a]
                /\ certificates'[a].status = "none"
                     => Cardinality(MintedFor(a)') + Cardinality(Minting(a)') <= cancelled'[a]
    <3>1. CASE a = b BY <1>5, <2>1, <2>4, <2>5, <2>9, <3>1
    <3>2. CASE a # b BY <1>2, <1>5, <2>1, <2>2, <3>2 DEF CountInv
    <3> QED BY <3>1, <3>2
  <2> QED BY <2>10 DEF CountInv
<1>8. SoleOwner'
  <2>1. \A d \in MintCalls : cancelled[b] = 0 => ~Owns(d, b) BY <1>1 DEF SoleOwner
  <2>2. ASSUME NEW d \in MintCalls, NEW a \in Batches, Owns(d, a)'
        PROVE  Owns(d, a) \/ (d = c /\ a = b)
    BY <1>1, <1>3, <2>2 DEF Owns, Moves
  <2> QED BY <1>2, <1>5, <2>1, <2>2 DEF SoleOwner
<1>9. Backed' BY <1>2, <1>3, <1>5 DEF Backed, OnChain, Moves
<1>10. AnswersAreRecorded'
  <2>1. SUFFICES ASSUME NEW d \in MintCalls, call'[d].answer # 0, cancelled[call'[d].batch] = 0
                 PROVE  /\ certificates'[call'[d].batch] = [status |-> "minted", id |-> call'[d].answer]
                        /\ [batch |-> call'[d].batch, id |-> call'[d].answer] \in minted
    BY <1>2 DEF AnswersAreRecorded
  <2>2. call'[d].answer = call[d].answer /\ call'[d].batch = call[d].batch /\ call[d].batch \in Batches
    BY <1>3, CallIs DEF Moves
  <2>3. /\ certificates[call[d].batch] = [status |-> "minted", id |-> call[d].answer]
        /\ [batch |-> call[d].batch, id |-> call[d].answer] \in minted
    BY <2>1, <2>2 DEF AnswersAreRecorded
  <2>4. call[d].batch # b BY <1>1, <2>3
  <2> QED BY <1>5, <2>2, <2>3, <2>4
<1>11. IntentsAreOwned' BY <1>1, <1>2, <1>3, <1>5 DEF IntentsAreOwned, Moves
<1> QED BY <1>6, <1>7, <1>8, <1>9, <1>10, <1>11

\* A mint of the ledger's is paid for by its call's intent.
LEMMA SorobanStep == ASSUME MintInv, NEW c \in MintCalls, SorobanMint(c) PROVE MintInv'
<1> USE DEF MintInv
<1>1. PICK b \in Batches : b = call[c].batch BY CallIs
<1>2. Cardinality(minted) \in Nat BY FS_CardinalityType DEF MintTypes
<1>3. PICK id \in Nat : id = Cardinality(minted) + 1 BY <1>2
<1>4. /\ call[c].pc \in {"mint", "doomed"} /\ UNCHANGED <<certificates, mintLock, cancelled, abandoned>>
      /\ minted' = minted \cup {[batch |-> b, id |-> id]}
  BY <1>1, <1>3 DEF SorobanMint
<1>5. PICK pc \in {"update", "lost"} : call' = [call EXCEPT ![c] = [call[c] EXCEPT !.pc = pc, !.id = id]]
                                       /\ (call[c].pc = "mint" <=> pc = "update")
  <2>1. call' = [call EXCEPT ![c] = [call[c] EXCEPT !.pc = IF call[c].pc = "mint" THEN "update" ELSE "lost", !.id = id]]
    BY <1>3 DEF SorobanMint
  <2> QED BY <2>1
<1>6. call[c] \in Call_ /\ pc \in MintPCs BY DEF MintTypes, MintPCs, Underway
<1>7. [call[c] EXCEPT !.pc = pc, !.id = id] \in Call_ BY <1>6 DEF Call_
<1>8. call'[c] = [call[c] EXCEPT !.pc = pc, !.id = id] /\ \A d \in MintCalls \ {c} : call'[d] = call[d]
  BY <1>5 DEF MintTypes
<1>9. call'[c].pc = pc /\ call'[c].id = id /\ call'[c].batch = b /\ call'[c].answer = call[c].answer
  BY <1>1, <1>6, <1>8 DEF Call_
<1>10. MintTypes'
  <2>1. call' \in [MintCalls -> Call_] BY <1>5, <1>7 DEF MintTypes
  <2>2. IsFiniteSet(minted') BY <1>4, FS_AddElement DEF MintTypes
  <2>3. minted' \subseteq [batch : Batches, id : Nat] BY <1>4 DEF MintTypes
  <2>4. leaked' \in Nat BY DEF SorobanMint, MintTypes
  <2>5. \A d \in MintCalls : call'[d].pc = "idle" => call'[d].answer = 0 BY <1>8, <1>9 DEF MintTypes
  <2> QED BY <1>4, <2>1, <2>2, <2>3, <2>4, <2>5 DEF MintTypes
<1>11. CountInv'
  <2>1. \A a \in Batches \ {b} : MintedFor(a)' = MintedFor(a) /\ Minting(a)' = Minting(a)
    <3>1. ASSUME NEW a \in Batches \ {b} PROVE MintedFor(a)' = MintedFor(a)
      BY <1>4 DEF MintedFor
    <3>2. ASSUME NEW a \in Batches \ {b} PROVE Minting(a)' = Minting(a)
      BY <1>1, <1>8, <1>9 DEF Minting
    <3> QED BY <3>1, <3>2
  <2>2. Minting(b)' = Minting(b) \ {c} /\ c \in Minting(b)
    <3>1. c \in Minting(b) BY <1>1, <1>4 DEF Minting
    <3>2. c \notin Minting(b)' BY <1>1, <1>9 DEF Minting
    <3>3. \A d \in MintCalls \ {c} : d \in Minting(b)' <=> d \in Minting(b) BY <1>8 DEF Minting
    <3>4. Minting(b) \subseteq MintCalls /\ Minting(b)' \subseteq MintCalls BY DEF Minting
    <3> QED BY <3>1, <3>2, <3>3, <3>4
  <2>3. MintedFor(b)' = MintedFor(b) \cup {[batch |-> b, id |-> id]} BY <1>4 DEF MintedFor
  <2>4. IsFiniteSet(Minting(b)) /\ IsFiniteSet(MintedFor(b)) BY DEF CountInv
  <2>5. IsFiniteSet(Minting(b)') /\ Cardinality(Minting(b)') = Cardinality(Minting(b)) - 1
    BY <2>2, <2>4, FS_RemoveElement
  <2>6. /\ Cardinality(Minting(b)) \in Nat /\ Cardinality(MintedFor(b)) \in Nat /\ cancelled[b] \in Nat
    BY <2>4, FS_CardinalityType DEF MintTypes
  <2>7. IsFiniteSet(MintedFor(b)') /\ Cardinality(MintedFor(b)') \in Nat
        /\ Cardinality(MintedFor(b)') <= Cardinality(MintedFor(b)) + 1
    <3> DEFINE m == [batch |-> b, id |-> id]
    <3>1. IsFiniteSet(MintedFor(b) \cup {m}) BY <2>4, FS_AddElement
    <3>2. Cardinality(MintedFor(b) \cup {m}) \in Nat BY <3>1, FS_CardinalityType
    <3>3. Cardinality(MintedFor(b) \cup {m}) = IF m \in MintedFor(b) THEN Cardinality(MintedFor(b))
                                                ELSE Cardinality(MintedFor(b)) + 1
      BY <2>4, FS_AddElement
    <3>4. Cardinality(MintedFor(b) \cup {m}) <= Cardinality(MintedFor(b)) + 1 BY <2>6, <3>3
    <3> QED BY <2>3, <3>1, <3>2, <3>4
  <2>8. Cardinality(MintedFor(b)') + Cardinality(Minting(b)') <= Cardinality(MintedFor(b)) + Cardinality(Minting(b))
    BY <2>5, <2>6, <2>7
  <2>9. Cardinality(Minting(b)') \in Nat BY <2>5, FS_CardinalityType
  <2>10. ASSUME NEW a \in Batches
         PROVE  /\ IsFiniteSet(Minting(a)') /\ IsFiniteSet(MintedFor(a)')
                /\ Cardinality(MintedFor(a)') + Cardinality(Minting(a)') <= 1 + cancelled[a]
                /\ certificates[a].status = "none"
                     => Cardinality(MintedFor(a)') + Cardinality(Minting(a)') <= cancelled[a]
    <3>1. CASE a = b BY <2>5, <2>6, <2>7, <2>8, <2>9, <3>1 DEF CountInv
    <3>2. CASE a # b BY <2>1, <3>2 DEF CountInv
    <3> QED BY <3>1, <3>2
  <2> QED BY <1>4, <2>10 DEF CountInv
<1>12. SoleOwner'
  <2>1. \A d \in MintCalls, a \in Batches : Owns(d, a)' => Owns(d, a)
    BY <1>1, <1>4, <1>5, <1>8, <1>9 DEF Owns
  <2> QED BY <1>4, <2>1 DEF SoleOwner
<1>13. Backed'
  <2>1. ASSUME NEW d \in MintCalls, call'[d].pc = "update"
        PROVE  [batch |-> call'[d].batch, id |-> call'[d].id] \in minted'
    <3>1. CASE d = c BY <1>4, <1>9, <3>1
    <3>2. CASE d # c
      <4>1. call'[d] = call[d] BY <1>8, <3>2
      <4>2. [batch |-> call[d].batch, id |-> call[d].id] \in minted BY <2>1, <4>1 DEF OnChain, Backed
      <4> QED BY <1>4, <4>1, <4>2
    <3> QED BY <3>1, <3>2
  <2>2. \A a \in Batches : cancelled[a] = 0 /\ certificates[a].status = "minted"
          => [batch |-> a, id |-> certificates[a].id] \in minted'
    BY <1>4 DEF Backed, OnChain
  <2> QED BY <1>4, <2>1, <2>2 DEF Backed, OnChain
<1>14. AnswersAreRecorded'
  <2>1. \A d \in MintCalls : call'[d].answer = call[d].answer /\ call'[d].batch = call[d].batch
    BY <1>1, <1>8, <1>9
  <2> QED BY <1>4, <2>1 DEF AnswersAreRecorded
<1>15. IntentsAreOwned'
  <2>1. \A d \in MintCalls : call[d].pc \in RunsOn => call'[d].pc \in RunsOn /\ call'[d].batch = call[d].batch
    BY <1>1, <1>4, <1>5, <1>8, <1>9 DEF RunsOn
  <2> QED BY <1>4, <2>1 DEF IntentsAreOwned, RunsOn
<1> QED BY <1>10, <1>11, <1>12, <1>13, <1>14, <1>15

\* A recorded certificate is one that was minted.
LEMMA RecordStep == ASSUME MintInv, NEW c \in MintCalls, RecordCertificate(c) PROVE MintInv'
<1> USE DEF MintInv
<1>1. PICK b \in Batches : b = call[c].batch BY CallIs
<1>2. PICK id \in Nat : id = call[c].id BY CallIs
<1>3. call[c].pc = "update" /\ UNCHANGED <<mintLock, minted, cancelled, leaked, abandoned>>
  BY DEF RecordCertificate
<1>4. Moves(c, "unlock", id) BY <1>2, AnswerMoves DEF RecordCertificate, MintTypes
<1>5. certificates' = [certificates EXCEPT ![b] = IF certificates[b].status = "none" THEN certificates[b]
                                                  ELSE [status |-> "minted", id |-> id]]
  BY <1>1, <1>2 DEF RecordCertificate
<1>6. /\ certificates'[b] = IF certificates[b].status = "none" THEN certificates[b]
                            ELSE [status |-> "minted", id |-> id]
      /\ \A a \in Batches \ {b} : certificates'[a] = certificates[a]
  BY <1>5 DEF MintTypes
<1>7. MintTypes'
  <2>1. [status |-> "minted", id |-> id] \in MintRow BY DEF MintRow
  <2>2. certificates' \in [Batches -> MintRow] BY <1>5, <2>1 DEF MintTypes
  <2> QED BY <1>3, <1>4, <2>2 DEF MintTypes, Moves
<1>8. CountInv'
  <2>1. \A a \in Batches : Minting(a)' \subseteq Minting(a) BY <1>3, <1>4 DEF Minting, Moves
  <2>2. \A a \in Batches : certificates'[a].status = "none" => certificates[a].status = "none" BY <1>6
  <2> QED BY <1>3, <1>7, <2>1, <2>2, CountKept
<1>9. OnChain(b, id) BY <1>1, <1>2, <1>3 DEF Backed
<1>10. SoleOwner'
  <2>1. \A d \in MintCalls, a \in Batches : Owns(d, a)' => Owns(d, a) /\ d # c
    BY <1>3, <1>4 DEF Owns, Moves
  <2>2. Owns(c, b) BY <1>1, <1>3 DEF Owns
  <2>3. cancelled[b] = 0 => \A d \in MintCalls : ~Owns(d, b)' BY <2>1, <2>2 DEF SoleOwner
  <2> QED BY <1>3, <1>6, <2>1, <2>3 DEF SoleOwner
<1>11. Backed'
  <2>1. \A d \in MintCalls : call'[d].pc = "update" => OnChain(call'[d].batch, call'[d].id)
    BY <1>4 DEF Backed, Moves
  <2>2. \A a \in Batches : cancelled[a] = 0 /\ certificates'[a].status = "minted" => OnChain(a, certificates'[a].id)
    <3>1. ASSUME NEW a \in Batches, cancelled[a] = 0, certificates'[a].status = "minted"
          PROVE  OnChain(a, certificates'[a].id)
      <4>1. CASE a = b BY <1>6, <1>9, <3>1, <4>1
      <4>2. CASE a # b BY <1>6, <3>1, <4>2 DEF Backed
      <4> QED BY <4>1, <4>2
    <3> QED BY <3>1
  <2> QED BY <1>3, <2>1, <2>2 DEF Backed, OnChain
<1>12. AnswersAreRecorded'
  <2>1. SUFFICES ASSUME NEW d \in MintCalls, call'[d].answer # 0, cancelled[call'[d].batch] = 0
                 PROVE  /\ certificates'[call'[d].batch] = [status |-> "minted", id |-> call'[d].answer]
                        /\ [batch |-> call'[d].batch, id |-> call'[d].answer] \in minted
    BY <1>3 DEF AnswersAreRecorded
  <2>2. cancelled[b] = 0 => certificates[b].status = "minting" BY <1>1, <1>3 DEF SoleOwner, Owns
  <2>3. CASE d = c
    <3>1. call'[c].batch = b /\ call'[c].answer = id BY <1>1, <1>4 DEF Moves
    <3>2. certificates[b].status = "minting" BY <2>1, <2>2, <2>3, <3>1
    <3>3. certificates'[b] = [status |-> "minted", id |-> id] BY <1>6, <3>2
    <3> QED BY <1>9, <2>3, <3>1, <3>3 DEF OnChain
  <2>4. CASE d # c
    <3>1. call'[d] = call[d] /\ call[d].batch \in Batches BY <1>4, <2>4, CallIs DEF Moves
    <3>2. /\ certificates[call[d].batch] = [status |-> "minted", id |-> call[d].answer]
          /\ [batch |-> call[d].batch, id |-> call[d].answer] \in minted
      BY <2>1, <3>1 DEF AnswersAreRecorded
    <3>3. call[d].batch # b BY <2>1, <2>2, <3>1, <3>2
    <3> QED BY <1>6, <3>1, <3>2, <3>3
  <2> QED BY <2>3, <2>4
<1>13. IntentsAreOwned'
  <2>1. SUFFICES ASSUME ~abandoned, NEW a \in Batches, certificates'[a].status = "minting"
                 PROVE  \E d \in MintCalls : call'[d].batch = a /\ call'[d].pc \in RunsOn
    BY <1>3 DEF IntentsAreOwned, RunsOn
  <2>2. a # b /\ certificates[a].status = "minting"
    <3>1. CASE a = b BY <1>6, <2>1, <3>1
    <3>2. CASE a # b BY <1>6, <2>1, <3>2
    <3> QED BY <3>1, <3>2
  <2>3. PICK d \in MintCalls : call[d].batch = a /\ call[d].pc \in RunsOn
    BY <2>1, <2>2 DEF IntentsAreOwned, RunsOn
  <2>4. d # c BY <1>1, <2>2, <2>3
  <2> QED BY <1>4, <2>3, <2>4 DEF Moves
<1> QED BY <1>7, <1>8, <1>10, <1>11, <1>12, <1>13

\* A failed mint cancels its intent.
LEMMA CatchStep == ASSUME MintInv, NEW c \in MintCalls, Catch(c) PROVE MintInv'
<1> USE DEF MintInv
<1>1. PICK b \in Batches : b = call[c].batch BY CallIs
<1>2. call[c].pc = "catch" /\ UNCHANGED <<mintLock, minted, leaked, abandoned>> BY DEF Catch
<1>3. Moves(c, "unlock", 0) BY AnswerMoves DEF Catch, MintTypes
<1>4. CASE certificates[b].status # "minting"
  <2>1. certificates' = certificates BY <1>1, <1>4 DEF Catch, MintTypes
  <2>2. cancelled' = cancelled
    <3>1. cancelled' = [cancelled EXCEPT ![b] = cancelled[b] + 0] BY <1>1, <1>4 DEF Catch
    <3>2. cancelled[b] + 0 = cancelled[b] BY DEF MintTypes
    <3> QED BY <3>1, <3>2 DEF MintTypes
  <2>3. MintTypes' BY <1>2, <1>3, <2>1, <2>2 DEF MintTypes, Moves
  <2>4. CountInv'
    <3>1. \A a \in Batches : Minting(a)' \subseteq Minting(a) BY <1>2, <1>3 DEF Minting, Moves
    <3> QED BY <1>2, <2>1, <2>2, <2>3, <3>1, CountKept
  <2>5. \A d \in MintCalls, a \in Batches : Owns(d, a)' => Owns(d, a) BY <1>2, <1>3 DEF Owns, Moves
  <2>6. SoleOwner' BY <2>1, <2>2, <2>5 DEF SoleOwner
  <2>7. Backed' BY <1>2, <1>3, <2>1, <2>2 DEF Backed, OnChain, Moves
  <2>8. AnswersAreRecorded' BY <1>2, <1>3, <2>1, <2>2 DEF AnswersAreRecorded, Moves
  <2>9. IntentsAreOwned'
    <3>1. SUFFICES ASSUME ~abandoned, NEW a \in Batches, certificates[a].status = "minting"
                   PROVE  \E d \in MintCalls : call'[d].batch = a /\ call'[d].pc \in RunsOn
      BY <1>2, <2>1 DEF IntentsAreOwned, RunsOn
    <3>2. PICK d \in MintCalls : call[d].batch = a /\ call[d].pc \in RunsOn
      BY <3>1 DEF IntentsAreOwned, RunsOn
    <3>3. d # c BY <1>1, <1>4, <3>1, <3>2
    <3> QED BY <1>3, <3>2, <3>3 DEF Moves
  <2> QED BY <2>3, <2>4, <2>6, <2>7, <2>8, <2>9
<1>5. CASE certificates[b].status = "minting"
  <2>1. certificates' = [certificates EXCEPT ![b] = NoCertificate] /\ cancelled' = [cancelled EXCEPT ![b] = cancelled[b] + 1]
    BY <1>1, <1>5 DEF Catch
  <2>2. /\ certificates'[b] = NoCertificate /\ cancelled'[b] = cancelled[b] + 1
        /\ \A a \in Batches \ {b} : certificates'[a] = certificates[a] /\ cancelled'[a] = cancelled[a]
    BY <2>1 DEF MintTypes
  <2>3. cancelled'[b] # 0 BY <2>2 DEF MintTypes
  <2>4. MintTypes'
    <3>1. NoCertificate \in MintRow BY DEF NoCertificate, MintRow
    <3>2. certificates' \in [Batches -> MintRow] BY <2>1, <3>1 DEF MintTypes
    <3>3. cancelled' \in [Batches -> Nat] BY <2>1 DEF MintTypes
    <3> QED BY <1>2, <1>3, <3>2, <3>3 DEF MintTypes, Moves
  <2>5. CountInv'
    <3>1. \A a \in Batches : Minting(a)' \subseteq Minting(a) BY <1>2, <1>3 DEF Minting, Moves
    <3>2. \A a \in Batches : \/ /\ cancelled'[a] = cancelled[a]
                                /\ certificates'[a].status = "none" => certificates[a].status = "none"
                             \/ cancelled'[a] = cancelled[a] + 1
      BY <2>2
    <3> QED BY <1>2, <2>4, <3>1, <3>2, CountKept
  <2>6. \A d \in MintCalls, a \in Batches : Owns(d, a)' => Owns(d, a) BY <1>2, <1>3 DEF Owns, Moves
  <2>7. SoleOwner' BY <2>2, <2>3, <2>6 DEF SoleOwner
  <2>8. Backed'
    <3>1. \A a \in Batches : cancelled'[a] = 0 => a # b BY <2>3
    <3> QED BY <1>2, <1>3, <2>2, <3>1 DEF Backed, OnChain, Moves
  <2>9. AnswersAreRecorded'
    <3>1. SUFFICES ASSUME NEW d \in MintCalls, call'[d].answer # 0, cancelled'[call'[d].batch] = 0
                   PROVE  /\ certificates'[call'[d].batch] = [status |-> "minted", id |-> call'[d].answer]
                          /\ [batch |-> call'[d].batch, id |-> call'[d].answer] \in minted
      BY <1>2 DEF AnswersAreRecorded
    <3>2. d # c BY <1>3, <3>1 DEF Moves
    <3>3. call'[d] = call[d] /\ call[d].batch \in Batches BY <1>3, <3>2, CallIs DEF Moves
    <3>4. call[d].batch # b BY <2>3, <3>1, <3>3
    <3> QED BY <2>2, <3>1, <3>3, <3>4 DEF AnswersAreRecorded
  <2>10. IntentsAreOwned'
    <3>1. SUFFICES ASSUME ~abandoned, NEW a \in Batches, certificates'[a].status = "minting"
                   PROVE  \E d \in MintCalls : call'[d].batch = a /\ call'[d].pc \in RunsOn
      BY <1>2 DEF IntentsAreOwned, RunsOn
    <3>2. a # b BY <2>2, <3>1 DEF NoCertificate
    <3>3. certificates[a].status = "minting" BY <2>2, <3>1, <3>2
    <3>4. PICK d \in MintCalls : call[d].batch = a /\ call[d].pc \in RunsOn
      BY <3>1, <3>3 DEF IntentsAreOwned, RunsOn
    <3>5. d # c BY <1>1, <3>2, <3>4
    <3> QED BY <1>3, <3>4, <3>5 DEF Moves
  <2> QED BY <2>4, <2>5, <2>7, <2>8, <2>9, <2>10
<1> QED BY <1>4, <1>5

(***************************************************************************)
(* The theorems.                                                           *)
(***************************************************************************)
LEMMA MintInitInv == MintInit => MintInv
<1> SUFFICES ASSUME MintInit PROVE MintInv
  OBVIOUS
<1> USE DEF MintInit
<1>1. MintTypes
  <2>1. NoCertificate \in MintRow BY DEF NoCertificate, MintRow
  <2>2. [pc |-> "idle", batch |-> ListenerBatch, id |-> 0, answer |-> 0] \in Call_
    BY BatchesAssumption DEF Call_, MintPCs
  <2> QED BY <2>1, <2>2, FS_EmptySet DEF MintTypes
<1>2. \A c \in MintCalls : call[c].pc = "idle" /\ call[c].answer = 0 OBVIOUS
<1>3. \A b \in Batches : certificates[b].status = "none" BY DEF NoCertificate
<1>4. CountInv
  <2>1. \A b \in Batches : Minting(b) = {} /\ MintedFor(b) = {} BY <1>2 DEF Minting, MintedFor
  <2>2. \A b \in Batches : cancelled[b] = 0 OBVIOUS
  <2>3. \A b \in Batches : /\ Cardinality(Minting(b)) = 0 /\ Cardinality(MintedFor(b)) = 0
                            /\ IsFiniteSet(Minting(b)) /\ IsFiniteSet(MintedFor(b))
    BY <2>1, FS_EmptySet
  <2> QED BY <2>2, <2>3 DEF CountInv
<1>5. SoleOwner BY <1>2 DEF SoleOwner, Owns
<1>6. Backed BY <1>2, <1>3 DEF Backed
<1>7. AnswersAreRecorded BY <1>2 DEF AnswersAreRecorded
<1>8. IntentsAreOwned BY <1>3 DEF IntentsAreOwned
<1> QED BY <1>1, <1>4, <1>5, <1>6, <1>7, <1>8 DEF MintInv

\* Every step keeps the invariant.
LEMMA MintStep == MintInv /\ [MintNext]_mintVars => MintInv'
<1> SUFFICES ASSUME MintInv, [MintNext]_mintVars PROVE MintInv'
  OBVIOUS
<1>1. ASSUME NEW c \in MintCalls, Poll(c) \/ \E b \in Batches : Mint(c, b) PROVE MintInv'
  BY <1>1, MintStarts, BatchesAssumption DEF Poll
<1>2. ASSUME NEW c \in MintCalls, InsertIntent(c) PROVE MintInv'
  BY <1>2, InsertStep, QuietSteps
<1>3. CASE UNCHANGED mintVars
  BY <1>3 DEF mintVars, MintInv, MintTypes, CountInv, Minting, MintedFor, SoleOwner, Owns, Backed, OnChain,
              AnswersAreRecorded, IntentsAreOwned
<1>4. ASSUME NEW c \in MintCalls,
             \/ Lock(c) \/ Check(c) \/ Recheck(c) \/ StatementFails(c)
             \/ CatchFails(c) \/ Unlock(c) \/ UnlockFails(c)
      PROVE  MintInv'
  BY <1>4, QuietSteps
<1>5. ASSUME NEW c \in MintCalls, SorobanMint(c) \/ RecordCertificate(c) \/ Catch(c) \/ ConnectionLost(c)
      PROVE  MintInv'
  BY <1>5, SorobanStep, RecordStep, CatchStep, ConnectionLostStep
<1>6. CASE ProcessDies BY <1>6, ProcessDiesStep
<1> QED BY <1>1, <1>2, <1>3, <1>4, <1>5, <1>6 DEF MintNext

\* mintService.ts:25-86: for any number of calls and faults, every certificate
\* of a batch beyond the first was paid for by a deleted intent.
THEOREM CertificatesCounted == MintSpec => []ExtraMintsWereCancelled
<1>1. MintInv => ExtraMintsWereCancelled
  <2> SUFFICES ASSUME MintInv, NEW b \in Batches PROVE Cardinality(MintedFor(b)) <= 1 + cancelled[b]
    BY DEF ExtraMintsWereCancelled, MintedFor
  <2>1. /\ Cardinality(Minting(b)) \in Nat /\ Cardinality(MintedFor(b)) \in Nat /\ cancelled[b] \in Nat
    BY FS_CardinalityType DEF MintInv, CountInv, MintTypes
  <2>2. Cardinality(MintedFor(b)) + Cardinality(Minting(b)) <= 1 + cancelled[b] BY DEF MintInv, CountInv
  <2> QED BY <2>1, <2>2
<1> QED BY MintInitInv, MintStep, <1>1, PTL DEF MintSpec

\* mintService.ts:35-75: until an intent of the batch is deleted, whoever was
\* given an id was given the one the row holds, of a certificate that exists.
THEOREM AnswersStayRecorded == MintSpec => []AnswersAreRecorded
<1>1. MintInv => AnswersAreRecorded BY DEF MintInv
<1> QED BY MintInitInv, MintStep, <1>1, PTL DEF MintSpec

\* mintService.ts:40-47, 76-80: a 'minting' row belongs to a call that runs,
\* unless the process, a connection or a cleanup failed.
THEOREM IntentsStayOwned == MintSpec => []IntentsAreOwned
<1>1. MintInv => IntentsAreOwned BY DEF MintInv
<1> QED BY MintInitInv, MintStep, <1>1, PTL DEF MintSpec

(***************************************************************************)
(* The session lock.                                                       *)
(***************************************************************************)
LEMMA RunsKeepLocks ==
  ASSUME MintInv, LocksAreHeld, NEW c \in MintCalls, leaked' \in Nat, leaked <= leaked',
         \A d \in MintCalls \ {c} : call'[d] = call[d],
         \A b \in Batches : mintLock'[b] \subseteq mintLock[b] \cup {c},
         \/ IsUnderway(c)' \/ (call'[c].pc = "lost" /\ leaked < leaked')
         \/ \A b \in Batches : c \notin mintLock'[b]
  PROVE  LocksAreHeld'
<1> USE DEF IsUnderway
<1>1. leaked \in Nat BY DEF MintInv, MintTypes
<1>2. SUFFICES ASSUME NEW b \in Batches, NEW d \in mintLock'[b]
               PROVE  call'[d].pc \in Underway \/ (call'[d].pc = "lost" /\ leaked' > 0)
  BY DEF LocksAreHeld, IsUnderway
<1>3. CASE d = c BY <1>1, <1>2, <1>3
<1>4. CASE d # c
  <2>1. d \in mintLock[b] /\ d \in MintCalls BY <1>2, <1>4 DEF MintInv, MintTypes
  <2>2. call[d].pc \in Underway \/ (call[d].pc = "lost" /\ leaked > 0)
    BY <2>1 DEF LocksAreHeld, IsUnderway
  <2> QED BY <1>1, <1>4, <2>1, <2>2
<1> QED BY <1>3, <1>4

\* Every step keeps the locks with their calls.
LEMMA LocksStep == ASSUME MintInv, LocksAreHeld, [MintNext]_mintVars PROVE LocksAreHeld'
<1>1. call \in [MintCalls -> Call_] /\ leaked \in Nat /\ mintLock \in [Batches -> SUBSET MintCalls]
  BY DEF MintInv, MintTypes
<1>2. \A c \in MintCalls : /\ call[c].pc \in MintPCs /\ call[c].batch \in Batches
                           /\ call[c].id \in Nat /\ certificates[call[c].batch] \in MintRow
  BY CallIs DEF MintInv
<1>3. {"check", "insert", "recheck", "mint", "catch", "unlock", "lock", "update", "done", "lost", "doomed"} \subseteq MintPCs
  BY DEF MintPCs, Underway
<1>4. ASSUME NEW c \in MintCalls, NEW b \in Batches, Mint(c, b) PROVE LocksAreHeld'
  <2>1. call' = [call EXCEPT ![c] = [call[c] EXCEPT !.pc = "lock", !.batch = b]]
        /\ leaked' = leaked /\ mintLock' = mintLock
    BY <1>4 DEF Mint
  <2>2. call'[c].pc = "lock" /\ \A d \in MintCalls \ {c} : call'[d] = call[d]
    BY <1>1, <2>1 DEF Call_
  <2>3. leaked' \in Nat /\ leaked <= leaked' BY <1>1, <2>1
  <2>4. IsUnderway(c)' BY <2>2 DEF IsUnderway, Underway
  <2>5. \A a \in Batches : mintLock'[a] \subseteq mintLock[a] \cup {c} BY <2>1
  <2> QED BY <1>4, <2>2, <2>3, <2>4, <2>5, RunsKeepLocks
\* The call moves on and may take its lock.
<1>5. ASSUME NEW c \in MintCalls, NEW pc \in Underway, NEW answer, Moves(c, pc, answer), leaked' = leaked,
             \A b \in Batches : mintLock'[b] \subseteq mintLock[b] \cup {c}
      PROVE  LocksAreHeld'
  <2>1. leaked' \in Nat /\ leaked <= leaked' BY <1>1, <1>5
  <2>2. IsUnderway(c)' /\ \A d \in MintCalls \ {c} : call'[d] = call[d] BY <1>5 DEF Moves, IsUnderway
  <2> QED BY <1>5, <2>1, <2>2, RunsKeepLocks
<1>6. ASSUME NEW c \in MintCalls, Lock(c) PROVE LocksAreHeld'
  <2>1. PICK pc \in {"check", "catch"} : Goto(c, pc) BY <1>6 DEF Lock
  <2>2. Moves(c, pc, call[c].answer) BY <1>1, <1>3, <2>1, GotoMoves
  <2>3. leaked' = leaked /\ \A b \in Batches : mintLock'[b] \subseteq mintLock[b] \cup {c}
    BY <1>1, <1>6 DEF Lock
  <2> QED BY <1>5, <2>2, <2>3 DEF Underway
<1>7. ASSUME NEW c \in MintCalls, Check(c) \/ Recheck(c) PROVE LocksAreHeld'
  <2>1. leaked' = leaked /\ mintLock' = mintLock
        /\ \E pc \in {"insert", "catch"} : AnswerFrom(c, certificates[call[c].batch], Goto(c, pc))
    BY <1>7 DEF Check, Recheck
  <2>2. \E pc \in {"unlock", "insert", "catch"}, answer \in Nat : Moves(c, pc, answer)
    <3>1. call[c].answer \in Nat /\ certificates[call[c].batch].id \in Nat BY <1>1, <1>2 DEF Call_, MintRow
    <3> QED BY <1>1, <1>2, <1>3, <2>1, <3>1, AnswerFromMoves
  <2>3. PICK pc \in {"unlock", "insert", "catch"}, answer \in Nat : Moves(c, pc, answer) BY <2>2
  <2>4. pc \in Underway BY <1>7 DEF Underway, Check, Recheck
  <2> QED BY <1>5, <2>1, <2>3, <2>4
<1>16. ASSUME NEW c \in MintCalls, InsertIntent(c) PROVE LocksAreHeld'
  <2>1. leaked' = leaked /\ mintLock' = mintLock
        /\ \E pc \in {"mint", "recheck"} : Goto(c, pc)
    BY <1>16 DEF InsertIntent
  <2>2. PICK pc \in {"mint", "recheck"} : Goto(c, pc) BY <2>1
  <2>3. Moves(c, pc, call[c].answer) BY <1>1, <1>3, <2>2, GotoMoves
  <2>4. pc \in Underway BY <1>16 DEF Underway, InsertIntent
  <2> QED BY <1>5, <2>1, <2>3, <2>4
<1>8. ASSUME NEW c \in MintCalls, StatementFails(c) PROVE LocksAreHeld'
  <2>1. Moves(c, "catch", call[c].answer) BY <1>1, <1>3, <1>8, GotoMoves DEF StatementFails
  <2>2. leaked' = leaked /\ mintLock' = mintLock BY <1>8 DEF StatementFails
  <2> QED BY <1>5, <2>1, <2>2 DEF Underway
<1>9. ASSUME NEW c \in MintCalls, RecordCertificate(c) \/ Catch(c) \/ CatchFails(c) PROVE LocksAreHeld'
  <2>1. leaked' = leaked /\ mintLock' = mintLock /\ \E id \in Nat : Answer(c, id)
    BY <1>2, <1>9 DEF RecordCertificate, Catch, CatchFails
  <2>2. PICK id \in Nat : Moves(c, "unlock", id) BY <1>1, <2>1, AnswerMoves
  <2> QED BY <1>5, <2>1, <2>2 DEF Underway
<1>10. ASSUME NEW c \in MintCalls, Unlock(c) PROVE LocksAreHeld'
  <2>1. Moves(c, "done", call[c].answer) BY <1>1, <1>3, <1>10, GotoMoves DEF Unlock
  <2>2. leaked' = leaked /\ \A b \in Batches : mintLock'[b] = mintLock[b] \ {c} BY <1>10 DEF Unlock
  <2> QED BY <1>1, <2>1, <2>2, RunsKeepLocks DEF Moves
<1>11. ASSUME NEW c \in MintCalls, UnlockFails(c) PROVE LocksAreHeld'
  <2>1. Moves(c, "lost", call[c].answer) BY <1>1, <1>3, <1>11, GotoMoves DEF UnlockFails
  <2>2. leaked' = leaked + 1 /\ mintLock' = mintLock BY <1>11 DEF UnlockFails
  <2>3. leaked' \in Nat /\ leaked < leaked' /\ leaked <= leaked' BY <1>1, <2>2
  <2> QED BY <2>1, <2>2, <2>3, RunsKeepLocks DEF Moves
<1>12. ASSUME NEW c \in MintCalls, ConnectionLost(c) PROVE LocksAreHeld'
  <2>1. PICK pc \in {"doomed", "lost"} : Goto(c, pc) BY <1>12 DEF ConnectionLost
  <2>2. Moves(c, pc, call[c].answer) BY <1>1, <1>3, <2>1, GotoMoves
  <2>3. leaked' \in {leaked, leaked + 1} /\ \A b \in Batches : mintLock'[b] = mintLock[b] \ {c}
    BY <1>1, <1>12 DEF ConnectionLost
  <2>4. leaked' \in Nat /\ leaked <= leaked' BY <1>1, <2>3
  <2> QED BY <2>2, <2>3, <2>4, RunsKeepLocks DEF Moves
<1>13. ASSUME NEW c \in MintCalls, SorobanMint(c) PROVE LocksAreHeld'
  <2>1. PICK id : id = Cardinality(minted) + 1 OBVIOUS
  <2>2. call' = [call EXCEPT ![c].pc = IF @ = "mint" THEN "update" ELSE "lost", ![c].id = id]
        /\ mintLock' = mintLock /\ call[c].pc \in {"mint", "doomed"}
    BY <1>13, <2>1 DEF SorobanMint
  <2>3. call' = [call EXCEPT ![c] = [call[c] EXCEPT !.pc = IF call[c].pc = "mint" THEN "update" ELSE "lost", !.id = id]]
    BY <2>2
  <2>4. /\ call'[c].pc = IF call[c].pc = "mint" THEN "update" ELSE "lost"
        /\ \A d \in MintCalls \ {c} : call'[d] = call[d]
    <3>1. call[c] \in Call_ BY <1>1
    <3>2. call'[c] = [call[c] EXCEPT !.pc = IF call[c].pc = "mint" THEN "update" ELSE "lost", !.id = id]
      BY <1>1, <2>3
    <3> QED BY <1>1, <2>3, <3>1, <3>2 DEF Call_
  <2>5. CASE call[c].pc = "mint"
    <3>1. leaked' = leaked BY <1>1, <1>13, <2>5 DEF SorobanMint
    <3>2. leaked' \in Nat /\ leaked <= leaked' BY <1>1, <3>1
    <3>3. IsUnderway(c)' BY <2>4, <2>5 DEF IsUnderway, Underway
    <3>4. \A a \in Batches : mintLock'[a] \subseteq mintLock[a] \cup {c} BY <2>2
    <3> QED BY <1>13, <2>4, <3>2, <3>3, <3>4, RunsKeepLocks
  <2>6. CASE call[c].pc = "doomed"
    <3>1. leaked' = leaked + 1 BY <1>13, <2>6 DEF SorobanMint
    <3>2. leaked' \in Nat /\ leaked < leaked' /\ leaked <= leaked' BY <1>1, <3>1
    <3>3. \A a \in Batches : mintLock'[a] \subseteq mintLock[a] \cup {c} BY <2>2
    <3> QED BY <1>13, <2>4, <2>6, <3>2, <3>3, RunsKeepLocks
  <2> QED BY <2>2, <2>5, <2>6
<1>14. CASE ProcessDies BY <1>14 DEF ProcessDies, LocksAreHeld
<1>15. CASE UNCHANGED mintVars BY <1>15 DEF mintVars, LocksAreHeld, IsUnderway
<1> QED BY <1>4, <1>6, <1>7, <1>8, <1>9, <1>10, <1>11, <1>12, <1>13, <1>14, <1>15, <1>16, BatchesAssumption
        DEF MintNext, Poll

\* mintService.ts:22-27, 81-85: for any number of calls, a session lock is
\* held by a call that runs, or by a client that was never given back.
THEOREM LocksStayHeld == MintSpec => []LocksAreHeld
<1>1. MintInit => LocksAreHeld BY DEF MintInit, LocksAreHeld
<1>2. MintInv /\ LocksAreHeld /\ [MintNext]_mintVars => LocksAreHeld' BY LocksStep
<1> QED BY MintInitInv, MintStep, <1>1, <1>2, PTL DEF MintSpec

\* mintService.ts:22-85: for any number of calls, batches and faults, a second
\* certificate needs a deleted intent, what a call answered is recorded, and
\* every intent and every lock has its owner.
THEOREM EverythingAccounted == MintSpec => []CertificatesAccounted
<1>1. ExtraMintsWereCancelled /\ AnswersAreRecorded /\ IntentsAreOwned /\ LocksAreHeld
      => CertificatesAccounted
  BY DEF CertificatesAccounted
<1> QED BY <1>1, CertificatesCounted, AnswersStayRecorded, IntentsStayOwned, LocksStayHeld, PTL

(***************************************************************************)
(* For any number of writers and batches, and whichever batches share a    *)
(* lock key: the audit rows of a batch are numbered densely in the order   *)
(* their transactions committed, and no writer finds its number taken.     *)
(***************************************************************************)
LockKeys == {HashText[b] : b \in Subjects}
AuditPCs == {"idle", "lock", "max", "insert", "commit", "rollback", "done", "failed"}
AuditTypes ==
  /\ commits \in [Subjects -> Seq(Writers)]
  /\ xactLock \in [LockKeys -> SUBSET Writers]
  /\ writer \in [Writers -> [pc : AuditPCs, batch : Subjects, next : Nat]]
  /\ auditRows \subseteq [batch : Subjects, sequence : Nat, transition : Writers]

AuditRow(b, n) == [batch |-> b, sequence |-> n, transition |-> commits[b][n]]
InLock(w) == writer[w].pc \in {"max", "insert", "commit"}

\* Whoever is past the lock is the only holder of its key.
LockIsHeld == \A w \in Writers : InLock(w) => xactLock[HashText[writer[w].batch]] = {w}

\* The rows of a batch number its commits.
RowsAreCommits == auditRows = {AuditRow(p[1], p[2]) : p \in {q \in Subjects \X Nat : q[2] \in 1..Len(commits[q[1]])}}

\* The number a writer has read is the one after the last commit.
NextIsFree == \A w \in Writers : writer[w].pc \in {"insert", "commit"} =>
                 writer[w].next = Len(commits[writer[w].batch]) + 1

AuditInv == AuditTypes /\ LockIsHeld /\ RowsAreCommits /\ NextIsFree

\* The rows of a batch are its commits, by number.
LEMMA RowMember ==
  ASSUME RowsAreCommits, AuditTypes
  PROVE  /\ \A b \in Subjects : \A n \in 1..Len(commits[b]) : AuditRow(b, n) \in RowsOf(b)
         /\ \A b \in Subjects : \A r \in RowsOf(b) : r.sequence \in 1..Len(commits[b]) /\ r = AuditRow(b, r.sequence)
<1>1. ASSUME NEW b \in Subjects, NEW n \in 1..Len(commits[b]) PROVE AuditRow(b, n) \in RowsOf(b)
  <2>1. commits[b] \in Seq(Writers) BY DEF AuditTypes
  <2>2. n \in Nat BY <2>1
  <2>3. <<b, n>> \in {q \in Subjects \X Nat : q[2] \in 1..Len(commits[q[1]])} BY <2>2
  <2>4. AuditRow(b, n) \in auditRows BY <2>3 DEF RowsAreCommits
  <2> QED BY <2>4 DEF RowsOf, AuditRow
<1>2. ASSUME NEW b \in Subjects, NEW r \in RowsOf(b)
      PROVE  r.sequence \in 1..Len(commits[b]) /\ r = AuditRow(b, r.sequence)
  <2>1. r \in auditRows /\ r.batch = b BY DEF RowsOf
  <2>2. PICK p \in Subjects \X Nat : p[2] \in 1..Len(commits[p[1]]) /\ r = AuditRow(p[1], p[2])
    BY <2>1 DEF RowsAreCommits
  <2>3. p[1] = b /\ r.sequence = p[2] BY <2>1, <2>2 DEF AuditRow
  <2> QED BY <2>2, <2>3
<1> QED BY <1>1, <1>2

\* The highest sequence number of a batch counts its commits.
LEMMA MaxIsCount ==
  ASSUME RowsAreCommits, AuditTypes, NEW b \in Subjects PROVE MaxSequence(b) = Len(commits[b])
<1>1. Len(commits[b]) \in Nat BY DEF AuditTypes
<1>2. CASE Len(commits[b]) = 0
  <2>1. RowsOf(b) = {} BY <1>2, RowMember
  <2> QED BY <1>2, <2>1 DEF MaxSequence
<1>3. CASE Len(commits[b]) # 0
  <2> DEFINE Top == Len(commits[b])
             Numbers == {r.sequence : r \in RowsOf(b)}
  <2>1. Top \in 1..Len(commits[b]) BY <1>1, <1>3
  <2>2. AuditRow(b, Top) \in RowsOf(b) BY <2>1, RowMember
  <2>3. AuditRow(b, Top).sequence = Top BY DEF AuditRow
  <2>4. Top \in Numbers BY <2>2, <2>3
  <2>5. \A r \in RowsOf(b) : r.sequence \in Nat /\ r.sequence <= Top BY <1>1, RowMember
  <2>6. ASSUME NEW n \in Numbers, \A r \in RowsOf(b) : r.sequence <= n PROVE n = Top
    <3>1. n \in Nat /\ n <= Top BY <2>5
    <3>2. Top <= n BY <2>2, <2>3, <2>6
    <3> QED BY <1>1, <3>1, <3>2
  <2>7. (CHOOSE n \in Numbers : \A r \in RowsOf(b) : r.sequence <= n) = Top
    BY <2>4, <2>5, <2>6
  <2> QED BY <2>2, <2>7 DEF MaxSequence
<1> QED BY <1>2, <1>3

\* The log begins empty.
LEMMA AuditInitInv == AuditInit => AuditInv
<1> SUFFICES ASSUME AuditInit PROVE AuditInv
  OBVIOUS
<1> USE DEF AuditInit
<1>1. \A b \in Subjects : commits[b] = <<>> /\ Len(commits[b]) = 0 OBVIOUS
<1>2. AuditTypes BY DEF AuditTypes, LockKeys, AuditPCs
<1>3. LockIsHeld BY DEF LockIsHeld, InLock
<1>4. RowsAreCommits BY <1>1 DEF RowsAreCommits
<1>5. NextIsFree BY DEF NextIsFree
<1> QED BY <1>2, <1>3, <1>4, <1>5 DEF AuditInv

\* A writer that moves leaves the others where they were.
LEMMA WriterMoves ==
  ASSUME AuditTypes, NEW w \in Writers, NEW pc \in AuditPCs, AuditGoto(w, pc)
  PROVE  /\ writer' \in [Writers -> [pc : AuditPCs, batch : Subjects, next : Nat]]
         /\ writer'[w].pc = pc
         /\ \A v \in Writers : v # w => writer'[v].pc = writer[v].pc
         /\ \A v \in Writers : writer'[v].batch = writer[v].batch
         /\ \A v \in Writers : writer'[v].next = writer[v].next
<1>1. writer' = [writer EXCEPT ![w] = [writer[w] EXCEPT !.pc = pc]] BY DEF AuditGoto
<1>2. writer[w] \in [pc : AuditPCs, batch : Subjects, next : Nat] BY DEF AuditTypes
<1>3. [writer[w] EXCEPT !.pc = pc] \in [pc : AuditPCs, batch : Subjects, next : Nat] BY <1>2
<1>4. writer'[w] = [writer[w] EXCEPT !.pc = pc] /\ \A v \in Writers : v # w => writer'[v] = writer[v]
  BY <1>1 DEF AuditTypes
<1>5. writer'[w].pc = pc /\ writer'[w].batch = writer[w].batch /\ writer'[w].next = writer[w].next
  BY <1>2, <1>4
<1>6. writer' \in [Writers -> [pc : AuditPCs, batch : Subjects, next : Nat]] BY <1>1, <1>3 DEF AuditTypes
<1> QED BY <1>4, <1>5, <1>6

\* Every step keeps the log in step with the commits.
LEMMA AuditStep == AuditInv /\ [AuditNext]_auditVars => AuditInv'
<1> SUFFICES ASSUME AuditInv, [AuditNext]_auditVars PROVE AuditInv'
  OBVIOUS
<1> USE DEF AuditInv
<1>1. \A w \in Writers : writer[w].batch \in Subjects /\ HashText[writer[w].batch] \in LockKeys
  BY DEF AuditTypes, LockKeys
\* A step that leaves the tables and locks alone and brings its writer nowhere new.
<1>2. ASSUME NEW w \in Writers, NEW pc \in AuditPCs, AuditGoto(w, pc), UNCHANGED <<auditRows, commits, xactLock>>,
             pc \in {"insert", "commit"} => writer[w].pc \in {"insert", "commit"}, pc # "max"
      PROVE  AuditInv'
  <2>1. AuditTypes' BY <1>2, WriterMoves DEF AuditTypes
  <2>2. RowsAreCommits' BY <1>2 DEF RowsAreCommits, AuditRow
  <2>3. /\ \A v \in Writers : writer'[v].batch = writer[v].batch /\ writer'[v].next = writer[v].next
        /\ writer'[w].pc = pc /\ \A v \in Writers : v # w => writer'[v].pc = writer[v].pc
    BY <1>2, WriterMoves
  <2>4. LockIsHeld' BY <1>2, <2>3 DEF LockIsHeld, InLock
  <2>5. NextIsFree' BY <1>2, <2>3 DEF NextIsFree
  <2> QED BY <2>1, <2>2, <2>4, <2>5
<1>3. ASSUME NEW w \in Writers, BeginAudit(w) PROVE AuditInv'
  BY <1>2, <1>3 DEF BeginAudit, AuditPCs
<1>4. ASSUME NEW w \in Writers, InsertAudit(w) PROVE AuditInv'
  <2>1. writer[w].pc = "insert" /\ UNCHANGED <<auditRows, commits, xactLock>>
        /\ (AuditGoto(w, "rollback") \/ AuditGoto(w, "commit"))
    BY <1>4 DEF InsertAudit
  <2> QED BY <1>2, <2>1 DEF AuditPCs
<1>5. ASSUME NEW w \in Writers, AuditFails(w) PROVE AuditInv'
  BY <1>2, <1>5 DEF AuditFails, AuditPCs
<1>6. ASSUME NEW w \in Writers, TakeXactLock(w) PROVE AuditInv'
  <2> DEFINE k == HashText[writer[w].batch]
  <2>1. AuditGoto(w, "max") /\ xactLock[k] = {} /\ xactLock' = [xactLock EXCEPT ![k] = {w}]
        /\ UNCHANGED <<auditRows, commits>>
    BY <1>6 DEF TakeXactLock
  <2>2. k \in LockKeys BY <1>1
  <2>3. AuditTypes' BY <2>1, <2>2, WriterMoves DEF AuditTypes, AuditPCs
  <2>4. RowsAreCommits' BY <2>1 DEF RowsAreCommits, AuditRow
  <2>5. /\ \A v \in Writers : writer'[v].batch = writer[v].batch /\ writer'[v].next = writer[v].next
        /\ writer'[w].pc = "max" /\ \A v \in Writers : v # w => writer'[v].pc = writer[v].pc
    <3>1. "max" \in AuditPCs BY DEF AuditPCs
    <3> QED BY <2>1, <3>1, WriterMoves
  <2>6. LockIsHeld'
    <3>1. SUFFICES ASSUME NEW v \in Writers, InLock(v)'
                   PROVE  xactLock'[HashText[writer'[v].batch]] = {v}
      BY DEF LockIsHeld
    <3>2. CASE v = w BY <2>1, <2>2, <2>5, <3>2 DEF AuditTypes
    <3>3. CASE v # w
      <4>1. xactLock[HashText[writer[v].batch]] = {v} BY <2>5, <3>1, <3>3 DEF LockIsHeld, InLock
      <4>2. HashText[writer[v].batch] # k BY <2>1, <4>1
      <4>3. HashText[writer[v].batch] \in LockKeys BY <1>1
      <4> QED BY <2>1, <2>5, <4>1, <4>2, <4>3 DEF AuditTypes
    <3> QED BY <3>2, <3>3
  <2>7. NextIsFree' BY <2>1, <2>5 DEF NextIsFree
  <2> QED BY <2>3, <2>4, <2>6, <2>7
<1>7. ASSUME NEW w \in Writers, NextSequence(w) PROVE AuditInv'
  <2>1. /\ writer[w].pc = "max" /\ UNCHANGED <<auditRows, commits, xactLock>>
        /\ writer' = [writer EXCEPT ![w].pc = "insert", ![w].next = MaxSequence(writer[w].batch) + 1]
    BY <1>7 DEF NextSequence
  <2>2. MaxSequence(writer[w].batch) = Len(commits[writer[w].batch]) BY <1>1, MaxIsCount
  <2>3. Len(commits[writer[w].batch]) \in Nat BY <1>1 DEF AuditTypes
  <2>4. writer' = [writer EXCEPT ![w] = [@ EXCEPT !.pc = "insert", !.next = MaxSequence(writer[w].batch) + 1]]
    BY <2>1
  <2>5. /\ writer'[w] = [writer[w] EXCEPT !.pc = "insert", !.next = MaxSequence(writer[w].batch) + 1]
        /\ \A v \in Writers : v # w => writer'[v] = writer[v]
    BY <2>4 DEF AuditTypes
  <2>6. AuditTypes'
    <3>1. [writer[w] EXCEPT !.pc = "insert", !.next = MaxSequence(writer[w].batch) + 1]
            \in [pc : AuditPCs, batch : Subjects, next : Nat]
      <4>1. writer[w] \in [pc : AuditPCs, batch : Subjects, next : Nat] BY DEF AuditTypes
      <4>2. MaxSequence(writer[w].batch) + 1 \in Nat BY <2>2, <2>3
      <4>3. "insert" \in AuditPCs BY DEF AuditPCs
      <4> QED BY <4>1, <4>2, <4>3
    <3>2. writer' \in [Writers -> [pc : AuditPCs, batch : Subjects, next : Nat]]
      BY <2>4, <3>1 DEF AuditTypes
    <3> QED BY <2>1, <3>2 DEF AuditTypes
  <2>7. RowsAreCommits' BY <2>1 DEF RowsAreCommits, AuditRow
  <2>8. writer'[w].batch = writer[w].batch /\ writer'[w].pc = "insert"
        /\ writer'[w].next = MaxSequence(writer[w].batch) + 1
    BY <2>5 DEF AuditTypes
  <2>9. LockIsHeld'
    <3>1. \A v \in Writers : /\ writer'[v].batch = writer[v].batch
                             /\ writer'[v].pc \in {"max", "insert", "commit"} => writer[v].pc \in {"max", "insert", "commit"}
      <4> SUFFICES ASSUME NEW v \in Writers
                   PROVE  /\ writer'[v].batch = writer[v].batch
                          /\ writer'[v].pc \in {"max", "insert", "commit"} => writer[v].pc \in {"max", "insert", "commit"}
        OBVIOUS
      <4>1. CASE v = w BY <2>1, <2>8, <4>1
      <4>2. CASE v # w BY <2>5, <4>2
      <4> QED BY <4>1, <4>2
    <3> QED BY <2>1, <3>1 DEF LockIsHeld, InLock
  <2>10. NextIsFree'
    <3>1. writer'[w].next = Len(commits[writer'[w].batch]) + 1 BY <2>2, <2>8
    <3> SUFFICES ASSUME NEW v \in Writers, writer'[v].pc \in {"insert", "commit"}
                 PROVE  writer'[v].next = Len(commits'[writer'[v].batch]) + 1
      BY DEF NextIsFree
    <3>2. CASE v = w BY <2>1, <3>1, <3>2
    <3>3. CASE v # w
      <4>1. writer'[v] = writer[v] BY <2>5, <3>3
      <4> QED BY <2>1, <4>1 DEF NextIsFree
    <3> QED BY <3>2, <3>3
  <2> QED BY <2>6, <2>7, <2>9, <2>10
\* The end of a transaction frees the writer's lock and no other's.
<1>8. ASSUME NEW w \in Writers, NEW pc \in {"done", "failed"}, AuditGoto(w, pc), xactLock' = Held(w)
      PROVE  /\ LockIsHeld' /\ xactLock' \in [LockKeys -> SUBSET Writers]
             /\ writer' \in [Writers -> [pc : AuditPCs, batch : Subjects, next : Nat]]
             /\ \A v \in Writers : writer'[v].batch = writer[v].batch /\ writer'[v].next = writer[v].next
             /\ writer'[w].pc = pc /\ \A v \in Writers : v # w => writer'[v].pc = writer[v].pc
  <2>1. /\ writer' \in [Writers -> [pc : AuditPCs, batch : Subjects, next : Nat]]
        /\ \A v \in Writers : writer'[v].batch = writer[v].batch /\ writer'[v].next = writer[v].next
        /\ writer'[w].pc = pc /\ \A v \in Writers : v # w => writer'[v].pc = writer[v].pc
    <3>1. pc \in AuditPCs BY DEF AuditPCs
    <3> QED BY <1>8, <3>1, WriterMoves
  <2>2. xactLock' = [k \in LockKeys |-> xactLock[k] \ {w}] BY <1>8 DEF Held, AuditTypes
  <2>3. xactLock' \in [LockKeys -> SUBSET Writers] BY <2>2 DEF AuditTypes
  <2>4. LockIsHeld'
    <3>1. SUFFICES ASSUME NEW v \in Writers, InLock(v)'
                   PROVE  xactLock'[HashText[writer'[v].batch]] = {v}
      BY DEF LockIsHeld
    <3>2. v # w BY <2>1, <3>1 DEF InLock
    <3>3. xactLock[HashText[writer[v].batch]] = {v} BY <2>1, <3>1, <3>2 DEF LockIsHeld, InLock
    <3> QED BY <1>1, <2>1, <2>2, <3>2, <3>3
  <2> QED BY <2>1, <2>3, <2>4
<1>9. ASSUME NEW w \in Writers, RollbackAudit(w) PROVE AuditInv'
  <2>1. xactLock' = Held(w) /\ AuditGoto(w, "failed") /\ UNCHANGED <<auditRows, commits>>
    BY <1>9 DEF RollbackAudit
  <2>2. RowsAreCommits' BY <2>1 DEF RowsAreCommits, AuditRow
  <2>3. NextIsFree' BY <1>8, <2>1 DEF NextIsFree
  <2>4. AuditTypes' BY <1>8, <2>1 DEF AuditTypes
  <2> QED BY <1>8, <2>1, <2>2, <2>3, <2>4
<1>10. ASSUME NEW w \in Writers, CommitAudit(w) PROVE AuditInv'
  <2>1. PICK b \in Subjects : b = writer[w].batch BY <1>1
  <2>2. commits[b] \in Seq(Writers) /\ Len(commits[b]) \in Nat BY DEF AuditTypes
  <2>3. PICK n \in Nat : n = Len(commits[b]) + 1 BY <2>2
  <2>4. writer[w].pc = "commit" /\ xactLock' = Held(w) /\ AuditGoto(w, "done")
    BY <1>10 DEF CommitAudit
  <2>5. writer[w].next = n BY <2>1, <2>3, <2>4 DEF NextIsFree
  <2>6. /\ commits' = [commits EXCEPT ![b] = Append(@, w)]
        /\ auditRows' = auditRows \cup {[batch |-> b, sequence |-> n, transition |-> w]}
    BY <1>10, <2>1, <2>5 DEF CommitAudit
  <2>7. commits'[b] = Append(commits[b], w) /\ \A c \in Subjects : c # b => commits'[c] = commits[c]
    BY <2>6 DEF AuditTypes
  <2>8. Len(commits'[b]) = n /\ commits'[b][n] = w
        /\ \A i \in 1..Len(commits[b]) : commits'[b][i] = commits[b][i]
    BY <2>2, <2>3, <2>7
  <2>9. AuditTypes'
    <3>1. commits' \in [Subjects -> Seq(Writers)] BY <2>2, <2>6 DEF AuditTypes
    <3>2. auditRows' \subseteq [batch : Subjects, sequence : Nat, transition : Writers]
      BY <2>6 DEF AuditTypes
    <3> QED BY <1>8, <2>4, <3>1, <3>2 DEF AuditTypes
  <2>10. RowsAreCommits'
    <3>1. ASSUME NEW r \in auditRows'
          PROVE  \E c \in Subjects : \E i \in 1..Len(commits'[c]) : i \in Nat /\ r = AuditRow(c, i)'
      <4>1. CASE r \in auditRows
        <5> DEFINE c == r.batch
                   i == r.sequence
        <5>1. c \in Subjects /\ i \in Nat /\ r \in RowsOf(c) BY <4>1 DEF AuditTypes, RowsOf
        <5>2. i \in 1..Len(commits[c]) /\ r = AuditRow(c, i) BY <5>1, RowMember
        <5> HIDE DEF c, i
        <5>3. i \in 1..Len(commits'[c]) /\ commits'[c][i] = commits[c][i]
          <6>1. CASE c = b BY <2>2, <2>3, <2>8, <5>2, <6>1
          <6>2. CASE c # b BY <2>7, <5>1, <5>2, <6>2
          <6> QED BY <6>1, <6>2
        <5>4. AuditRow(c, i)' = AuditRow(c, i) BY <5>3 DEF AuditRow
        <5> QED BY <5>1, <5>2, <5>3, <5>4
      <4>2. CASE r = [batch |-> b, sequence |-> n, transition |-> w]
        <5>1. r = AuditRow(b, n)' BY <2>8, <4>2 DEF AuditRow
        <5>2. n \in 1..Len(commits'[b]) BY <2>2, <2>3, <2>8
        <5> QED BY <5>1, <5>2
      <4> QED BY <2>6, <4>1, <4>2
    <3>2. ASSUME NEW c \in Subjects, NEW i \in Nat, i \in 1..Len(commits'[c]) PROVE AuditRow(c, i)' \in auditRows'
      <4>1. CASE c = b /\ i = n
        <5>1. AuditRow(c, i)' = [batch |-> b, sequence |-> n, transition |-> w] BY <2>8, <4>1 DEF AuditRow
        <5> QED BY <2>6, <5>1
      <4>2. CASE ~(c = b /\ i = n)
        <5>1. i \in 1..Len(commits[c]) /\ commits'[c][i] = commits[c][i]
          <6>1. CASE c = b BY <2>2, <2>3, <2>8, <3>2, <4>2, <6>1
          <6>2. CASE c # b BY <2>7, <3>2, <6>2
          <6> QED BY <6>1, <6>2
        <5>2. AuditRow(c, i)' = AuditRow(c, i) BY <5>1 DEF AuditRow
        <5>3. AuditRow(c, i) \in auditRows BY <5>1, RowMember DEF RowsOf
        <5> QED BY <2>6, <5>2, <5>3
      <4> QED BY <4>1, <4>2
    <3> DEFINE SetPairs == {q \in Subjects \X Nat : q[2] \in 1..Len(commits'[q[1]])}
    <3>3. auditRows' \subseteq {AuditRow(p[1], p[2])' : p \in SetPairs}
      <4>1. SUFFICES ASSUME NEW r \in auditRows' PROVE r \in {AuditRow(p[1], p[2])' : p \in SetPairs}
        OBVIOUS
      <4>2. PICK c \in Subjects : \E i \in 1..Len(commits'[c]) : i \in Nat /\ r = AuditRow(c, i)' BY <3>1
      <4>3. PICK i \in 1..Len(commits'[c]) : i \in Nat /\ r = AuditRow(c, i)' BY <4>2
      <4>4. <<c, i>> \in SetPairs BY <4>3
      <4> QED BY <4>3, <4>4 DEF AuditRow
    <3>4. {AuditRow(p[1], p[2])' : p \in SetPairs} \subseteq auditRows' BY <3>2
    <3> QED BY <3>3, <3>4 DEF RowsAreCommits, AuditRow
  <2>11. NextIsFree'
    <3>1. SUFFICES ASSUME NEW v \in Writers, writer'[v].pc \in {"insert", "commit"}
                   PROVE  writer'[v].next = Len(commits'[writer'[v].batch]) + 1
      BY DEF NextIsFree
    <3>2. v # w /\ writer[v].pc \in {"insert", "commit"} /\ writer'[v].next = writer[v].next
          /\ writer'[v].batch = writer[v].batch
      BY <1>8, <2>4, <3>1
    <3>3. xactLock[HashText[writer[v].batch]] = {v} /\ xactLock[HashText[b]] = {w}
      BY <2>1, <2>4, <3>2 DEF LockIsHeld, InLock
    <3>4. writer[v].batch # b BY <3>2, <3>3
    <3> QED BY <1>1, <2>7, <3>2, <3>4 DEF NextIsFree
  <2> QED BY <1>8, <2>4, <2>9, <2>10, <2>11
<1>11. CASE UNCHANGED auditVars
  BY <1>11 DEF auditVars, AuditTypes, LockIsHeld, InLock, RowsAreCommits, AuditRow, NextIsFree
<1> QED BY <1>3, <1>4, <1>5, <1>6, <1>7, <1>9, <1>10, <1>11 DEF AuditNext

\* auditLogger.ts:19-50, auditConsumer.ts:10-15: whatever fails between,
\* replaying a batch gives its transitions in the order they were committed,
\* numbered from 1 without a gap.
THEOREM ReplayFollowsCommits == AuditSpec => []ReplayIsCommitOrder
<1>1. AuditInv => ReplayIsCommitOrder
  <2> SUFFICES ASSUME AuditInv, NEW b \in Subjects PROVE ReplayBatch(b) = commits[b]
    BY DEF ReplayIsCommitOrder
  <2> USE DEF AuditInv
  <2>1. commits[b] \in Seq(Writers) BY DEF AuditTypes
  <2>2. {r.sequence : r \in RowsOf(b)} = 1..Len(commits[b])
    <3>1. \A n \in 1..Len(commits[b]) : AuditRow(b, n).sequence = n BY DEF AuditRow
    <3> QED BY <3>1, RowMember
  <2>3. ASSUME NEW n \in 1..Len(commits[b])
        PROVE  (CHOOSE r \in RowsOf(b) : r.sequence = n).transition = commits[b][n]
    <3>1. AuditRow(b, n) \in RowsOf(b) /\ AuditRow(b, n).sequence = n BY RowMember DEF AuditRow
    <3>2. \A r \in RowsOf(b) : r.sequence = n => r = AuditRow(b, n) BY RowMember
    <3>3. (CHOOSE r \in RowsOf(b) : r.sequence = n) = AuditRow(b, n) BY <3>1, <3>2
    <3>4. AuditRow(b, n).transition = commits[b][n] BY DEF AuditRow
    <3> QED BY <3>3, <3>4
  <2>4. commits[b] = [n \in 1..Len(commits[b]) |-> commits[b][n]] BY <2>1
  <2> QED BY <2>2, <2>3, <2>4 DEF ReplayBatch
<1> QED BY AuditInitInv, AuditStep, <1>1, PTL DEF AuditSpec

\* auditLogger.ts:24-40: the transaction lock keeps every number free until
\* its row is inserted, even for batches whose names share a hash.
THEOREM NumbersStayFree == AuditSpec => []NumbersAreFree
<1>1. AuditInv => NumbersAreFree
  <2> SUFFICES ASSUME AuditInv, NEW w \in Writers, writer[w].pc = "insert",
                      NEW r \in auditRows, r.batch = writer[w].batch
               PROVE  r.sequence # writer[w].next
    BY DEF NumbersAreFree
  <2> USE DEF AuditInv
  <2>1. writer[w].batch \in Subjects /\ Len(commits[writer[w].batch]) \in Nat BY DEF AuditTypes
  <2>2. r.sequence \in 1..Len(commits[writer[w].batch]) BY <2>1, RowMember DEF RowsOf
  <2>3. writer[w].next = Len(commits[writer[w].batch]) + 1 BY DEF NextIsFree
  <2> QED BY <2>1, <2>2, <2>3
<1> QED BY AuditInitInv, AuditStep, <1>1, PTL DEF AuditSpec

\* auditLogger.ts:24-40, 56-62: for any number of writers and batches, the log
\* of a batch is the history of its commits, and the number a writer has read
\* is free until it inserts.
THEOREM HistoryOfCommits == AuditSpec => []LogFollowsCommits
<1>1. ReplayIsCommitOrder /\ NumbersAreFree => LogFollowsCommits BY DEF LogFollowsCommits
<1> QED BY <1>1, ReplayFollowsCommits, NumbersStayFree, PTL

(***************************************************************************)
(* What the rate limiter guarantees for any window, limit and burst: a key *)
(* is never admitted above the best rate its policy allows.                *)
(***************************************************************************)
BucketTypes ==
  /\ clock \in Nat
  /\ DOMAIN history = DOMAIN buckets
  /\ \A k \in DOMAIN buckets :
       /\ buckets[k] \in [tokens : Nat, lastRefill : Nat, refillRate : Nat]
       /\ history[k] \in [admitted : Nat, best : Nat, born : Nat]

\* What a bucket has admitted and what it still holds were both paid for by its
\* burst and the time up to its last refill, at the best rate it ever had.
TokensArePaidFor ==
  \A k \in DOMAIN buckets :
    /\ history[k].born <= buckets[k].lastRefill /\ buckets[k].lastRefill <= clock
    /\ Token * history[k].admitted + buckets[k].tokens
         <= MaxTokens + history[k].best * (buckets[k].lastRefill - history[k].born)

LimiterInv == BucketTypes /\ TokensArePaidFor

\* rate_limit.ts:85-118: whatever the profile says, the rate is a number and
\* never above that of a healthy device.
LEMMA RateIsBounded == \A p : ComputeRefillRate(p) \in 0..FullRate
<1> TAKE p
<1> DEFINE battery == IF p.power.batteryLow THEN 50 ELSE 1
           signal == IF p.power.signalLow THEN 10 ELSE 1
           anomaly == IF p.txIntervals # <<>> /\ TooFast(Last(p.txIntervals), HistoricalStats(p.txIntervals))
                      THEN 2 ELSE 1
<1>1. battery \in {1, 50} /\ signal \in {1, 10} /\ anomaly \in {1, 2} OBVIOUS
<1>2. ComputeRefillRate(p) = FullRate \div (battery * signal * anomaly) BY DEF ComputeRefillRate
<1> HIDE DEF battery, signal, anomaly
<1>3. battery * signal \in {1, 10, 50, 500} BY <1>1
<1>4. battery * signal * anomaly \in {1, 2, 10, 20, 50, 100, 500, 1000} BY <1>1, <1>3
<1> QED BY <1>2, <1>4 DEF FullRate

\* Time and rates multiply: more of either pays for more.
LEMMA TimesGrows ==
  ASSUME NEW a \in Nat, NEW b \in Nat, NEW r \in Nat, a <= b
  PROVE  a * r <= b * r /\ r * a <= r * b
<1>1. PICK d \in Nat : b = a + d
  <2>1. b - a \in Nat /\ b = a + (b - a) OBVIOUS
  <2> QED BY <2>1
<1>2. b * r = a * r + d * r /\ r * b = r * a + r * d BY <1>1
<1>3. a * r \in Nat /\ d * r \in Nat /\ r * a \in Nat /\ r * d \in Nat OBVIOUS
<1> QED BY <1>2, <1>3

\* rate_limit.ts:36-56: a refill credits at most the time since the last one
\* at the best rate.
LEMMA RefillIsPaid ==
  ASSUME NEW tokens \in Nat, NEW last \in Nat, NEW later \in Nat, NEW born \in Nat, NEW rate \in Nat,
         NEW best \in Nat, NEW was \in Nat, NEW used \in Nat, NEW cap \in Nat,
         born <= last, last <= later, rate <= best, was <= best,
         used + tokens <= cap + was * (last - born)
  PROVE  used + tokens + (later - last) * rate <= cap + best * (later - born)
<1>1. PICK x \in Nat, y \in Nat : x = last - born /\ y = later - last OBVIOUS
<1>2. was * x <= best * x /\ y * rate <= y * best BY TimesGrows
<1>3. best * (later - born) = best * x + best * y
  <2>1. later - born = x + y BY <1>1
  <2> QED BY <2>1
<1>4. y * best = best * y OBVIOUS
<1>5. /\ was * x \in Nat /\ best * x \in Nat /\ y * rate \in Nat /\ best * y \in Nat OBVIOUS
<1>6. used + tokens <= cap + was * x BY <1>1
<1>7. used + tokens + y * rate <= cap + best * (later - born) BY <1>2, <1>3, <1>4, <1>5, <1>6
<1> QED BY <1>1, <1>7

\* The history of a bucket, with its first two fields set.
LEMMA Updated ==
  ASSUME NEW past \in [admitted : Nat, best : Nat, born : Nat], NEW n \in Nat, NEW r \in Nat
  PROVE  [past EXCEPT !.admitted = n, !.best = r] \in [admitted : Nat, best : Nat, born : Nat]
OBVIOUS

\* A request that is served keeps what its bucket owes paid for.
LEMMA ServeKeeps ==
  ASSUME LimiterInv, NEW key \in LimiterKeys, Serve(key)
  PROVE  LimiterInv'
<1> USE DEF LimiterInv
<1> DEFINE fresh == key \notin DOMAIN buckets
           before == IF fresh THEN NewBucket ELSE buckets[key]
           bucket == Recompute(before, key, profiles')
           past == IF fresh THEN [admitted |-> 0, best |-> 0, born |-> clock] ELSE history[key]
           after == Consumed(bucket)
           later == [past EXCEPT !.admitted = @ + (IF Admits(bucket) THEN 1 ELSE 0),
                               !.best = IF @ > bucket.refillRate THEN @ ELSE bucket.refillRate]
<1>1. /\ buckets' = With(buckets, key, after) /\ history' = With(history, key, later) /\ clock' = clock
  BY DEF Serve
<1>2. clock \in Nat /\ MaxTokens \in Nat /\ FullRate \in Nat /\ Token = 1000
  BY BurstAssumption DEF BucketTypes, MaxTokens, Token, FullRate
<1>3. /\ before \in [tokens : Nat, lastRefill : Nat, refillRate : Nat]
      /\ past \in [admitted : Nat, best : Nat, born : Nat]
      /\ past.born <= before.lastRefill /\ before.lastRefill <= clock
      /\ Token * past.admitted + before.tokens <= MaxTokens + past.best * (before.lastRefill - past.born)
  <2>1. CASE fresh
    <3>1. before = [tokens |-> MaxTokens, lastRefill |-> clock, refillRate |-> FullRate]
      BY <2>1 DEF NewBucket
    <3>2. past = [admitted |-> 0, best |-> 0, born |-> clock] BY <2>1
    <3> HIDE DEF before, past
    <3> QED BY <1>2, <3>1, <3>2
  <2>2. CASE ~fresh
    <3>1. key \in DOMAIN buckets /\ before = buckets[key] /\ past = history[key] BY <2>2
    <3> QED BY <3>1 DEF BucketTypes, TokensArePaidFor
  <2> QED BY <2>1, <2>2
<1> HIDE DEF before, past
<1>4. /\ bucket \in [tokens : Nat, lastRefill : Nat, refillRate : Nat]
      /\ bucket.tokens = before.tokens /\ bucket.lastRefill = before.lastRefill
  <2>1. CASE key \in DOMAIN profiles'
    <3>1. ComputeRefillRate(profiles'[key]) \in Nat BY RateIsBounded DEF FullRate
    <3>2. bucket = [before EXCEPT !.refillRate = ComputeRefillRate(profiles'[key])]
      BY <2>1 DEF Recompute
    <3> QED BY <1>3, <3>1, <3>2
  <2>2. CASE key \notin DOMAIN profiles'
    BY <1>3, <2>2 DEF Recompute
  <2> QED BY <2>1, <2>2
<1> HIDE DEF bucket
<1>5. PICK best \in Nat : /\ best = later.best /\ past.best <= best /\ bucket.refillRate <= best
  BY <1>3, <1>4
<1>6. PICK credit \in Nat : credit = (clock - bucket.lastRefill) * bucket.refillRate
  <2>1. clock - bucket.lastRefill \in Nat BY <1>2, <1>3, <1>4
  <2> QED BY <1>4, <2>1
<1>7. PICK tokens \in Nat, last \in Nat, rate \in Nat, was \in Nat, born \in Nat, used \in Nat, cap \in Nat, time \in Nat :
        /\ tokens = bucket.tokens /\ last = bucket.lastRefill /\ rate = bucket.refillRate
        /\ was = past.best /\ born = past.born /\ used = Token * past.admitted
        /\ cap = MaxTokens /\ time = clock
  <2>1. PICK paid : paid = Token * past.admitted OBVIOUS
  <2>2. paid \in Nat BY <1>2, <1>3, <2>1
  <2>3. /\ bucket.tokens \in Nat /\ bucket.lastRefill \in Nat /\ bucket.refillRate \in Nat
        /\ past.best \in Nat /\ past.born \in Nat /\ MaxTokens \in Nat /\ clock \in Nat
    BY <1>2, <1>3, <1>4
  <2> QED BY <2>1, <2>2, <2>3, Zenon
<1>8. PICK full \in Nat : full = MinOf(MaxTokens, bucket.tokens + credit) /\ full <= bucket.tokens + credit
  <2>1. (IF cap < tokens + credit THEN cap ELSE tokens + credit) \in Nat
        /\ (IF cap < tokens + credit THEN cap ELSE tokens + credit) <= tokens + credit
    OBVIOUS
  <2> QED BY <1>7, <2>1 DEF MinOf
<1>9. Refill(bucket) = [bucket EXCEPT !.tokens = full, !.lastRefill = clock]
  BY <1>6, <1>8 DEF Refill
<1>10. Refill(bucket) \in [tokens : Nat, lastRefill : Nat, refillRate : Nat] /\ Refill(bucket).tokens = full
       /\ Refill(bucket).lastRefill = clock
  BY <1>2, <1>4, <1>8, <1>9
<1>11. /\ after \in [tokens : Nat, lastRefill : Nat, refillRate : Nat] /\ after.lastRefill = clock
       /\ later \in [admitted : Nat, best : Nat, born : Nat] /\ later.born = past.born /\ later.best = best
       /\ Token * later.admitted + after.tokens = Token * past.admitted + full
  <2>1. CASE full >= Token
    <3>1. after = [Refill(bucket) EXCEPT !.tokens = @ - Token] BY <1>10, <2>1 DEF Consumed
    <3>2. Admits(bucket) BY <1>10, <2>1 DEF Admits
    <3>3. after \in [tokens : Nat, lastRefill : Nat, refillRate : Nat] /\ after.lastRefill = clock
          /\ after.tokens = full - Token
      BY <1>2, <1>10, <2>1, <3>1
    <3>4. later \in [admitted : Nat, best : Nat, born : Nat] /\ later.born = past.born
          /\ later.admitted = past.admitted + 1
      <4>1. later.admitted = past.admitted + 1 /\ later.born = past.born BY <1>3, <3>2
      <4>2. later = [past EXCEPT !.admitted = later.admitted, !.best = later.best] BY <1>3
      <4> HIDE DEF later
      <4>3. later.admitted \in Nat /\ later.best \in Nat BY <1>3, <1>5, <4>1
      <4> QED BY <1>3, <4>1, <4>2, <4>3, Updated
    <3>5. Token * (past.admitted + 1) = Token * past.admitted + Token BY <1>2, <1>3
    <3> HIDE DEF after, later
    <3> QED BY <1>2, <1>3, <1>5, <1>8, <3>3, <3>4, <3>5
  <2>2. CASE ~(full >= Token)
    <3>1. after = Refill(bucket) BY <1>10, <2>2 DEF Consumed
    <3>2. ~Admits(bucket) BY <1>10, <2>2 DEF Admits
    <3>3. later \in [admitted : Nat, best : Nat, born : Nat] /\ later.born = past.born
          /\ later.admitted = past.admitted
      <4>1. later.admitted = past.admitted /\ later.born = past.born BY <1>3, <3>2
      <4>2. later = [past EXCEPT !.admitted = later.admitted, !.best = later.best] BY <1>3
      <4> HIDE DEF later
      <4> QED BY <1>3, <1>5, <4>1, <4>2, Updated
    <3> HIDE DEF after, later
    <3> QED BY <1>3, <1>5, <1>10, <3>1, <3>3
  <2> QED BY <2>1, <2>2
<1> HIDE DEF after, later
<1>12. /\ later.born <= after.lastRefill /\ after.lastRefill <= clock
       /\ Token * later.admitted + after.tokens <= MaxTokens + later.best * (after.lastRefill - later.born)
  <2>1. used + tokens + credit <= cap + best * (time - born)
    <3>1. /\ born <= last /\ last <= time /\ rate <= best /\ was <= best
          /\ used + tokens <= cap + was * (last - born)
      BY <1>3, <1>4, <1>5, <1>7
    <3>2. used + tokens + (time - last) * rate <= cap + best * (time - born) BY <3>1, RefillIsPaid
    <3>3. credit = (time - last) * rate BY <1>6, <1>7
    <3> QED BY <3>2, <3>3
  <2>2. best * (time - born) \in Nat
    <3>1. time - born \in Nat BY <1>3, <1>4, <1>7
    <3> QED BY <3>1
  <2>3. full <= tokens + credit BY <1>7, <1>8
  <2>4. used + full <= cap + best * (time - born) BY <2>1, <2>2, <2>3
  <2>5. Token * later.admitted + after.tokens = used + full BY <1>7, <1>11
  <2>6. later.best * (after.lastRefill - later.born) = best * (time - born) BY <1>7, <1>11
  <2>7. later.born <= after.lastRefill /\ after.lastRefill <= clock BY <1>2, <1>3, <1>4, <1>11
  <2> QED BY <1>7, <2>4, <2>5, <2>6, <2>7
<1>13. /\ DOMAIN buckets' = DOMAIN buckets \cup {key} /\ DOMAIN history' = DOMAIN history \cup {key}
       /\ buckets'[key] = after /\ history'[key] = later
       /\ \A k \in DOMAIN buckets : k # key => buckets'[k] = buckets[k]
       /\ \A k \in DOMAIN history : k # key => history'[k] = history[k]
  BY <1>1 DEF With
<1>14. BucketTypes' BY <1>1, <1>11, <1>13 DEF BucketTypes
<1>15. TokensArePaidFor'
  <2> SUFFICES ASSUME NEW k \in DOMAIN buckets'
               PROVE  /\ history'[k].born <= buckets'[k].lastRefill /\ buckets'[k].lastRefill <= clock
                      /\ Token * history'[k].admitted + buckets'[k].tokens
                           <= MaxTokens + history'[k].best * (buckets'[k].lastRefill - history'[k].born)
    BY <1>1 DEF TokensArePaidFor, MaxTokens, Token
  <2>1. CASE k = key BY <1>12, <1>13, <2>1
  <2>2. CASE k # key
    <3>1. k \in DOMAIN buckets /\ buckets'[k] = buckets[k] /\ history'[k] = history[k]
      BY <1>13, <2>2 DEF BucketTypes
    <3> QED BY <3>1 DEF TokensArePaidFor
  <2> QED BY <2>1, <2>2
<1> QED BY <1>14, <1>15

\* The store begins empty.
LEMMA LimiterInitInv == LimiterInit => LimiterInv
BY DEF LimiterInit, LimiterInv, BucketTypes, TokensArePaidFor

\* Every report, clean-up and tick keeps the invariant.
LEMMA LimiterStep == LimiterInv /\ [LimiterNext]_limiterVars => LimiterInv'
<1> SUFFICES ASSUME LimiterInv, [LimiterNext]_limiterVars PROVE LimiterInv'
  OBVIOUS
<1>1. ASSUME NEW d \in Devices, NEW power \in Powers, AllowReport(d, power) PROVE LimiterInv'
  BY <1>1, ServeKeeps DEF AllowReport, LimiterKeys
<1>2. ASSUME NEW key \in LimiterKeys, AllowBare(key) PROVE LimiterInv'
  BY <1>2, ServeKeeps DEF AllowBare
<1>3. CASE CleanupCron
  <2>1. PICK gone : buckets' = Without(buckets, gone) /\ history' = Without(history, gone)
    BY <1>3 DEF CleanupCron
  <2>2. clock' = clock BY <1>3 DEF CleanupCron
  <2>3. DOMAIN history = DOMAIN buckets BY DEF LimiterInv, BucketTypes
  <2>4. /\ DOMAIN buckets' = DOMAIN buckets \ gone /\ DOMAIN history' = DOMAIN buckets'
        /\ \A k \in DOMAIN buckets' : buckets'[k] = buckets[k] /\ history'[k] = history[k]
    BY <2>1, <2>3 DEF Without
  <2> QED BY <2>2, <2>4 DEF LimiterInv, BucketTypes, TokensArePaidFor, MaxTokens, Token
<1>4. CASE TickClock
  <2>1. clock' = clock + 1 /\ buckets' = buckets /\ history' = history BY <1>4 DEF TickClock
  <2>2. clock' \in Nat BY <2>1 DEF LimiterInv, BucketTypes
  <2>3. BucketTypes' BY <2>1, <2>2 DEF LimiterInv, BucketTypes
  <2>4. \A k \in DOMAIN buckets : buckets[k].lastRefill \in Nat /\ clock \in Nat
    BY DEF LimiterInv, BucketTypes
  <2>5. \A k \in DOMAIN buckets : buckets[k].lastRefill <= clock'
    BY <2>1, <2>4 DEF LimiterInv, TokensArePaidFor
  <2> QED BY <2>1, <2>3, <2>5 DEF LimiterInv, TokensArePaidFor, MaxTokens, Token
<1>5. CASE UNCHANGED limiterVars
  BY <1>5 DEF limiterVars, LimiterInv, BucketTypes, TokensArePaidFor, MaxTokens, Token
<1> QED BY <1>1, <1>2, <1>3, <1>4, <1>5 DEF LimiterNext

\* rate_limit.ts:36-56, 132-159: for any burst, any devices, any reports in any
\* order and any clean-ups, the requests a bucket admits over its life are at
\* most its burst and the time at the best rate it ever had.
THEOREM NeverAboveBestRate == LimiterSpec => []AdmittedAtBestRate
<1>1. LimiterInv => AdmittedAtBestRate
  <2> SUFFICES ASSUME LimiterInv, NEW k \in DOMAIN buckets
               PROVE  Token * history[k].admitted <= MaxTokens + history[k].best * (clock - history[k].born)
    BY DEF AdmittedAtBestRate
  <2>1. PICK used \in Nat, tokens \in Nat, last \in Nat, born \in Nat, best \in Nat, cap \in Nat, time \in Nat :
          /\ used = Token * history[k].admitted /\ tokens = buckets[k].tokens
          /\ last = buckets[k].lastRefill /\ born = history[k].born /\ best = history[k].best
          /\ cap = MaxTokens /\ time = clock
    <3>1. /\ buckets[k] \in [tokens : Nat, lastRefill : Nat, refillRate : Nat]
          /\ history[k] \in [admitted : Nat, best : Nat, born : Nat] /\ clock \in Nat
      BY DEF LimiterInv, BucketTypes
    <3>2. MaxTokens \in Nat /\ Token \in Nat BY BurstAssumption DEF MaxTokens, Token
    <3>3. Token * history[k].admitted \in Nat BY <3>1, <3>2
    <3> QED BY <3>1, <3>2, <3>3
  <2>2. born <= last /\ last <= time /\ used + tokens <= cap + best * (last - born)
    BY <2>1 DEF LimiterInv, TokensArePaidFor
  <2>3. PICK x \in Nat, y \in Nat : x = last - born /\ y = time - born BY <2>2
  <2>4. x <= y BY <2>2, <2>3
  <2>5. best * x <= best * y /\ best * x \in Nat /\ best * y \in Nat BY <2>4, TimesGrows
  <2>6. used <= cap + best * y BY <2>2, <2>3, <2>5
  <2> QED BY <2>1, <2>3, <2>6
<1> QED BY LimiterInitInv, LimiterStep, <1>1, PTL DEF LimiterSpec

(***************************************************************************)
(* What the ledger catch-up guarantees for any ledgers, events, answers of *)
(* Horizon, failures and deaths.                                           *)
(***************************************************************************)
\* A set of numbers up to a bound has a least and a greatest member.
LEMMA LeastNumber ==
  ASSUME NEW S, S \subseteq Nat, S # {}
  PROVE  \E m \in S : \A n \in S : m <= n
<1> DEFINE R == StrictSubsetOrdering(Nat)
           T == {0..n : n \in S}
<1>1. T \subseteq FiniteSubsetsOf(Nat) /\ T # {}
  <2>1. \A n \in S : n \in Int /\ 0..n \in SUBSET Nat OBVIOUS
  <2>2. \A n \in S : IsFiniteSet(0..n) BY <2>1, FS_Interval
  <2> QED BY <2>1, <2>2 DEF FiniteSubsetsOf
<1>2. PICK x \in T : \A y \in T : <<y, x>> \notin R
  BY <1>1, FS_StrictSubsetOrderingWellFounded, WFMin
<1>3. PICK m \in S : x = 0..m
  OBVIOUS
<1>4. ASSUME NEW n \in S, n < m PROVE FALSE
  <2>1. 0..n \in SUBSET Nat /\ x \in SUBSET Nat /\ 0..n \subseteq x BY <1>3, <1>4
  <2>2. m \in x /\ m \notin 0..n BY <1>3, <1>4
  <2>3. <<0..n, x>> \in R BY <2>1, <2>2 DEF StrictSubsetOrdering
  <2> QED BY <1>2, <2>3
<1>5. \A n \in S : m <= n BY <1>4
<1> QED BY <1>5

\* And so has one with a bound a greatest.
LEMMA GreatestNumber ==
  ASSUME NEW top \in Nat, NEW S, S \subseteq 0..top, S # {}
  PROVE  \E m \in S : \A n \in S : n <= m
<1> DEFINE T == {top - k : k \in S}
<1>1. T \subseteq Nat /\ T # {}
  <2>1. \A k \in 0..top : top - k \in Nat OBVIOUS
  <2>2. \A k \in S : top - k \in Nat BY <2>1
  <2> QED BY <2>2
<1>2. PICK t \in T : \A n \in T : t <= n BY <1>1, LeastNumber
<1>3. PICK m \in S : t = top - m OBVIOUS
<1>4. \A n \in S : top - n \in T OBVIOUS
<1>5. ASSUME NEW n \in S PROVE n <= m
  <2>1. top - m <= top - n BY <1>2, <1>3, <1>4
  <2>2. m \in Int /\ n \in Int OBVIOUS
  <2> QED BY <2>1, <2>2
<1> QED BY <1>5

(***************************************************************************)
(* The gap query.                                                          *)
(***************************************************************************)
\* event_catchup.ts:96-114: a gap lies strictly between two known ledgers and
\* holds none.
LEMMA GapIs ==
  ASSUME CatchupAssumption, NEW known, known \subseteq Ledgers, NEW g \in Gaps(known)
  PROVE  \E a, b \in known : /\ a < b /\ b - a > 1 /\ g = [start |-> a + 1, end |-> b - 1]
                             /\ g.start \in Ledgers /\ g.end \in Ledgers /\ g.start <= g.end
                             /\ \A k \in known : ~(a < k /\ k < b)
<1>1. PICK p \in Pairs(known) : g = [start |-> p[1] + 1, end |-> p[2] - 1] BY DEF Gaps
<1>2. p \in known \X known /\ p[2] - p[1] > 1 /\ \A k \in known : ~(p[1] < k /\ k < p[2])
  BY DEF Pairs
<1>3. PICK a, b : a = p[1] /\ b = p[2] OBVIOUS
<1>4. a \in known /\ b \in known /\ a \in Ledgers /\ b \in Ledgers BY <1>2, <1>3
<1>5. g.start = a + 1 /\ g.end = b - 1 BY <1>1, <1>3
<1>6. LastLedger \in Nat /\ b - a > 1 BY <1>2, <1>3 DEF CatchupAssumption
<1>7. a < b /\ g.start \in Ledgers /\ g.end \in Ledgers /\ g.start <= g.end
  BY <1>4, <1>5, <1>6 DEF Ledgers
<1> QED BY <1>1, <1>2, <1>3, <1>4, <1>6, <1>7

\* The gaps hold each hole between the known ledgers once, and nothing else.
LEMMA HolesOnce ==
  ASSUME CatchupAssumption, NEW known, known \subseteq Ledgers, NEW l \in Ledgers
  PROVE  Cardinality({g \in Gaps(known) : l \in g.start..g.end}) =
           IF l \notin known /\ (\E k \in known : k < l) /\ (\E k \in known : k > l) THEN 1 ELSE 0
<1> DEFINE hole == l \notin known /\ (\E k \in known : k < l) /\ (\E k \in known : k > l)
           G == {g \in Gaps(known) : l \in g.start..g.end}
<1>1. LastLedger \in Nat /\ l \in Nat /\ \A k \in known : k \in Nat /\ k \in 0..LastLedger
  BY DEF CatchupAssumption, Ledgers
<1>2. \A g \in G : \E a, b \in known : /\ a < l /\ l < b /\ g = [start |-> a + 1, end |-> b - 1]
                                       /\ \A k \in known : ~(a < k /\ k < b)
  <2> SUFFICES ASSUME NEW g \in Gaps(known), l \in g.start..g.end
               PROVE  \E a, b \in known : /\ a < l /\ l < b /\ g = [start |-> a + 1, end |-> b - 1]
                                          /\ \A k \in known : ~(a < k /\ k < b)
    OBVIOUS
  <2>1. PICK a \in known, b \in known : /\ g = [start |-> a + 1, end |-> b - 1]
                                        /\ \A k \in known : ~(a < k /\ k < b)
    BY GapIs
  <2>2. a < l /\ l < b BY <1>1, <2>1
  <2> QED BY <2>1, <2>2
<1>3. CASE ~hole
  <2>1. G = {}
    <3> SUFFICES ASSUME NEW g \in G PROVE FALSE
      OBVIOUS
    <3>1. PICK a \in known, b \in known : a < l /\ l < b /\ \A k \in known : ~(a < k /\ k < b) BY <1>2
    <3>2. l \notin known BY <3>1
    <3>3. b > l BY <1>1, <3>1
    <3> QED BY <1>3, <3>1, <3>2, <3>3
  <2>2. Cardinality(G) = 0 BY <2>1, FS_EmptySet
  <2> QED BY <1>3, <2>2
<1>4. CASE hole
  <2> DEFINE below == {k \in known : k < l}
             above == {k \in known : k > l}
  <2>1. below \subseteq 0..LastLedger /\ above \subseteq Nat /\ below # {} /\ above # {} BY <1>1, <1>4
  <2>2. PICK a \in below : \A k \in below : k <= a BY <1>1, <2>1, GreatestNumber
  <2>3. PICK b \in above : \A k \in above : b <= k BY <2>1, LeastNumber
  <2>4. a \in known /\ b \in known /\ a \in Nat /\ b \in Nat /\ a < l /\ l < b BY <1>1, <2>2, <2>3
  <2>5. \A k \in known : k \in Nat /\ (k <= a \/ b <= k)
    <3>1. \A k \in known : k \in Nat /\ (k < l \/ k > l \/ k = l) BY <1>1
    <3> QED BY <1>4, <2>2, <2>3, <3>1
  <2>6. \A k \in known : ~(a < k /\ k < b) BY <2>4, <2>5
  <2> DEFINE gap == [start |-> a + 1, end |-> b - 1]
  <2>7. gap \in G
    <3>1. PICK p : p = <<a, b>> OBVIOUS
    <3>2. p[1] = a /\ p[2] = b /\ p \in known \X known BY <2>4, <3>1
    <3>3. p[2] - p[1] > 1 BY <1>1, <2>4, <3>2
    <3>4. p \in Pairs(known) BY <2>6, <3>2, <3>3 DEF Pairs
    <3>5. gap = [start |-> p[1] + 1, end |-> p[2] - 1] BY <3>2
    <3>6. gap \in Gaps(known) BY <3>4, <3>5 DEF Gaps
    <3>7. l \in gap.start..gap.end BY <1>1, <2>4
    <3> QED BY <3>6, <3>7
  <2>8. ASSUME NEW g \in G PROVE g = gap
    <3>1. PICK c \in known, d \in known : /\ c < l /\ l < d /\ g = [start |-> c + 1, end |-> d - 1]
                                          /\ \A k \in known : ~(c < k /\ k < d)
      BY <1>2
    <3>2. c \in Nat /\ d \in Nat BY <1>1
    <3>3. c = a /\ d = b BY <1>1, <2>4, <2>5, <3>1, <3>2
    <3> QED BY <3>1, <3>3
  <2> HIDE DEF gap
  <2>9. G = {gap} BY <2>7, <2>8
  <2>10. Cardinality(G) = 1 BY <2>9, FS_Singleton
  <2> QED BY <1>4, <2>10
<1> QED BY <1>3, <1>4

(***************************************************************************)
(* The invariant.                                                          *)
(***************************************************************************)
GapRanges == [start : Ledgers, end : Ledgers]
GapRowSet == [start : Ledgers, end : Ledgers, retry : Nat,
              status : {"discovered", "filling", "filled", "escalated"}]
Filling == {"hash", "fetch", "ledger", "nothing", "error", "failed"}
CatchupWorkers ==
  [pc : {"idle", "record", "pick", "alert"} \cup Filling, found : SUBSET GapRanges, todo : SUBSET GapRanges,
   row : Nat, seq : Int, hash : {NoHash} \cup {SetHash[l] : l \in Ledgers}]
CatchupTypes ==
  /\ ledgerEvents \subseteq Ledgers /\ cuts \in Nat
  /\ gapRows \in Seq(GapRowSet) /\ gapAlerts \in Seq(Nat) /\ Len(gapAlerts) = Len(gapRows)
  /\ worker \in CatchupWorkers
  /\ worker.pc \in Filling \cup {"alert"} => worker.row \in DOMAIN gapRows

\* A row that gave up failed often enough, and a range has one other row at most.
EscalatedFailed == \A i \in DOMAIN gapRows : gapRows[i].status = "escalated" => gapRows[i].retry >= RetryLimit
OneFreshRow ==
  \A i, j \in DOMAIN gapRows :
    i # j /\ gapRows[i].start = gapRows[j].start /\ gapRows[i].end = gapRows[j].end
      => gapRows[i].retry >= RetryLimit \/ gapRows[j].retry >= RetryLimit

\* A gap the worker is still to record or to fill has no filled row, and the row
\* at hand is of none of them.
TodoUnfilled ==
  /\ \A g \in worker.todo \cup worker.found : \A i \in DOMAIN gapRows :
       Same(gapRows[i], g) => gapRows[i].status # "filled"
  /\ worker.pc \in Filling \cup {"alert"} => \A g \in worker.todo : ~Same(gapRows[worker.row], g)
  /\ worker.pc # "record" => worker.found = {}

\* What the worker has walked of the row at hand has its events or was passed over.
WalkedSoFar ==
  worker.pc \in Filling =>
    \A l \in Eventful : gapRows[worker.row].start <= l /\ l < worker.seq => l \in ledgerEvents \cup unread

CatchupInv ==
  CatchupTypes /\ EscalatedFailed /\ OneFreshRow /\ TodoUnfilled /\ WalkedSoFar
  /\ FilledIsComplete /\ FailuresAreAlerted

(***************************************************************************)
(* Steps that leave the rows alone.                                        *)
(***************************************************************************)
\* event_catchup.ts:92: after a gap comes the next, or the cycle is over.
LEMMA NextGapIs ==
  ASSUME CatchupTypes, NextGap
  PROVE  /\ worker' \in CatchupWorkers /\ worker'.pc \in {"idle", "pick"}
         /\ worker'.found = {} /\ worker'.todo \subseteq worker.todo
<1>1. Idle \in CatchupWorkers /\ Idle.pc = "idle" /\ Idle.found = {} /\ Idle.todo = {}
  BY DEF Idle, CatchupWorkers
<1>2. CASE worker.todo = {} BY <1>1, <1>2 DEF NextGap
<1>3. CASE worker.todo # {}
  <2>1. worker' = [Idle EXCEPT !.pc = "pick", !.todo = worker.todo] BY <1>3 DEF NextGap
  <2>2. worker.todo \in SUBSET GapRanges BY DEF CatchupTypes, CatchupWorkers
  <2>3. worker' = [pc |-> "pick", found |-> {}, todo |-> worker.todo, row |-> 0, seq |-> 0, hash |-> NoHash]
    BY <2>1 DEF Idle
  <2> QED BY <2>2, <2>3 DEF CatchupWorkers
<1> QED BY <1>2, <1>3

\* The worker goes on with the row at hand, or the ledgers gain events.
LEMMA RowsAlone ==
  ASSUME CatchupInv, UNCHANGED <<gapRows, gapAlerts, cuts>>,
         ledgerEvents \subseteq ledgerEvents', unread \subseteq unread'
  PROVE  EscalatedFailed' /\ OneFreshRow' /\ FilledIsComplete'
BY DEF CatchupInv, EscalatedFailed, OneFreshRow, FilledIsComplete

\* event_catchup.ts:95-121: a query finds gaps, and a filled row is no gap.
LEMMA IdentifyKeeps ==
  ASSUME CatchupAssumption, CatchupInv, IdentifyGaps
  PROVE  CatchupInv'
<1> USE DEF CatchupInv
<1> DEFINE known == Known(ledgerEvents, gapRows)
           gaps == Gaps(known)
<1>1. /\ worker.pc = "idle" /\ worker' = [worker EXCEPT !.pc = "record", !.found = gaps, !.todo = gaps]
      /\ UNCHANGED <<ledgerEvents, gapRows, gapAlerts, unread, failures, cuts>>
  BY DEF IdentifyGaps
<1>2. known \subseteq Ledgers
  <2>1. \A i \in DOMAIN gapRows : gapRows[i] \in GapRowSet BY ElementOfSeq DEF CatchupTypes
  <2>2. \A i \in DOMAIN gapRows : {gapRows[i].start, gapRows[i].end} \subseteq Ledgers BY <2>1 DEF GapRowSet
  <2> QED BY <2>2 DEF Known, CatchupTypes
<1>3. \A i \in DOMAIN gapRows : gapRows[i].status = "filled" => gapRows[i].start \in known
  BY DEF Known
<1> HIDE DEF known
<1>4. \A g \in gaps : g \in GapRanges /\ g.start \notin known
  <2> SUFFICES ASSUME NEW g \in gaps PROVE g \in GapRanges /\ g.start \notin known
    OBVIOUS
  <2>1. PICK a \in known, b \in known :
          /\ b - a > 1 /\ g = [start |-> a + 1, end |-> b - 1]
          /\ g.start \in Ledgers /\ g.end \in Ledgers /\ \A k \in known : ~(a < k /\ k < b)
    BY <1>2, GapIs
  <2>2. a \in Int /\ b \in Int /\ a < a + 1 /\ a + 1 < b BY <1>2, <2>1 DEF Ledgers
  <2>3. g \in GapRanges BY <2>1 DEF GapRanges
  <2>4. g.start = a + 1 BY <2>1
  <2> QED BY <2>1, <2>2, <2>3, <2>4
<1> HIDE DEF gaps
<1>5. /\ worker' \in CatchupWorkers /\ worker'.pc = "record" /\ worker'.found = gaps /\ worker'.todo = gaps
  <2>1. gaps \in SUBSET GapRanges BY <1>4
  <2> QED BY <1>1, <2>1 DEF CatchupTypes, CatchupWorkers
<1>6. CatchupTypes' BY <1>1, <1>5 DEF CatchupTypes, Filling
<1>7. EscalatedFailed' /\ OneFreshRow' /\ FilledIsComplete' BY <1>1, RowsAlone
<1>8. TodoUnfilled'
  <2>1. \A g \in gaps : \A i \in DOMAIN gapRows : Same(gapRows[i], g) => gapRows[i].status # "filled"
    BY <1>3, <1>4 DEF Same
  <2> QED BY <1>1, <1>5, <2>1 DEF TodoUnfilled, Filling
<1>9. WalkedSoFar' BY <1>5 DEF WalkedSoFar, Filling
<1>10. FailuresAreAlerted' BY <1>1, <1>5 DEF FailuresAreAlerted
<1> QED BY <1>6, <1>7, <1>8, <1>9, <1>10

\* A step within the row at hand: the place, the ledger and the hash change.
LEMMA FillingKeeps ==
  ASSUME CatchupInv, worker.pc \in Filling, UNCHANGED <<gapRows, gapAlerts, cuts>>,
         ledgerEvents \subseteq ledgerEvents', ledgerEvents' \subseteq Ledgers, unread \subseteq unread',
         worker' \in CatchupWorkers, worker'.pc \in Filling,
         worker'.found = worker.found, worker'.todo = worker.todo, worker'.row = worker.row,
         \A l \in Eventful : l < worker'.seq => l < worker.seq \/ l \in ledgerEvents' \cup unread'
  PROVE  CatchupInv'
<1> USE DEF CatchupInv
<1>1. CatchupTypes' BY DEF CatchupTypes
<1>2. EscalatedFailed' /\ OneFreshRow' /\ FilledIsComplete' BY RowsAlone
<1>3. TodoUnfilled' BY DEF TodoUnfilled, Same, Filling
<1>4. WalkedSoFar' BY DEF WalkedSoFar
<1>5. FailuresAreAlerted' BY DEF FailuresAreAlerted, Filling
<1> QED BY <1>1, <1>2, <1>3, <1>4, <1>5

\* event_catchup.ts:157-168: the known hash, what Horizon answers, and an attempt
\* that fails.
LEMMA AskingKeeps ==
  ASSUME CatchupInv, GetKnownHash \/ FillFails \/ \E answer \in {"ledger", "nothing", "error"} : GetLedger(answer)
  PROVE  CatchupInv'
<1> USE DEF CatchupInv
<1>1. CASE GetKnownHash
  <2>1. PICK h : h = KnownHash(OneAppended(gapRows[worker.row].end)) OBVIOUS
  <2>2. h \in {NoHash} \cup {SetHash[l] : l \in Ledgers} BY <2>1 DEF KnownHash, CatchupTypes
  <2>3. /\ worker.pc = "hash" /\ worker' = [worker EXCEPT !.pc = "fetch", !.hash = h]
        /\ UNCHANGED <<ledgerEvents, gapRows, gapAlerts, unread, cuts>>
    BY <1>1, <2>1 DEF GetKnownHash
  <2>4. /\ worker' \in CatchupWorkers /\ worker'.pc \in Filling /\ worker.pc \in Filling
        /\ worker'.found = worker.found /\ worker'.todo = worker.todo /\ worker'.row = worker.row
        /\ worker'.seq = worker.seq
    BY <2>2, <2>3 DEF CatchupTypes, CatchupWorkers, Filling
  <2>5. ledgerEvents' \subseteq Ledgers BY <2>3 DEF CatchupTypes
  <2> QED BY <2>3, <2>4, <2>5, FillingKeeps
<1>2. ASSUME NEW answer \in {"ledger", "nothing", "error"}, GetLedger(answer) PROVE CatchupInv'
  <2>1. /\ worker.pc = "fetch" /\ worker' = [worker EXCEPT !.pc = answer]
        /\ UNCHANGED <<ledgerEvents, gapRows, gapAlerts, unread, cuts>>
    BY <1>2 DEF GetLedger
  <2>2. /\ worker' \in CatchupWorkers /\ worker'.pc \in Filling /\ worker.pc \in Filling
        /\ worker'.found = worker.found /\ worker'.todo = worker.todo /\ worker'.row = worker.row
        /\ worker'.seq = worker.seq
    BY <2>1 DEF CatchupTypes, CatchupWorkers, Filling
  <2>3. ledgerEvents' \subseteq Ledgers BY <2>1 DEF CatchupTypes
  <2> QED BY <2>1, <2>2, <2>3, FillingKeeps
<1>3. CASE FillFails
  <2>1. /\ worker.pc \in Filling /\ worker' = [worker EXCEPT !.pc = "failed"]
        /\ UNCHANGED <<ledgerEvents, gapRows, gapAlerts, unread, cuts>>
    BY <1>3 DEF FillFails, Filling
  <2>2. /\ worker' \in CatchupWorkers /\ worker'.pc \in Filling
        /\ worker'.found = worker.found /\ worker'.todo = worker.todo /\ worker'.row = worker.row
        /\ worker'.seq = worker.seq
    BY <2>1 DEF CatchupTypes, CatchupWorkers, Filling
  <2>3. ledgerEvents' \subseteq Ledgers BY <2>1 DEF CatchupTypes
  <2> QED BY <2>1, <2>2, <2>3, FillingKeeps
<1> QED BY <1>1, <1>2, <1>3

\* event_catchup.ts:165-185: a ledger is passed over, or its events are inserted.
LEMMA LedgerKeeps ==
  ASSUME CatchupAssumption, CatchupInv, SkipLedger \/ InsertLedger
  PROVE  CatchupInv'
<1> USE DEF CatchupInv
<1>1. /\ worker.pc \in {"nothing", "ledger"} /\ worker' = [worker EXCEPT !.pc = "fetch", !.seq = @ + 1]
      /\ UNCHANGED <<gapRows, gapAlerts, cuts>>
  BY DEF SkipLedger, InsertLedger, Advance
<1>2. /\ ledgerEvents \subseteq ledgerEvents' /\ ledgerEvents' \subseteq Ledgers /\ unread \subseteq unread'
      /\ worker.seq \in Eventful => worker.seq \in ledgerEvents' \cup unread'
  <2>1. CASE SkipLedger BY <2>1 DEF SkipLedger, CatchupTypes
  <2>2. CASE InsertLedger
    <3>1. PICK effects \in GetLedgerEffects(worker.seq) :
            ledgerEvents' = ledgerEvents \cup effects.got /\ unread' = unread \cup effects.missed
      BY <2>2 DEF InsertLedger, InsertEvents
    <3>2. /\ effects.got \subseteq Eventful /\ Eventful \subseteq Ledgers
          /\ worker.seq \in Eventful => worker.seq \in effects.got \cup effects.missed
      BY DEF GetLedgerEffects, CatchupAssumption, Ledgers
    <3> QED BY <3>1, <3>2 DEF CatchupTypes
  <2> QED BY <2>1, <2>2
<1>3. worker \in CatchupWorkers /\ worker.seq \in Int BY DEF CatchupTypes, CatchupWorkers
<1>4. PICK next \in Int : next = worker.seq + 1 BY <1>3
<1>5. worker' = [worker EXCEPT !.pc = "fetch", !.seq = next] BY <1>1, <1>3, <1>4 DEF CatchupWorkers
<1>6. /\ worker' \in CatchupWorkers /\ worker'.pc \in Filling /\ worker.pc \in Filling
      /\ worker'.found = worker.found /\ worker'.todo = worker.todo /\ worker'.row = worker.row
      /\ worker'.seq = next
  BY <1>1, <1>3, <1>5 DEF CatchupWorkers, Filling
<1>7. \A l \in Eventful : l < worker'.seq => l < worker.seq \/ l \in ledgerEvents' \cup unread'
  <2>1. \A l \in Eventful : l \in Int BY DEF CatchupAssumption
  <2>2. \A l \in Eventful : l < next => l < worker.seq \/ l = worker.seq BY <1>3, <1>4, <2>1
  <2> QED BY <1>2, <1>6, <2>2
<1> QED BY <1>1, <1>2, <1>6, <1>7, FillingKeeps

\* Live ingestion, and a cycle that ends early.
LEMMA OutsideKeeps ==
  ASSUME CatchupAssumption, CatchupInv, CycleEnds \/ \E l \in Ledgers : IngestLedger(l)
  PROVE  CatchupInv'
<1> USE DEF CatchupInv
<1>1. CASE CycleEnds
  <2>1. cuts' = cuts + 1 /\ worker' = Idle /\ UNCHANGED <<ledgerEvents, gapRows, gapAlerts, unread>>
    BY <1>1 DEF CycleEnds
  <2>2. Idle \in CatchupWorkers /\ Idle.pc = "idle" /\ Idle.found = {} /\ Idle.todo = {}
    BY DEF Idle, CatchupWorkers
  <2> HIDE DEF Idle
  <2>3. CatchupTypes' BY <2>1, <2>2 DEF CatchupTypes, Filling
  <2>4. EscalatedFailed' /\ OneFreshRow' /\ FilledIsComplete'
    BY <2>1 DEF EscalatedFailed, OneFreshRow, FilledIsComplete
  <2>5. TodoUnfilled' BY <2>1, <2>2 DEF TodoUnfilled, Filling
  <2>6. WalkedSoFar' BY <2>1, <2>2 DEF WalkedSoFar, Filling
  <2>7. FailuresAreAlerted'
    <3> SUFFICES ASSUME NEW i \in DOMAIN gapRows
                 PROVE  gapRows[i].retry <= gapAlerts[i] + cuts' + 0
      BY <2>1, <2>2 DEF FailuresAreAlerted
    <3>1. gapRows[i] \in GapRowSet /\ gapAlerts[i] \in Nat BY ElementOfSeq DEF CatchupTypes
    <3>2. gapRows[i].retry \in Nat BY <3>1 DEF GapRowSet
    <3>3. gapRows[i].retry <= gapAlerts[i] + cuts + 1
      BY <3>1, <3>2 DEF FailuresAreAlerted, CatchupTypes
    <3> QED BY <2>1, <3>1, <3>2, <3>3 DEF CatchupTypes
  <2> QED BY <2>3, <2>4, <2>5, <2>6, <2>7
<1>2. ASSUME NEW l \in Ledgers, IngestLedger(l) PROVE CatchupInv'
  <2>1. ledgerEvents' = ledgerEvents \cup {l} /\ UNCHANGED <<gapRows, gapAlerts, worker, unread, cuts>>
    BY <1>2 DEF IngestLedger
  <2>2. CatchupTypes' BY <2>1 DEF CatchupTypes
  <2>3. EscalatedFailed' /\ OneFreshRow' /\ FilledIsComplete' BY <2>1, RowsAlone
  <2>4. TodoUnfilled' BY <2>1 DEF TodoUnfilled
  <2>5. WalkedSoFar' BY <2>1 DEF WalkedSoFar
  <2>6. FailuresAreAlerted' BY <2>1 DEF FailuresAreAlerted
  <2> QED BY <2>2, <2>3, <2>4, <2>5, <2>6
<1> QED BY <1>1, <1>2

(***************************************************************************)
(* Steps that change a row.                                                *)
(***************************************************************************)
\* A row keeps its range and counts no fewer failures; the others are as they were.
LEMMA RowChanged ==
  ASSUME CatchupAssumption, CatchupInv, NEW i \in DOMAIN gapRows, NEW q \in GapRowSet, gapRows' = [gapRows EXCEPT ![i] = q],
         Same(q, gapRows[i]), q.retry >= gapRows[i].retry, q.status = "escalated" => q.retry >= RetryLimit
  PROVE  /\ gapRows' \in Seq(GapRowSet) /\ Len(gapRows') = Len(gapRows) /\ DOMAIN gapRows' = DOMAIN gapRows
         /\ gapRows'[i] = q /\ \A j \in DOMAIN gapRows : j # i => gapRows'[j] = gapRows[j]
         /\ \A j \in DOMAIN gapRows : Same(gapRows'[j], gapRows[j])
         /\ EscalatedFailed' /\ OneFreshRow'
<1> USE DEF CatchupInv
<1>1. /\ gapRows' \in Seq(GapRowSet) /\ Len(gapRows') = Len(gapRows) /\ DOMAIN gapRows' = DOMAIN gapRows
      /\ gapRows'[i] = q /\ \A j \in DOMAIN gapRows : j # i => gapRows'[j] = gapRows[j]
  BY ExceptSeq DEF CatchupTypes
<1>2. \A j \in DOMAIN gapRows : gapRows'[j] \in GapRowSet /\ gapRows[j] \in GapRowSet
  BY <1>1, ElementOfSeq DEF CatchupTypes
<1>3. \A j \in DOMAIN gapRows : Same(gapRows'[j], gapRows[j]) /\ gapRows'[j].retry >= gapRows[j].retry
  BY <1>1, <1>2 DEF Same, GapRowSet
<1>4. EscalatedFailed' BY <1>1 DEF EscalatedFailed
<1>5. OneFreshRow'
  <2>1. \A j \in DOMAIN gapRows : gapRows'[j].retry \in Int /\ gapRows[j].retry \in Int BY <1>2 DEF GapRowSet
  <2>2. RetryLimit \in Int BY DEF CatchupAssumption
  <2>3. \A j \in DOMAIN gapRows : gapRows'[j].start = gapRows[j].start /\ gapRows'[j].end = gapRows[j].end
    BY <1>3 DEF Same
  <2>4. \A j \in DOMAIN gapRows : gapRows[j].retry >= RetryLimit => gapRows'[j].retry >= RetryLimit
    BY <1>1, <1>3, <2>1, <2>2
  <2> QED BY <1>1, <2>3, <2>4 DEF OneFreshRow
<1> QED BY <1>1, <1>3, <1>4, <1>5

\* event_catchup.ts:147-158: a gap that is taken up is of the row at hand, which
\* is walked from its start.
LEMMA PickKeeps ==
  ASSUME CatchupAssumption, CatchupInv, NEW gap \in worker.todo, NEW i \in DOMAIN gapRows, GetGapId(gap, i)
  PROVE  CatchupInv'
<1> USE DEF CatchupInv
<1>1. /\ worker.pc = "pick" /\ Same(gapRows[i], gap)
      /\ gapRows' = [gapRows EXCEPT ![i].status = "filling"]
      /\ worker' = [worker EXCEPT !.pc = "hash", !.todo = @ \ {gap}, !.row = i, !.seq = gap.start]
      /\ UNCHANGED <<ledgerEvents, gapAlerts, unread, cuts>>
  BY DEF GetGapId, RowsOfRange
<1>2. gapRows[i] \in GapRowSet /\ \A j \in DOMAIN gapRows : gapRows[j] \in GapRowSet
  BY ElementOfSeq DEF CatchupTypes
<1>3. PICK q \in GapRowSet : /\ gapRows' = [gapRows EXCEPT ![i] = q] /\ q.status = "filling"
                             /\ q.start = gapRows[i].start /\ q.end = gapRows[i].end /\ q.retry = gapRows[i].retry
  <2>1. PICK q : q = [gapRows[i] EXCEPT !.status = "filling"] OBVIOUS
  <2>2. q \in GapRowSet /\ q.status = "filling" /\ q.start = gapRows[i].start /\ q.end = gapRows[i].end
        /\ q.retry = gapRows[i].retry
    BY <1>2, <2>1 DEF GapRowSet
  <2>3. gapRows' = [gapRows EXCEPT ![i] = q] BY <1>1, <2>1
  <2> QED BY <2>2, <2>3
<1>4. /\ gapRows' \in Seq(GapRowSet) /\ Len(gapRows') = Len(gapRows) /\ DOMAIN gapRows' = DOMAIN gapRows
      /\ gapRows'[i] = q /\ \A j \in DOMAIN gapRows : j # i => gapRows'[j] = gapRows[j]
      /\ \A j \in DOMAIN gapRows : Same(gapRows'[j], gapRows[j])
      /\ EscalatedFailed' /\ OneFreshRow'
  <2>1. Same(q, gapRows[i]) /\ q.retry >= gapRows[i].retry BY <1>2, <1>3 DEF Same, GapRowSet
  <2> QED BY <1>3, <2>1, RowChanged
<1>5. worker.found = {} BY <1>1 DEF TodoUnfilled
<1>6. /\ worker \in CatchupWorkers /\ worker.todo \in SUBSET GapRanges /\ gap \in GapRanges
      /\ i \in Nat /\ gap.start \in Int
  <2>1. worker \in CatchupWorkers /\ worker.todo \in SUBSET GapRanges BY DEF CatchupTypes, CatchupWorkers
  <2>2. i \in Nat BY DEF CatchupTypes
  <2>3. gap \in GapRanges BY <2>1
  <2>4. gap.start \in Int BY <2>3 DEF GapRanges, Ledgers
  <2> QED BY <2>1, <2>2, <2>3, <2>4
<1>7. PICK rest \in SUBSET GapRanges, from \in Int : rest = worker.todo \ {gap} /\ from = gap.start BY <1>6
<1>8. worker' = [worker EXCEPT !.pc = "hash", !.todo = rest, !.row = i, !.seq = from]
  BY <1>1, <1>6, <1>7 DEF CatchupWorkers
<1>9. /\ worker' \in CatchupWorkers /\ worker'.pc = "hash" /\ worker'.found = worker.found
      /\ worker'.todo = rest /\ worker'.row = i /\ worker'.seq = from
  BY <1>6, <1>8 DEF CatchupWorkers, Filling
<1>10. CatchupTypes' BY <1>1, <1>4, <1>9 DEF CatchupTypes, Filling
<1>12. TodoUnfilled'
  <2>1. \A g \in rest : g \in GapRanges /\ g # gap BY <1>7
  <2>2. \A g \in rest : ~(g.start = gap.start /\ g.end = gap.end) BY <1>6, <2>1 DEF GapRanges
  <2>3. \A g \in worker'.todo : ~Same(gapRows'[worker'.row], g) BY <1>1, <1>3, <1>4, <1>9, <2>2 DEF Same
  <2>4. \A g \in worker'.todo \cup worker'.found : \A j \in DOMAIN gapRows :
          Same(gapRows'[j], g) => gapRows'[j].status # "filled"
    BY <1>3, <1>4, <1>7, <1>9 DEF TodoUnfilled, Same
  <2> QED BY <1>4, <1>5, <1>9, <2>3, <2>4 DEF TodoUnfilled
<1>13. WalkedSoFar'
  <2>1. gapRows'[i].start = from BY <1>1, <1>3, <1>4, <1>7 DEF Same
  <2>2. \A l \in Int : ~(from <= l /\ l < from) OBVIOUS
  <2>3. 1..LastLedger \subseteq Int BY CatchupAssumption DEF CatchupAssumption
  <2>4. Eventful \subseteq Int BY <2>3, CatchupAssumption DEF CatchupAssumption
  <2>5. \A l \in Eventful : ~(from <= l /\ l < from) BY <2>2, <2>4
  <2> QED BY <1>9, <2>1, <2>5 DEF WalkedSoFar
<1>14. FilledIsComplete' BY <1>1, <1>3, <1>4 DEF FilledIsComplete
<1>15. FailuresAreAlerted'
  <2>1. \A j \in DOMAIN gapRows : gapRows'[j].retry = gapRows[j].retry BY <1>3, <1>4
  <2> QED BY <1>1, <1>4, <1>9, <2>1 DEF FailuresAreAlerted
<1> QED BY <1>4, <1>10, <1>12, <1>13, <1>14, <1>15

\* event_catchup.ts:159, 186-188: a row is filled once its ledgers were all walked,
\* or at once when its ends do not compare as texts.
LEMMA FilledKeeps ==
  ASSUME CatchupAssumption, CatchupInv, MarkFilled
  PROVE  CatchupInv'
<1> USE DEF CatchupInv
<1> DEFINE i == worker.row
<1>1. /\ worker.pc = "fetch" /\ ~Further(gapRows[i]) /\ NextGap
      /\ gapRows' = [gapRows EXCEPT ![i].status = "filled"]
      /\ UNCHANGED <<ledgerEvents, gapAlerts, unread, cuts>>
  BY DEF MarkFilled
<1>2. i \in DOMAIN gapRows BY <1>1 DEF CatchupTypes, Filling
<1>3. gapRows[i] \in GapRowSet /\ \A j \in DOMAIN gapRows : gapRows[j] \in GapRowSet
  BY <1>2, ElementOfSeq DEF CatchupTypes
<1>4. PICK q \in GapRowSet : /\ gapRows' = [gapRows EXCEPT ![i] = q] /\ q.status = "filled"
                             /\ q.start = gapRows[i].start /\ q.end = gapRows[i].end /\ q.retry = gapRows[i].retry
  <2>1. PICK q : q = [gapRows[i] EXCEPT !.status = "filled"] OBVIOUS
  <2>2. q \in GapRowSet /\ q.status = "filled" /\ q.start = gapRows[i].start /\ q.end = gapRows[i].end
        /\ q.retry = gapRows[i].retry
    BY <1>3, <2>1 DEF GapRowSet
  <2>3. gapRows' = [gapRows EXCEPT ![i] = q] BY <1>1, <2>1
  <2> QED BY <2>2, <2>3
<1> HIDE DEF i
<1>5. /\ gapRows' \in Seq(GapRowSet) /\ Len(gapRows') = Len(gapRows) /\ DOMAIN gapRows' = DOMAIN gapRows
      /\ gapRows'[i] = q /\ \A j \in DOMAIN gapRows : j # i => gapRows'[j] = gapRows[j]
      /\ \A j \in DOMAIN gapRows : Same(gapRows'[j], gapRows[j])
      /\ EscalatedFailed' /\ OneFreshRow'
  <2>1. Same(q, gapRows[i]) /\ q.retry >= gapRows[i].retry BY <1>3, <1>4 DEF Same, GapRowSet
  <2>2. q.status # "escalated" BY <1>4
  <2> QED BY <1>2, <1>4, <2>1, <2>2, RowChanged
<1>6. /\ worker' \in CatchupWorkers /\ worker'.pc \in {"idle", "pick"}
      /\ worker'.found = {} /\ worker'.todo \subseteq worker.todo
  BY <1>1, NextGapIs
<1>7. CatchupTypes' BY <1>1, <1>5, <1>6 DEF CatchupTypes, Filling
<1>8. TodoUnfilled'
  <2>1. \A g \in worker.todo : ~Same(gapRows[i], g) BY <1>1 DEF TodoUnfilled, Filling, i
  <2>2. \A g \in worker'.todo : \A j \in DOMAIN gapRows : Same(gapRows'[j], g) => gapRows'[j].status # "filled"
    BY <1>5, <1>6, <2>1 DEF TodoUnfilled, Same
  <2> QED BY <1>5, <1>6, <2>2 DEF TodoUnfilled, Filling
<1>9. WalkedSoFar' BY <1>6 DEF WalkedSoFar, Filling
<1>10. FilledIsComplete'
  <2>1. \A l \in Eventful : gapRows[i].start <= l /\ l < worker.seq => l \in ledgerEvents \cup unread
    BY <1>1 DEF WalkedSoFar, Filling, i
  <2>2. worker.seq \in Int /\ gapRows[i].end \in Int /\ gapRows[i].start \in Int
    <3>1. gapRows[i].start \in Ledgers /\ gapRows[i].end \in Ledgers BY <1>3 DEF GapRowSet
    <3>2. worker.seq \in Int BY DEF CatchupTypes, CatchupWorkers
    <3> QED BY <3>1, <3>2 DEF Ledgers
  <2>3. ASSUME ComparesInOrder(q) PROVE (q.start .. q.end) \cap Eventful \subseteq ledgerEvents \cup unread
    <3>1. ComparesInOrder(gapRows[i]) BY <1>4, <2>3 DEF ComparesInOrder
    <3>2. ~(worker.seq <= gapRows[i].end) BY <1>1, <3>1 DEF Further
    <3> QED BY <1>4, <2>1, <2>2, <3>2
  <2> QED BY <1>1, <1>5, <2>3 DEF FilledIsComplete
<1>11. FailuresAreAlerted'
  <2>1. \A j \in DOMAIN gapRows : gapRows'[j].retry = gapRows[j].retry BY <1>4, <1>5
  <2> QED BY <1>1, <1>5, <1>6, <2>1 DEF FailuresAreAlerted
<1> QED BY <1>5, <1>7, <1>8, <1>9, <1>10, <1>11

\* event_catchup.ts:189-201: a failure is counted, and escalates the row when it
\* has failed often enough.
LEMMA FailsKeeps ==
  ASSUME CatchupAssumption, CatchupInv, CountFailure
  PROVE  CatchupInv'
<1> USE DEF CatchupInv
<1> DEFINE i == worker.row
           status == IF gapRows[i].retry >= RetryLimit - 1 THEN "escalated" ELSE "discovered"
<1>1. /\ worker.pc = "failed" /\ worker.pc \in Filling
      /\ gapRows' = [gapRows EXCEPT ![i].retry = @ + 1, ![i].status = status]
      /\ worker' = [worker EXCEPT !.pc = "alert"]
      /\ UNCHANGED <<ledgerEvents, gapAlerts, unread, cuts>>
  BY DEF CountFailure, CountRetry, Filling
<1>2. i \in DOMAIN gapRows BY <1>1 DEF CatchupTypes, Filling
<1>3. gapRows[i] \in GapRowSet /\ \A j \in DOMAIN gapRows : gapRows[j] \in GapRowSet
  BY <1>2, ElementOfSeq DEF CatchupTypes
<1>4. PICK q \in GapRowSet : /\ gapRows' = [gapRows EXCEPT ![i] = q] /\ q.status = status
                             /\ q.start = gapRows[i].start /\ q.end = gapRows[i].end
                             /\ q.retry = gapRows[i].retry + 1
  <2>1. PICK n \in Nat : n = gapRows[i].retry + 1 BY <1>3 DEF GapRowSet
  <2>2. PICK s \in {"escalated", "discovered"} : s = status OBVIOUS
  <2>3. PICK q : q = [gapRows[i] EXCEPT !.retry = n, !.status = s] OBVIOUS
  <2>4. q \in GapRowSet /\ q.status = s /\ q.start = gapRows[i].start /\ q.end = gapRows[i].end /\ q.retry = n
    BY <1>3, <2>3 DEF GapRowSet
  <2>5. gapRows' = [gapRows EXCEPT ![i] = q]
    <3> HIDE DEF status
    <3>1. gapRows' = [gapRows EXCEPT ![i].retry = n, ![i].status = s] BY <1>1, <1>2, <2>1, <2>2
    <3> QED BY <1>2, <2>3, <3>1
  <2> QED BY <2>1, <2>2, <2>4, <2>5
<1>5. status = "escalated" => gapRows[i].retry + 1 >= RetryLimit
  BY <1>3 DEF GapRowSet, CatchupAssumption
<1> HIDE DEF i
<1>6. /\ gapRows' \in Seq(GapRowSet) /\ Len(gapRows') = Len(gapRows) /\ DOMAIN gapRows' = DOMAIN gapRows
      /\ gapRows'[i] = q /\ \A j \in DOMAIN gapRows : j # i => gapRows'[j] = gapRows[j]
      /\ \A j \in DOMAIN gapRows : Same(gapRows'[j], gapRows[j])
      /\ EscalatedFailed' /\ OneFreshRow'
  <2>1. Same(q, gapRows[i]) /\ q.retry >= gapRows[i].retry BY <1>3, <1>4 DEF Same, GapRowSet
  <2> HIDE DEF status
  <2>2. q.status = "escalated" => q.retry >= RetryLimit BY <1>4, <1>5
  <2> QED BY <1>2, <1>4, <2>1, <2>2, RowChanged
<1>7. q.status # "filled" BY <1>4
<1>8. /\ worker' \in CatchupWorkers /\ worker'.pc = "alert" /\ worker'.row = i
      /\ worker'.found = worker.found /\ worker'.todo = worker.todo
  BY <1>1 DEF CatchupTypes, CatchupWorkers, i
<1>9. CatchupTypes' BY <1>1, <1>2, <1>6, <1>8 DEF CatchupTypes, Filling
<1>10. TodoUnfilled'
  <2>1. worker.found = {} /\ \A g \in worker.todo : ~Same(gapRows[i], g)
    BY <1>1 DEF TodoUnfilled, Filling, i
  <2>2. \A g \in worker.todo : \A j \in DOMAIN gapRows : Same(gapRows'[j], g) => gapRows'[j].status # "filled"
    BY <1>6, <1>7 DEF TodoUnfilled, Same
  <2>3. \A g \in worker.todo : ~Same(gapRows'[i], g) BY <1>2, <1>6, <2>1 DEF Same
  <2> QED BY <1>6, <1>8, <2>1, <2>2, <2>3 DEF TodoUnfilled
<1>11. WalkedSoFar' BY <1>8 DEF WalkedSoFar, Filling
<1>12. FilledIsComplete' BY <1>1, <1>6, <1>7 DEF FilledIsComplete
<1>13. FailuresAreAlerted'
  <2>1. \A j \in DOMAIN gapRows : gapRows[j].retry \in Nat /\ gapAlerts[j] \in Nat /\ cuts \in Nat
                                  /\ gapRows[j].retry <= gapAlerts[j] + cuts
    <3>1. \A j \in DOMAIN gapRows : gapAlerts[j] \in Nat BY ElementOfSeq DEF CatchupTypes
    <3>2. worker.pc # "alert" BY <1>1 DEF Filling
    <3>3. \A j \in DOMAIN gapRows : gapRows[j].retry <= gapAlerts[j] + cuts + 0
      BY <3>2 DEF FailuresAreAlerted
    <3>4. \A j \in DOMAIN gapRows : gapRows[j].retry \in Nat BY <1>3 DEF GapRowSet
    <3> QED BY <3>1, <3>3, <3>4 DEF CatchupTypes
  <2>2. \A j \in DOMAIN gapRows : gapRows'[j].retry = IF j = i THEN gapRows[j].retry + 1 ELSE gapRows[j].retry
    BY <1>4, <1>6
  <2>3. \A j \in DOMAIN gapRows : gapRows'[j].retry <= gapAlerts[j] + cuts + (IF i = j THEN 1 ELSE 0)
    BY <2>1, <2>2
  <2> QED BY <1>1, <1>6, <1>8, <2>3 DEF FailuresAreAlerted
<1> QED BY <1>6, <1>9, <1>10, <1>11, <1>12, <1>13

\* event_catchup.ts:201-205: the alert of a failure.
LEMMA AlertKeeps ==
  ASSUME CatchupAssumption, CatchupInv, InsertAlert
  PROVE  CatchupInv'
<1> USE DEF CatchupInv
<1> DEFINE i == worker.row
<1>1. /\ worker.pc = "alert" /\ gapAlerts' = [gapAlerts EXCEPT ![i] = @ + 1] /\ NextGap
      /\ UNCHANGED <<ledgerEvents, gapRows, unread, cuts>>
  BY DEF InsertAlert
<1>2. i \in DOMAIN gapRows /\ i \in 1..Len(gapAlerts) BY <1>1 DEF CatchupTypes
<1>3. PICK n \in Nat : n = gapAlerts[i] + 1
  <2>1. gapAlerts[i] \in Nat BY <1>2, ElementOfSeq DEF CatchupTypes
  <2> QED BY <2>1
<1>4. gapAlerts' = [gapAlerts EXCEPT ![i] = n] BY <1>1, <1>2, <1>3
<1>5. /\ gapAlerts' \in Seq(Nat) /\ Len(gapAlerts') = Len(gapAlerts) /\ gapAlerts'[i] = n
      /\ \A j \in DOMAIN gapRows : j # i => gapAlerts'[j] = gapAlerts[j]
  <2>1. gapAlerts \in Seq(Nat) BY DEF CatchupTypes
  <2>2. DOMAIN gapRows = 1..Len(gapAlerts) BY DEF CatchupTypes
  <2> QED BY <1>2, <1>4, <2>1, <2>2, ExceptSeq
<1> HIDE DEF i
<1>6. /\ worker' \in CatchupWorkers /\ worker'.pc \in {"idle", "pick"}
      /\ worker'.found = {} /\ worker'.todo \subseteq worker.todo
  BY <1>1, NextGapIs
<1>7. CatchupTypes' BY <1>1, <1>5, <1>6 DEF CatchupTypes, Filling
<1>8. EscalatedFailed' /\ OneFreshRow' /\ FilledIsComplete'
  BY <1>1 DEF EscalatedFailed, OneFreshRow, FilledIsComplete
<1>9. TodoUnfilled' BY <1>1, <1>6 DEF TodoUnfilled, Filling
<1>10. WalkedSoFar' BY <1>6 DEF WalkedSoFar, Filling
<1>11. FailuresAreAlerted'
  <2>1. \A j \in DOMAIN gapRows : gapAlerts[j] \in Nat /\ gapRows[j].retry \in Nat
    <3>1. \A j \in DOMAIN gapRows : gapAlerts[j] \in Nat /\ gapRows[j] \in GapRowSet
      BY ElementOfSeq DEF CatchupTypes
    <3> QED BY <3>1 DEF GapRowSet
  <2>2. \A j \in DOMAIN gapRows : gapRows[j].retry <= gapAlerts[j] + cuts + (IF i = j THEN 1 ELSE 0)
    BY <1>1 DEF FailuresAreAlerted, i
  <2>3. cuts \in Nat BY DEF CatchupTypes
  <2>4. \A j \in DOMAIN gapRows : gapRows[j].retry <= gapAlerts'[j] + cuts + 0
    BY <1>3, <1>5, <2>1, <2>2, <2>3
  <2> QED BY <1>1, <1>6, <2>4 DEF FailuresAreAlerted
<1> QED BY <1>7, <1>8, <1>9, <1>10, <1>11

\* event_catchup.ts:122-133: a gap without an open row gets a new one; the rows
\* its range has were all given up.
LEMMA RecordKeeps ==
  ASSUME CatchupAssumption, CatchupInv, NEW gap \in worker.found, RecordGap(gap)
  PROVE  CatchupInv'
<1> USE DEF CatchupInv
<1>1. /\ worker.pc = "record"
      /\ worker' = [worker EXCEPT !.found = @ \ {gap}, !.pc = IF worker.found = {gap} THEN "pick" ELSE @]
      /\ UNCHANGED <<ledgerEvents, unread, cuts>>
  BY DEF RecordGap
<1>2. /\ worker \in CatchupWorkers /\ worker.found \in SUBSET GapRanges /\ gap \in GapRanges
  BY DEF CatchupTypes, CatchupWorkers
<1>3. PICK rest \in SUBSET GapRanges, place \in {"record", "pick"} :
        /\ rest = worker.found \ {gap} /\ place = (IF worker.found = {gap} THEN "pick" ELSE "record")
  BY <1>2
<1>4. /\ worker' \in CatchupWorkers /\ worker'.pc = place /\ worker'.found = rest
      /\ worker'.todo = worker.todo /\ worker'.row = worker.row
  <2>1. worker' = [worker EXCEPT !.found = rest, !.pc = place] BY <1>1, <1>2, <1>3 DEF CatchupWorkers
  <2> QED BY <1>2, <2>1 DEF CatchupWorkers
<1>5. place # "record" => rest = {} BY <1>3
<1>6. place \notin Filling /\ place # "alert" /\ worker.pc # "alert" BY <1>1 DEF Filling
<1>7. WalkedSoFar' BY <1>4, <1>6 DEF WalkedSoFar
<1>8. \A j \in DOMAIN gapRows : gapRows[j] \in GapRowSet /\ gapAlerts[j] \in Nat
  BY ElementOfSeq DEF CatchupTypes
<1>9. CASE \E i \in DOMAIN gapRows : Same(gapRows[i], gap) /\ IsOpen(gapRows[i])
  <2>1. UNCHANGED <<gapRows, gapAlerts>> BY <1>9 DEF RecordGap
  <2>2. CatchupTypes' BY <1>1, <1>4, <1>6, <2>1 DEF CatchupTypes
  <2>3. EscalatedFailed' /\ OneFreshRow' /\ FilledIsComplete'
    BY <1>1, <2>1 DEF EscalatedFailed, OneFreshRow, FilledIsComplete
  <2>4. TodoUnfilled' BY <1>3, <1>4, <1>5, <1>6, <2>1 DEF TodoUnfilled
  <2>5. FailuresAreAlerted' BY <1>1, <1>4, <1>6, <2>1 DEF FailuresAreAlerted
  <2> QED BY <1>7, <2>2, <2>3, <2>4, <2>5
<1>10. CASE ~\E i \in DOMAIN gapRows : Same(gapRows[i], gap) /\ IsOpen(gapRows[i])
  <2>1. gapRows' = Append(gapRows, NewRow(gap)) /\ gapAlerts' = Append(gapAlerts, 0)
    BY <1>10 DEF RecordGap, InsertRow
  <2>2. PICK row : row = NewRow(gap) OBVIOUS
  <2>3. /\ row \in GapRowSet /\ row.start = gap.start /\ row.end = gap.end /\ row.retry = 0
        /\ row.status = "discovered"
    BY <1>2, <2>2 DEF NewRow, GapRowSet, GapRanges
  <2>4. PICK n \in Nat : n = Len(gapRows) BY DEF CatchupTypes
  <2>5. /\ gapRows' \in Seq(GapRowSet) /\ Len(gapRows') = n + 1 /\ gapRows'[n + 1] = row
        /\ \A j \in 1..n : gapRows'[j] = gapRows[j]
    BY <2>1, <2>2, <2>3, <2>4, AppendProperties DEF CatchupTypes
  <2>6. /\ gapAlerts' \in Seq(Nat) /\ Len(gapAlerts') = n + 1 /\ gapAlerts'[n + 1] = 0
        /\ \A j \in 1..n : gapAlerts'[j] = gapAlerts[j]
    BY <2>1, <2>4, AppendProperties DEF CatchupTypes
  <2>7. DOMAIN gapRows = 1..n /\ DOMAIN gapRows' = 1..(n + 1) BY <2>4, <2>5 DEF CatchupTypes
  <2>8. \A j \in 1..(n + 1) : j \in 1..n \/ j = n + 1 BY <2>4
  <2>9. CatchupTypes' BY <1>1, <1>4, <1>6, <2>5, <2>6 DEF CatchupTypes
  <2>10. EscalatedFailed' BY <2>3, <2>5, <2>7, <2>8 DEF EscalatedFailed
  <2>11. \A j \in 1..n : Same(gapRows[j], gap) => gapRows[j].retry >= RetryLimit
    <3> SUFFICES ASSUME NEW j \in 1..n, Same(gapRows[j], gap) PROVE gapRows[j].retry >= RetryLimit
      OBVIOUS
    <3>1. gapRows[j].status # "filled" BY <2>7 DEF TodoUnfilled
    <3>2. gapRows[j].status \notin {"discovered", "filling"} BY <1>10, <2>7 DEF IsOpen
    <3>3. gapRows[j].status = "escalated" BY <1>8, <2>7, <3>1, <3>2 DEF GapRowSet
    <3> QED BY <2>7, <3>3 DEF EscalatedFailed
  <2>12. OneFreshRow'
    <3> SUFFICES ASSUME NEW i \in 1..(n + 1), NEW j \in 1..(n + 1), i # j,
                        gapRows'[i].start = gapRows'[j].start, gapRows'[i].end = gapRows'[j].end
                 PROVE  gapRows'[i].retry >= RetryLimit \/ gapRows'[j].retry >= RetryLimit
      BY <2>7 DEF OneFreshRow
    <3>1. CASE i \in 1..n /\ j \in 1..n BY <2>5, <2>7, <3>1 DEF OneFreshRow
    <3>2. CASE i = n + 1 /\ j \in 1..n BY <2>3, <2>5, <2>11, <3>2 DEF Same
    <3>3. CASE j = n + 1 /\ i \in 1..n BY <2>3, <2>5, <2>11, <3>3 DEF Same
    <3> QED BY <2>8, <3>1, <3>2, <3>3
  <2>13. FilledIsComplete' BY <1>1, <2>3, <2>5, <2>7, <2>8 DEF FilledIsComplete
  <2>14. TodoUnfilled'
    <3>1. \A g \in worker'.todo \cup worker'.found : \A j \in DOMAIN gapRows' :
            Same(gapRows'[j], g) => gapRows'[j].status # "filled"
      <4> SUFFICES ASSUME NEW g \in worker.todo \cup rest, NEW j \in 1..(n + 1), Same(gapRows'[j], g)
                   PROVE  gapRows'[j].status # "filled"
        BY <1>4, <2>7
      <4>1. CASE j \in 1..n BY <1>3, <2>5, <2>7, <4>1 DEF TodoUnfilled
      <4>2. CASE j = n + 1 BY <2>3, <2>5, <4>2
      <4> QED BY <2>8, <4>1, <4>2
    <3> QED BY <1>4, <1>5, <1>6, <3>1 DEF TodoUnfilled
  <2>15. FailuresAreAlerted'
    <3> SUFFICES ASSUME NEW j \in 1..(n + 1) PROVE gapRows'[j].retry <= gapAlerts'[j] + cuts + 0
      BY <1>1, <1>4, <1>6, <2>7 DEF FailuresAreAlerted
    <3>1. CASE j \in 1..n
      <4>1. gapRows[j].retry <= gapAlerts[j] + cuts + 0 BY <1>6, <2>7, <3>1 DEF FailuresAreAlerted
      <4> QED BY <2>5, <2>6, <3>1, <4>1
    <3>2. CASE j = n + 1 BY <2>3, <2>5, <2>6, <3>2 DEF CatchupTypes
    <3> QED BY <2>8, <3>1, <3>2
  <2> QED BY <1>7, <2>9, <2>10, <2>12, <2>13, <2>14, <2>15
<1> QED BY <1>9, <1>10

\* In the beginning there are no rows and the worker rests.
LEMMA CatchupInitInv ==
  ASSUME CatchupAssumption, CatchupInit
  PROVE  CatchupInv
<1> USE DEF CatchupInit
<1>1. Idle \in CatchupWorkers /\ Idle.pc = "idle" /\ Idle.found = {} /\ Idle.todo = {}
  BY DEF Idle, CatchupWorkers
<1>2. gapRows \in Seq(GapRowSet) /\ gapAlerts \in Seq(Nat) /\ Len(gapRows) = 0 /\ Len(gapAlerts) = 0
      /\ DOMAIN gapRows = {}
  <2>1. gapRows = <<>> /\ gapAlerts = <<>> OBVIOUS
  <2>2. <<>> \in Seq(GapRowSet) /\ <<>> \in Seq(Nat) OBVIOUS
  <2>3. Len(gapRows) = 0 /\ Len(gapAlerts) = 0 BY <2>1
  <2>4. DOMAIN gapRows = {} BY <2>1
  <2> QED BY <2>1, <2>2, <2>3, <2>4
<1>3. ledgerEvents \subseteq Ledgers BY DEF CatchupAssumption, Ledgers
<1> HIDE DEF Idle
<1>4. CatchupTypes BY <1>1, <1>2, <1>3 DEF CatchupTypes, Filling
<1>5. EscalatedFailed /\ OneFreshRow /\ FilledIsComplete /\ FailuresAreAlerted
  BY <1>2 DEF EscalatedFailed, OneFreshRow, FilledIsComplete, FailuresAreAlerted
<1>6. TodoUnfilled /\ WalkedSoFar BY <1>1 DEF TodoUnfilled, WalkedSoFar, Filling
<1> QED BY <1>4, <1>5, <1>6 DEF CatchupInv

\* Every step of the worker and of the ledgers keeps the invariant.
LEMMA CatchupStep ==
  ASSUME CatchupAssumption, CatchupInv, [CatchupNext]_catchupVars
  PROVE  CatchupInv'
<1>1. CASE UNCHANGED catchupVars
  BY <1>1 DEF catchupVars, CatchupInv, CatchupTypes, EscalatedFailed, OneFreshRow, TodoUnfilled,
              WalkedSoFar, FilledIsComplete, FailuresAreAlerted
<1>2. CASE CatchupNext
  BY <1>2, IdentifyKeeps, AskingKeeps, LedgerKeeps, FilledKeeps, FailsKeeps, AlertKeeps, OutsideKeeps,
     RecordKeeps, PickKeeps DEF CatchupNext
<1> QED BY <1>1, <1>2

\* The rows of a range are one more than those that were given up, at most.
LEMMA RowsFollow ==
  ASSUME CatchupInv
  PROVE  RowsFollowEscalations
<1> USE DEF CatchupInv
<1> SUFFICES ASSUME NEW i \in DOMAIN gapRows
             PROVE  Cardinality({j \in DOMAIN gapRows : Same(gapRows[j], gapRows[i])})
                      <= 1 + Cardinality({j \in DOMAIN gapRows : Same(gapRows[j], gapRows[i]) /\ gapRows[j].retry >= RetryLimit})
  BY DEF RowsFollowEscalations
<1> DEFINE rows == {j \in DOMAIN gapRows : Same(gapRows[j], gapRows[i])}
           failed == {j \in DOMAIN gapRows : Same(gapRows[j], gapRows[i]) /\ gapRows[j].retry >= RetryLimit}
<1>1. IsFiniteSet(DOMAIN gapRows)
  <2>1. DOMAIN gapRows = 1..Len(gapRows) /\ Len(gapRows) \in Nat BY DEF CatchupTypes
  <2> QED BY <2>1, FS_Interval
<1>2. failed \subseteq rows /\ rows \subseteq DOMAIN gapRows OBVIOUS
<1>3. IsFiniteSet(rows) /\ IsFiniteSet(failed) BY <1>1, <1>2, FS_Subset
<1>4. \A j, k \in rows \ failed : j = k BY DEF OneFreshRow, Same
<1> HIDE DEF rows, failed
<1>5. Cardinality(failed) \in Nat BY <1>3, FS_CardinalityType
<1>6. CASE rows \ failed = {}
  <2>1. rows = failed BY <1>2, <1>6
  <2>2. Cardinality(rows) <= 1 + Cardinality(failed) BY <1>5, <2>1
  <2> QED BY <2>2 DEF rows, failed
<1>7. CASE rows \ failed # {}
  <2>1. PICK j \in rows \ failed : TRUE BY <1>7
  <2>2. rows = failed \cup {j} BY <1>2, <1>4, <2>1
  <2>3. Cardinality(failed \cup {j}) = Cardinality(failed) + 1 BY <1>3, <2>1, FS_AddElement
  <2>4. Cardinality(rows) <= 1 + Cardinality(failed) BY <1>5, <2>2, <2>3
  <2> QED BY <2>4 DEF rows, failed
<1> QED BY <1>6, <1>7

\* event_catchup.ts:95-205: whatever Horizon answers, wherever the worker dies or
\* a cycle breaks off and whatever live ingestion adds, the query finds each hole
\* once, a filled row was walked to its end unless its ends do not compare as
\* texts, a range gets a row per escalation and every failure that is counted has
\* its alert unless the cycle broke off before it.
THEOREM CatchupAccounts == CatchupSpec => []GapsAccounted
<1>1. CatchupInit => CatchupInv BY CatchupAssumption, CatchupInitInv
<1>2. CatchupInv /\ [CatchupNext]_catchupVars => CatchupInv' BY CatchupAssumption, CatchupStep
<1>3. ASSUME CatchupInv PROVE GapsAccounted
  <2>1. FilledIsComplete /\ FailuresAreAlerted BY <1>3 DEF CatchupInv
  <2>2. RowsFollowEscalations BY <1>3, RowsFollow
  <2>3. GapsAreHoles
    <3>1. PICK known : known = Known(ledgerEvents, gapRows) OBVIOUS
    <3>2. known \subseteq Ledgers
      <4>1. \A i \in DOMAIN gapRows : gapRows[i] \in GapRowSet
        BY <1>3, ElementOfSeq DEF CatchupInv, CatchupTypes
      <4>2. \A i \in DOMAIN gapRows : {gapRows[i].start, gapRows[i].end} \subseteq Ledgers
        BY <4>1 DEF GapRowSet
      <4> QED BY <1>3, <3>1, <4>2 DEF Known, CatchupInv, CatchupTypes
    <3>3. \A l \in Ledgers : Cardinality({g \in Gaps(known) : l \in g.start..g.end}) =
            IF l \notin known /\ (\E k \in known : k < l) /\ (\E k \in known : k > l) THEN 1 ELSE 0
      BY <3>2, CatchupAssumption, HolesOnce
    <3> QED BY <3>1, <3>3, Zenon DEF GapsAreHoles
  <2> QED BY <2>1, <2>2, <2>3 DEF GapsAccounted
<1> QED BY <1>1, <1>2, <1>3, PTL DEF CatchupSpec

(***************************************************************************)
(* What tenant routing guarantees for any number of requests, tiers, pools *)
(* of any size and walks under way: clients are counted as the routing     *)
(* means to count them, and nobody who waits is lost unless two walks      *)
(* overlap.                                                                *)
(***************************************************************************)
(***************************************************************************)
(* Arrays and walks.                                                       *)
(***************************************************************************)
\* What is known of a walk that is under way.
IsWalk(w) ==
  w = [pc |-> w.pc, array |-> w.array, at |-> w.at, kept |-> w.kept, entry |-> w.entry, pool |-> w.pool]

\* The heap of arrays, the queue and the walks over them.
HeapOK(arrs, q, ds) ==
  /\ IsFiniteSet(DOMAIN arrs) /\ q \in DOMAIN arrs
  /\ \A a \in DOMAIN arrs : arrs[a] \in Seq(Requests)
  /\ ds = [d \in Drains |-> ds[d]]
  /\ \A d \in Drains : ds[d].pc # "rest" =>
       /\ ds[d].array \in DOMAIN arrs /\ ds[d].at \in 1..Len(arrs[ds[d].array])
       /\ ds[d].kept \in Seq(Requests) /\ ds[d].entry \in Requests /\ ds[d].pool \in Pools /\ IsWalk(ds[d])

\* What a step no longer refers to is gone, and the rest is as it was.
LEMMA KeepOK ==
  ASSUME NEW arrs, NEW q, NEW ds, HeapOK(arrs, q, ds), Keep(arrs, q, ds)
  PROVE  /\ HeapOK(arrays', queue', drain') /\ queue' = q /\ drain' = ds
         /\ arrays'[q] = arrs[q]
         /\ \A d \in Drains : ds[d].pc # "rest" => arrays'[ds[d].array] = arrs[ds[d].array]
<1> DEFINE A == {q} \cup {ds[d].array : d \in {e \in Drains : ds[e].pc # "rest"}}
<1>1. queue' = q /\ drain' = ds /\ arrays' = [a \in A |-> arrs[a]] BY DEF Keep
<1>2. A \subseteq DOMAIN arrs BY DEF HeapOK
<1>3. DOMAIN arrays' = A /\ \A a \in A : arrays'[a] = arrs[a] BY <1>1
<1>4. q \in A /\ \A d \in Drains : ds[d].pc # "rest" => ds[d].array \in A OBVIOUS
<1> HIDE DEF A
<1>5. IsFiniteSet(A) BY <1>2, FS_Subset DEF HeapOK
<1> QED BY <1>1, <1>2, <1>3, <1>4, <1>5 DEF HeapOK

\* A new array is none that something refers to.
LEMMA NewIsNew ==
  ASSUME NEW arrs, IsFiniteSet(DOMAIN arrs)
  PROVE  NewArray(arrs) \notin DOMAIN arrs
<1> DEFINE n == Cardinality(DOMAIN arrs)
<1>1. n \in Nat BY FS_CardinalityType
<1>2. CASE 0..n \subseteq DOMAIN arrs
  <2>1. Cardinality(0..n) <= n BY <1>2, FS_Subset
  <2>2. Cardinality(0..n) = n + 1 BY <1>1, FS_Interval
  <2> QED BY <1>1, <2>1, <2>2
<1>3. CASE ~(0..n \subseteq DOMAIN arrs)
  <2>1. \E k \in 0..n : k \notin DOMAIN arrs BY <1>3
  <2> QED BY <2>1 DEF NewArray
<1> QED BY <1>2, <1>3

\* An array that is added takes the place of none.
LEMMA PlusOK ==
  ASSUME NEW arrs, IsFiniteSet(DOMAIN arrs), NEW s
  PROVE  /\ DOMAIN Plus(arrs, s) = DOMAIN arrs \cup {NewArray(arrs)}
         /\ IsFiniteSet(DOMAIN Plus(arrs, s))
         /\ Plus(arrs, s)[NewArray(arrs)] = s
         /\ \A a \in DOMAIN arrs : Plus(arrs, s)[a] = arrs[a]
<1>1. NewArray(arrs) \notin DOMAIN arrs BY NewIsNew
<1>2. DOMAIN Plus(arrs, s) = DOMAIN arrs \cup {NewArray(arrs)} BY DEF Plus
<1>3. IsFiniteSet(DOMAIN arrs \cup {NewArray(arrs)}) BY FS_AddElement
<1>4. /\ Plus(arrs, s)[NewArray(arrs)] = s
      /\ \A a \in DOMAIN arrs : Plus(arrs, s)[a] = arrs[a]
  BY <1>1 DEF Plus
<1> QED BY <1>2, <1>3, <1>4

\* The sequence a walk has kept and what is still ahead of it.
LEMMA Rejoined ==
  ASSUME NEW k \in Seq(Requests), NEW s \in Seq(Requests), NEW at \in 1..(Len(s) + 1),
         NEW stop \in at..(Len(s) + 1)
  PROVE  /\ k \o SubSeq(s, at, stop - 1) \in Seq(Requests)
         /\ (k \o SubSeq(s, at, stop - 1)) \o SubSeq(s, stop, Len(s)) = k \o SubSeq(s, at, Len(s))
<1>1. Len(s) \in Nat /\ at \in Int /\ stop \in Int /\ stop - 1 \in Int OBVIOUS
<1>2. /\ \A i \in at..(stop - 1) : s[i] \in Requests
      /\ \A i \in stop..Len(s) : s[i] \in Requests
      /\ \A i \in at..Len(s) : s[i] \in Requests
  BY <1>1, ElementOfSeq
<1> DEFINE u == SubSeq(s, at, stop - 1)
           v == SubSeq(s, stop, Len(s))
           w == SubSeq(s, at, Len(s))
<1>3. /\ u \in Seq(Requests) /\ Len(u) = stop - at
      /\ \A i \in 1..(stop - at) : u[i] = s[at + i - 1]
  BY <1>1, <1>2, SubSeqProperties
<1>4. /\ v \in Seq(Requests) /\ Len(v) = Len(s) - stop + 1
      /\ \A i \in 1..(Len(s) - stop + 1) : v[i] = s[stop + i - 1]
  BY <1>1, <1>2, SubSeqProperties
<1>5. /\ w \in Seq(Requests) /\ Len(w) = Len(s) - at + 1
      /\ \A i \in 1..(Len(s) - at + 1) : w[i] = s[at + i - 1]
  BY <1>1, <1>2, SubSeqProperties
<1> HIDE DEF u, v, w
<1>6. u \o v = w
  <2>1. /\ u \o v \in Seq(Requests) /\ Len(u \o v) = Len(u) + Len(v)
        /\ \A i \in 1..(Len(u) + Len(v)) : (u \o v)[i] = IF i <= Len(u) THEN u[i] ELSE v[i - Len(u)]
    BY <1>3, <1>4, ConcatProperties
  <2>2. Len(u \o v) = Len(w) BY <1>1, <1>3, <1>4, <1>5, <2>1
  <2>3. ASSUME NEW i \in 1..Len(w) PROVE (u \o v)[i] = w[i]
    <3>1. i \in 1..(Len(u) + Len(v)) BY <2>1, <2>2
    <3>2. w[i] = s[at + i - 1] BY <1>5
    <3>3. CASE i <= Len(u)
      <4>1. i \in 1..(stop - at) BY <1>1, <1>3, <3>3
      <4>2. u[i] = s[at + i - 1] BY <1>3, <4>1
      <4>3. (u \o v)[i] = u[i] BY <2>1, <3>1, <3>3
      <4> QED BY <3>2, <4>2, <4>3
    <3>4. CASE ~(i <= Len(u))
      <4>0. Len(u) = stop - at /\ i \in Int /\ i > stop - at /\ i <= (stop - at) + (Len(s) - stop + 1)
        <5>1. Len(u) = stop - at /\ Len(v) = Len(s) - stop + 1 BY <1>3, <1>4
        <5> QED BY <1>1, <3>1, <3>4, <5>1
      <4>1. i - Len(u) \in 1..(Len(s) - stop + 1) /\ stop + (i - Len(u)) - 1 = at + i - 1
        BY <1>1, <4>0
      <4>2. v[i - Len(u)] = s[stop + (i - Len(u)) - 1] BY <1>4, <4>1
      <4>3. (u \o v)[i] = v[i - Len(u)] BY <2>1, <3>1, <3>4
      <4> QED BY <3>2, <4>1, <4>2, <4>3
    <3> QED BY <3>3, <3>4
  <2> QED BY <1>5, <2>1, <2>2, <2>3, SeqEqual
<1>7. k \o u \in Seq(Requests) /\ (k \o u) \o v = k \o w
  <2>1. u \in Seq(Requests) /\ v \in Seq(Requests) BY <1>3, <1>4
  <2>2. k \o u \in Seq(Requests) BY <2>1, ConcatProperties
  <2>3. (k \o u) \o v = k \o (u \o v) BY <2>1, ConcatAssociative, SMTT(60)
  <2> QED BY <1>6, <2>2, <2>3
<1> QED BY <1>7 DEF u, v, w

\* Walk d has come to an entry of its array and keeps what it kept, or it has
\* replaced the queue by that; the other walks are where they were.
Walked(d, a, at, kept, arrs) ==
  /\ \A e \in Drains : e # d => drain'[e] = drain[e]
  /\ \/ /\ drain'[d] = Resting /\ at = Len(arrs[a]) + 1
        /\ arrays'[queue'] = kept
     \/ /\ drain'[d].pc # "rest" /\ drain'[d].array = a /\ queue' = queue
        /\ arrays'[a] = arrs[a] /\ drain'[d].at = at /\ at \in 1..Len(arrs[a])
        /\ drain'[d].entry = arrs[a][at] /\ drain'[d].kept = kept

\* tenant_routing.ts:159-171: a walk that goes on leaves the heap as it should be.
LEMMA WalkOK ==
  ASSUME TenantAssumption,
         NEW d \in Drains, NEW arrs, NEW a \in DOMAIN arrs, HeapOK(arrs, queue, [drain EXCEPT ![d] = Resting]),
         NEW at \in 1..(Len(arrs[a]) + 1), NEW kept \in Seq(Requests), NEW pools,
         Walk(d, a, at, kept, arrs, pools)
  PROVE  HeapOK(arrays', queue', drain') /\ Walked(d, a, at, kept, arrs)
<1> DEFINE s == arrs[a]
           rested == [drain EXCEPT ![d] = Resting]
<1>1. s \in Seq(Requests) /\ Len(s) \in Nat BY DEF HeapOK
<1>4. /\ rested = [e \in Drains |-> rested[e]] /\ rested[d] = Resting
      /\ \A e \in Drains : e # d => rested[e] = drain[e]
  <2>1. rested = [e \in Drains |-> rested[e]] BY DEF HeapOK
  <2>2. DOMAIN rested = Drains BY <2>1, Zenon
  <2>3. DOMAIN drain = Drains BY <2>2
  <2> QED BY <2>1, <2>3
<1>5. DOMAIN rested = Drains /\ DOMAIN drain = Drains
  <2>1. DOMAIN rested = Drains BY <1>4, Zenon
  <2> QED BY <2>1
<1>6. CASE at > Len(s)
  <2> DEFINE n == NewArray(arrs)
             more == Plus(arrs, kept)
  <2>1. Keep(more, n, rested) BY <1>6 DEF Walk
  <2>2. /\ DOMAIN more = DOMAIN arrs \cup {n} /\ IsFiniteSet(DOMAIN more) /\ more[n] = kept
        /\ \A b \in DOMAIN arrs : more[b] = arrs[b]
    <3>1. IsFiniteSet(DOMAIN arrs) BY DEF HeapOK
    <3> QED BY <3>1, PlusOK, ZenonT(60)
  <2> HIDE DEF more, n, rested, s
  <2>3. HeapOK(more, n, rested)
    <3>1. \A b \in DOMAIN more : more[b] \in Seq(Requests) BY <2>2 DEF HeapOK
    <3>2. ASSUME NEW e \in Drains, rested[e].pc # "rest"
          PROVE  /\ rested[e].array \in DOMAIN more /\ rested[e].at \in 1..Len(more[rested[e].array])
                 /\ rested[e].kept \in Seq(Requests) /\ rested[e].entry \in Requests
                 /\ rested[e].pool \in Pools /\ IsWalk(rested[e])
      <4>1. /\ rested[e].array \in DOMAIN arrs /\ rested[e].at \in 1..Len(arrs[rested[e].array])
            /\ rested[e].kept \in Seq(Requests) /\ rested[e].entry \in Requests
            /\ rested[e].pool \in Pools /\ IsWalk(rested[e])
        BY <3>2 DEF HeapOK, rested
      <4> QED BY <2>2, <4>1
    <3> QED BY <1>4, <2>2, <3>1, <3>2 DEF HeapOK
  <2>4. /\ HeapOK(arrays', queue', drain') /\ queue' = n /\ drain' = rested /\ arrays'[n] = kept
    BY <2>1, <2>2, <2>3, KeepOK
  <2>5. at = Len(s) + 1
    <3>1. Len(s) \in Nat /\ at \in 1..(Len(s) + 1) BY <1>1 DEF s
    <3> QED BY <1>6, <3>1
  <2> QED BY <1>4, <2>4, <2>5 DEF s, Walked
<1>7. CASE ~(at > Len(s))
  <2> DEFINE place == IF CanAllocate(TierOf[s[at]], pools) THEN "ask" ELSE "failed"
             walking == [pc |-> place, array |-> a, at |-> at, kept |-> kept, entry |-> s[at],
                         pool |-> Allocate(TierOf[s[at]], pools)]
             on == [drain EXCEPT ![d] = walking]
  <2>1. Keep(arrs, queue, on) BY <1>7 DEF Walk
  <2>2. at \in 1..Len(s) BY <1>1, <1>7
  <2>3. s[at] \in Requests BY <1>1, <2>2, ElementOfSeq
  <2>4. Allocate(TierOf[s[at]], pools) \in Pools BY <2>3 DEF Allocate, TenantAssumption
  <2>5. /\ on = [e \in Drains |-> on[e]] /\ on[d] = walking
        /\ \A e \in Drains : e # d => on[e] = drain[e]
    <3> HIDE DEF walking
    <3>1. DOMAIN on = Drains BY <1>5
    <3>2. on[d] = walking /\ \A e \in Drains : e # d => on[e] = drain[e] BY <1>5
    <3>3. on = [e \in DOMAIN on |-> on[e]] BY <1>5
    <3> QED BY <3>1, <3>2, <3>3
  <2>6. /\ walking.pc # "rest" /\ walking.array = a /\ walking.at = at /\ walking.kept = kept
        /\ walking.entry = s[at] /\ walking.pool = Allocate(TierOf[s[at]], pools)
    OBVIOUS
  <2>9. IsWalk(walking) BY DEF IsWalk
  <2> HIDE DEF walking, on, rested
  <2>7. HeapOK(arrs, queue, on)
    <3>1. ASSUME NEW e \in Drains, on[e].pc # "rest"
          PROVE  /\ on[e].array \in DOMAIN arrs /\ on[e].at \in 1..Len(arrs[on[e].array])
                 /\ on[e].kept \in Seq(Requests) /\ on[e].entry \in Requests
                 /\ on[e].pool \in Pools /\ IsWalk(on[e])
      <4>1. CASE e = d BY <2>2, <2>3, <2>4, <2>5, <2>6, <2>9, <4>1
      <4>2. CASE e # d
        <5>1. on[e] = rested[e] BY <1>4, <2>5, <4>2
        <5> QED BY <3>1, <5>1 DEF HeapOK, rested
      <4> QED BY <4>1, <4>2
    <3> QED BY <2>5, <3>1 DEF HeapOK
  <2>8. /\ HeapOK(arrays', queue', drain') /\ queue' = queue /\ drain' = on
        /\ arrays'[on[d].array] = arrs[on[d].array]
    BY <2>1, <2>5, <2>6, <2>7, KeepOK
  <2> QED BY <2>2, <2>5, <2>6, <2>8 DEF Walked
<1> QED BY <1>6, <1>7

\* A line of requests holds each of those that wait, once.
Exact(line, who) ==
  /\ \A i, j \in DOMAIN line : line[i] = line[j] => i = j
  /\ \A r \in Requests : r \in who <=> \E i \in DOMAIN line : line[i] = r

\* With one walk at most, who waits is in the queue, or in what the walk has
\* kept and what is ahead of it.
Lines(arrs, q, ds, who) ==
  /\ (\A d \in Drains : ds[d].pc = "rest") => Exact(arrs[q], who)
  /\ \A d \in Drains : ds[d].pc # "rest" =>
       /\ \A e \in Drains : ds[e].pc # "rest" => e = d
       /\ ds[d].array = q /\ ds[d].entry = arrs[q][ds[d].at]
       /\ Exact(ds[d].kept \o SubSeq(arrs[q], ds[d].at, Len(arrs[q])), who)

\* A walk that is alone carries the whole line.
LEMMA WalkLines ==
  ASSUME TenantAssumption,
         NEW d \in Drains, NEW arrs, queue \in DOMAIN arrs,
         HeapOK(arrs, queue, [drain EXCEPT ![d] = Resting]),
         NEW at \in 1..(Len(arrs[queue]) + 1), NEW kept \in Seq(Requests), NEW pools,
         Walk(d, queue, at, kept, arrs, pools),
         \A e \in Drains : drain[e].pc # "rest" => e = d,
         NEW who, Exact(kept \o SubSeq(arrs[queue], at, Len(arrs[queue])), who)
  PROVE  Lines(arrays', queue', drain', who)
<1>1. Walked(d, queue, at, kept, arrs) BY WalkOK
<1>2. \A e \in Drains : drain'[e].pc # "rest" => e = d BY <1>1 DEF Walked
<1>3. CASE drain'[d] = Resting
  <2>1. drain'[d].pc = "rest" BY <1>3 DEF Resting
  <2>2. at = Len(arrs[queue]) + 1 /\ arrays'[queue'] = kept BY <1>1, <2>1 DEF Walked
  <2>3. SubSeq(arrs[queue], at, Len(arrs[queue])) = <<>>
    <3>1. arrs[queue] \in Seq(Requests) /\ Len(arrs[queue]) \in Nat BY DEF HeapOK
    <3> QED BY <2>2, <3>1, SubSeqEmpty
  <2>4. Exact(kept, who) BY <2>3, ConcatEmptySeq
  <2> QED BY <1>2, <2>1, <2>2, <2>4 DEF Lines
<1>4. CASE drain'[d] # Resting
  <2>1. /\ drain'[d].pc # "rest" /\ drain'[d].array = queue /\ queue' = queue
        /\ arrays'[queue] = arrs[queue] /\ drain'[d].at = at
        /\ drain'[d].entry = arrs[queue][at] /\ drain'[d].kept = kept
    BY <1>1, <1>4 DEF Walked
  <2>2. Exact(drain'[d].kept \o SubSeq(arrays'[queue'], drain'[d].at, Len(arrays'[queue'])), who) BY <2>1
  <2> QED BY <1>2, <2>1, <2>2 DEF Lines
<1> QED BY <1>3, <1>4

\* tenant_routing.ts:153-157: sorting moves the entries and changes none.
LEMMA SortOK ==
  ASSUME NEW s \in Seq(Requests), NEW order, NEW t \in Sorted(s, order)
  PROVE  /\ t \in Seq(Requests) /\ Len(t) = Len(s)
         /\ \A who : Exact(s, who) => Exact(t, who)
<1>1. PICK p \in [DOMAIN s -> DOMAIN s] :
        /\ \A j \in DOMAIN s : \E i \in DOMAIN s : p[i] = j
        /\ t = [i \in DOMAIN s |-> s[p[i]]]
  <2> DEFINE Orders == {q \in [DOMAIN s -> DOMAIN s] :
                          /\ \A j \in DOMAIN s : \E i \in DOMAIN s : q[i] = j
                          /\ \A i, j \in DOMAIN s : i < j => ~Before(s[q[j]], s[q[i]], order)}
  <2>1. \A p \in Orders : p \in [DOMAIN s -> DOMAIN s] /\ \A j \in DOMAIN s : \E i \in DOMAIN s : p[i] = j
    OBVIOUS
  <2>2. t \in {[i \in DOMAIN s |-> s[p[i]]] : p \in Orders} BY Zenon DEF Sorted
  <2> HIDE DEF Orders
  <2>3. PICK p \in Orders : t = [i \in DOMAIN s |-> s[p[i]]] BY <2>2
  <2> QED BY <2>1, <2>3
<1>2. DOMAIN s = 1..Len(s) /\ Len(s) \in Nat /\ \A i \in DOMAIN s : s[i] \in Requests
  BY ElementOfSeq
<1>3. \A i \in 1..Len(s) : t[i] = s[p[i]] /\ t[i] \in Requests BY <1>1, <1>2
<1>4. t = [i \in 1..Len(s) |-> t[i]] BY <1>1, <1>2
<1>5. t \in Seq(Requests) /\ Len(t) = Len(s) /\ DOMAIN t = DOMAIN s BY <1>2, <1>3, <1>4
<1>6. \A i, j \in DOMAIN s : p[i] = p[j] => i = j
  <2>1. p \in Surjection(DOMAIN s, DOMAIN s) BY <1>1 DEF Surjection
  <2>2. IsFiniteSet(DOMAIN s) BY <1>2, FS_Interval
  <2>3. p \in Injection(DOMAIN s, DOMAIN s) BY <2>1, <2>2, FS_SurjSameCardinalityImpliesInj
  <2> QED BY <2>3 DEF Injection, IsInjective
<1>7. ASSUME NEW who, Exact(s, who) PROVE Exact(t, who)
  <2>1. ASSUME NEW i \in DOMAIN s, NEW j \in DOMAIN s, t[i] = t[j] PROVE i = j
    <3>1. p[i] \in DOMAIN s /\ p[j] \in DOMAIN s /\ s[p[i]] = s[p[j]] BY <1>1, <2>1
    <3> QED BY <1>6, <1>7, <3>1 DEF Exact
  <2>2. ASSUME NEW r \in Requests
        PROVE  (\E i \in DOMAIN s : s[i] = r) <=> \E i \in DOMAIN s : t[i] = r
    BY <1>1
  <2> QED BY <1>5, <1>7, <2>1, <2>2 DEF Exact
<1> QED BY <1>5, <1>7

\* Starting a walk keeps the heap; it carries the whole line if it is the only
\* one, and otherwise two are under way.
LEMMA DrainOK ==
  ASSUME TenantAssumption,
         NEW arrs, HeapOK(arrs, queue, drain), NEW pools, TryDrain(arrs, pools)
  PROVE  /\ HeapOK(arrays', queue', drain')
         /\ \A who : Walking = {} /\ Exact(arrs[queue], who) => Lines(arrays', queue', drain', who)
         /\ overlapped => overlapped'
         /\ Walking # {} /\ arrs[queue] # <<>> => overlapped'
<1>1. CASE arrs[queue] = <<>>
  <2>1. Keep(arrs, queue, drain) /\ overlapped' = overlapped BY <1>1 DEF TryDrain
  <2>2. HeapOK(arrays', queue', drain') /\ queue' = queue /\ drain' = drain /\ arrays'[queue] = arrs[queue]
    BY <2>1, KeepOK
  <2>3. \A who : Walking = {} /\ Exact(arrs[queue], who) => Lines(arrays', queue', drain', who)
    BY <2>2 DEF Lines, Walking
  <2> QED BY <1>1, <2>1, <2>2, <2>3
<1>2. CASE arrs[queue] # <<>>
  <2> DEFINE d == CHOOSE e \in Drains \ Walking : TRUE
  <2>1. Walking # Drains /\ Walking \subseteq Drains /\ overlapped' = (overlapped \/ Walking # {})
    BY <1>2 DEF TryDrain, Walking
  <2>2. d \in Drains /\ d \notin Walking BY <2>1
  <2>3. PICK sorted \in Sorted(arrs[queue], arrivals') :
          Walk(d, queue, 1, <<>>, [arrs EXCEPT ![queue] = sorted], pools)
    BY <1>2 DEF TryDrain
  <2>4. PICK more : more = [arrs EXCEPT ![queue] = sorted] OBVIOUS
  <2> HIDE DEF d
  <2>5. arrs[queue] \in Seq(Requests) /\ queue \in DOMAIN arrs BY DEF HeapOK
  <2>6. PICK order : order = arrivals' OBVIOUS
  <2>7. /\ sorted \in Seq(Requests) /\ Len(sorted) = Len(arrs[queue])
        /\ \A who : Exact(arrs[queue], who) => Exact(sorted, who)
    <3>1. sorted \in Sorted(arrs[queue], order) BY <2>3, <2>6
    <3> QED BY <2>5, <3>1, SortOK
  <2>8. /\ DOMAIN more = DOMAIN arrs /\ more[queue] = sorted
        /\ \A a \in DOMAIN arrs : a # queue => more[a] = arrs[a]
    BY <2>4, <2>5
  <2> DEFINE rested == [drain EXCEPT ![d] = Resting]
  <2>9. /\ rested = [e \in Drains |-> rested[e]]
        /\ \A e \in Drains : rested[e].pc # "rest" => rested[e] = drain[e]
    <3>1. DOMAIN drain = Drains
      <4>1. drain = [e \in Drains |-> drain[e]] BY DEF HeapOK
      <4> QED BY <4>1, Zenon
    <3>2. rested[d] = Resting /\ \A e \in Drains : e # d => rested[e] = drain[e] BY <2>2, <3>1
    <3>3. rested = [e \in Drains |-> rested[e]] BY <3>1
    <3> QED BY <3>2, <3>3 DEF Resting
  <2> HIDE DEF rested
  <2>10. HeapOK(more, queue, rested)
    <3>1. \A a \in DOMAIN more : more[a] \in Seq(Requests) BY <2>7, <2>8 DEF HeapOK
    <3>2. \A a \in DOMAIN more : Len(more[a]) = Len(arrs[a]) BY <2>7, <2>8
    <3>3. ASSUME NEW e \in Drains, rested[e].pc # "rest"
          PROVE  /\ rested[e].array \in DOMAIN more /\ rested[e].at \in 1..Len(more[rested[e].array])
                 /\ rested[e].kept \in Seq(Requests) /\ rested[e].entry \in Requests
                 /\ rested[e].pool \in Pools /\ IsWalk(rested[e])
      <4>1. rested[e] = drain[e] BY <2>9, <3>3
      <4>2. /\ drain[e].array \in DOMAIN arrs /\ drain[e].at \in 1..Len(arrs[drain[e].array])
            /\ drain[e].kept \in Seq(Requests) /\ drain[e].entry \in Requests
            /\ drain[e].pool \in Pools /\ IsWalk(drain[e])
        BY <3>3, <4>1 DEF HeapOK
      <4> QED BY <2>8, <3>2, <4>1, <4>2
    <3> QED BY <2>5, <2>8, <2>9, <3>1, <3>3 DEF HeapOK
  <2>11. <<>> \in Seq(Requests) /\ 1 \in 1..(Len(more[queue]) + 1) /\ queue \in DOMAIN more
    BY <2>5, <2>7, <2>8
  <2>12. Walk(d, queue, 1, <<>>, more, pools) BY <2>3, <2>4
  <2>13. HeapOK(arrays', queue', drain')
    BY <2>2, <2>10, <2>11, <2>12, WalkOK DEF rested
  <2>14. ASSUME NEW who, Walking = {}, Exact(arrs[queue], who)
         PROVE  Lines(arrays', queue', drain', who)
    <3>1. <<>> \o SubSeq(more[queue], 1, Len(more[queue])) = sorted
      BY <2>7, <2>8, SubSeqFull, ConcatEmptySeq
    <3>2. Exact(<<>> \o SubSeq(more[queue], 1, Len(more[queue])), who) BY <2>7, <2>14, <3>1
    <3>3. \A e \in Drains : drain[e].pc # "rest" => e = d BY <2>14 DEF Walking
    <3> QED BY <2>2, <2>10, <2>11, <2>12, <3>2, <3>3, WalkLines DEF rested
  <2> QED BY <2>1, <2>13, <2>14
<1> QED BY <1>1, <1>2

(***************************************************************************)
(* The invariant.                                                          *)
(***************************************************************************)
Counters == [acquired : Int, max : Int, idle : Nat, inUse : Nat]
Places == {"new", "ask", "refused", "queued", "holding", "done", "rejected"}
HoldersIn(p) == {r \in Requests : request[r].pc = "holding" /\ request[r].pool = p}
HoldersOf(t) == {r \in Requests : TierOf[r] = t /\ request[r].pc = "holding"}
Queued == {r \in Requests : request[r].pc = "queued"}

TenantTypes ==
  /\ pool \in [Pools -> Counters]
  /\ request \in [Requests -> [pc : Places, pool : Pools]]
  /\ perTenant \in [Tiers -> Nat] /\ unowned \in [Tiers -> Nat]

\* Every request that holds a client has one of its pool's clients in use.
HoldersUse == \A p \in Pools : Cardinality(HoldersIn(p)) <= pool[p].inUse

ClientsOK == TenantTypes /\ AcquiredCountsTwice /\ HoldersUse /\ TenantCountsAgree

WaitersOK == overlapped \/ ((\A t \in Tiers : unowned[t] = 0) /\ Lines(arrays, queue, drain, Queued))

TenantInv == ClientsOK /\ HeapOK(arrays, queue, drain) /\ WaitersOK

(***************************************************************************)
(* Clients.                                                                *)
(***************************************************************************)
\* connection_pool.ts:15-36: the events of a grant, of a release and of a
\* removal keep the double count.
LEMMA CountsKept ==
  ASSUME NEW q \in Counters, q.acquired = q.idle + 2 * q.inUse
  PROVE  /\ /\ Granted(q) \in Counters /\ Granted(q).inUse = q.inUse + 1
            /\ Granted(q).acquired = Granted(q).idle + 2 * Granted(q).inUse
         /\ q.inUse > 0 =>
              /\ Returned(OnRelease(q)) \in Counters /\ Returned(OnRelease(q)).inUse = q.inUse - 1
              /\ Returned(OnRelease(q)).acquired = Returned(OnRelease(q)).idle + 2 * Returned(OnRelease(q)).inUse
         /\ q.idle > 0 =>
              /\ Closed(q) \in Counters /\ Closed(q).inUse = q.inUse
              /\ Closed(q).acquired = Closed(q).idle + 2 * Closed(q).inUse
<1>1. ASSUME q.idle > 0
      PROVE  /\ Granted(q) \in Counters /\ Granted(q).inUse = q.inUse + 1
             /\ Granted(q).acquired = Granted(q).idle + 2 * Granted(q).inUse
  <2>0. PICK i \in Nat, u \in Nat : i = q.idle - 1 /\ u = q.inUse + 1 BY <1>1 DEF Counters
  <2> DEFINE g == [q EXCEPT !.idle = i, !.inUse = u]
  <2>1. g \in Counters /\ g.idle = q.idle - 1 /\ g.inUse = q.inUse + 1 /\ g.acquired = q.acquired
    BY <2>0 DEF Counters
  <2>2. Granted(q) = [g EXCEPT !.acquired = @ + 1] BY <1>1, <2>0 DEF Granted, OnAcquire, Counters
  <2> HIDE DEF g
  <2> QED BY <2>1, <2>2 DEF Counters
<1>2. ASSUME ~(q.idle > 0)
      PROVE  /\ Granted(q) \in Counters /\ Granted(q).inUse = q.inUse + 1
             /\ Granted(q).acquired = Granted(q).idle + 2 * Granted(q).inUse
  <2> DEFINE g == [q EXCEPT !.inUse = @ + 1]
             h == [g EXCEPT !.acquired = @ + 1]
  <2>1. g \in Counters /\ g.idle = q.idle /\ g.inUse = q.inUse + 1 /\ g.acquired = q.acquired
    BY DEF Counters
  <2>2. Granted(q) = [h EXCEPT !.acquired = @ + 1] BY <1>2 DEF Granted, OnAcquire, OnConnect
  <2> HIDE DEF g
  <2>3. h \in Counters /\ h.idle = q.idle /\ h.inUse = q.inUse + 1 /\ h.acquired = q.acquired + 1
    BY <2>1 DEF Counters
  <2> HIDE DEF h
  <2> QED BY <2>2, <2>3 DEF Counters
<1>3. ASSUME q.inUse > 0
      PROVE  /\ Returned(OnRelease(q)) \in Counters /\ Returned(OnRelease(q)).inUse = q.inUse - 1
             /\ Returned(OnRelease(q)).acquired = Returned(OnRelease(q)).idle + 2 * Returned(OnRelease(q)).inUse
  <2>1. q.acquired - 1 \in Nat /\ AtLeast(0, q.acquired - 1) = q.acquired - 1
    BY <1>3 DEF Counters, AtLeast
  <2>2. PICK n \in Nat : n = q.acquired - 1 BY <2>1
  <2>3. OnRelease(q) = [q EXCEPT !.acquired = n] BY <2>1, <2>2 DEF OnRelease, Counters
  <2>4. OnRelease(q) \in Counters /\ OnRelease(q).acquired = n
        /\ OnRelease(q).idle = q.idle /\ OnRelease(q).inUse = q.inUse
    BY <2>3 DEF Counters
  <2>5. PICK i \in Nat, u \in Nat : i = q.idle + 1 /\ u = q.inUse - 1 BY <1>3 DEF Counters
  <2> DEFINE g == OnRelease(q)
  <2>6. Returned(g) = [g EXCEPT !.idle = i, !.inUse = u] BY <2>4, <2>5 DEF Returned, Counters
  <2> HIDE DEF g
  <2>7. [g EXCEPT !.idle = i, !.inUse = u] \in Counters /\ Returned(g).idle = i /\ Returned(g).inUse = u
        /\ Returned(g).acquired = n
    BY <2>4, <2>6 DEF Counters, g
  <2> QED BY <2>2, <2>4, <2>5, <2>6, <2>7 DEF Counters, g
<1>4. ASSUME q.idle > 0
      PROVE  /\ Closed(q) \in Counters /\ Closed(q).inUse = q.inUse
             /\ Closed(q).acquired = Closed(q).idle + 2 * Closed(q).inUse
  <2> DEFINE g == [q EXCEPT !.idle = @ - 1]
             m == AtLeast(1, g.max - 1)
             n == AtLeast(0, g.acquired - 1)
  <2>1. g \in Counters /\ g.idle = q.idle - 1 /\ g.inUse = q.inUse /\ g.acquired = q.acquired
    BY <1>4 DEF Counters
  <2>2. OnRemove(g) = [g EXCEPT !.max = m, !.acquired = n]
    BY <2>1 DEF OnRemove, Counters
  <2> HIDE DEF g
  <2>3. m \in Int BY <2>1 DEF AtLeast, Counters
  <2>4. n = q.idle - 1 + 2 * q.inUse /\ n \in Int BY <1>4, <2>1 DEF AtLeast, Counters
  <2> HIDE DEF m, n
  <2>5. OnRemove(g) \in Counters /\ OnRemove(g).inUse = q.inUse /\ OnRemove(g).idle = q.idle - 1
        /\ OnRemove(g).acquired = n
    BY <2>1, <2>2, <2>3, <2>4 DEF Counters
  <2> QED BY <2>4, <2>5 DEF g, Closed
<1> QED BY <1>1, <1>2, <1>3, <1>4 DEF Counters

\* Any set of requests is finite.
LEMMA HoldersFinite ==
  ASSUME TenantAssumption
  PROVE  /\ IsFiniteSet(Requests)
         /\ \A S \in SUBSET Requests : IsFiniteSet(S) /\ Cardinality(S) \in Nat
BY FS_Subset, FS_CardinalityType DEF TenantAssumption

\* A counter of a pool changes, and every other pool stays as it was.
LEMMA PoolChanged ==
  ASSUME TenantTypes, AcquiredCountsTwice, NEW p \in Pools, NEW q \in Counters,
         q.acquired = q.idle + 2 * q.inUse, pool' = [pool EXCEPT ![p] = q]
  PROVE  /\ pool' \in [Pools -> Counters] /\ AcquiredCountsTwice' /\ pool'[p] = q
         /\ \A o \in Pools : o # p => pool'[o] = pool[o]
<1>1. pool' \in [Pools -> Counters] BY DEF TenantTypes
<1>2. pool'[p] = q /\ \A o \in Pools : o # p => pool'[o] = pool[o] BY DEF TenantTypes
<1>3. AcquiredCountsTwice' BY <1>2 DEF AcquiredCountsTwice
<1> QED BY <1>1, <1>2, <1>3

\* A step after which the same requests hold the same clients.
LEMMA SameHolders ==
  ASSUME ClientsOK, pool' = pool, perTenant' = perTenant, unowned' = unowned,
         request' \in [Requests -> [pc : Places, pool : Pools]],
         \A r \in Requests : request[r].pc = "holding" <=> request'[r].pc = "holding",
         \A r \in Requests : request[r].pc = "holding" => request'[r].pool = request[r].pool
  PROVE  ClientsOK'
<1>1. \A p \in Pools : HoldersIn(p)' = HoldersIn(p) BY DEF HoldersIn
<1>2. \A t \in Tiers : HoldersOf(t)' = HoldersOf(t) BY DEF HoldersOf
<1>3. TenantTypes' BY DEF ClientsOK, TenantTypes
<1>4. AcquiredCountsTwice' BY DEF ClientsOK, AcquiredCountsTwice
<1>5. HoldersUse' BY <1>1 DEF ClientsOK, HoldersUse
<1>6. TenantCountsAgree' BY <1>2 DEF ClientsOK, TenantCountsAgree, HoldersOf
<1> QED BY <1>3, <1>4, <1>5, <1>6 DEF ClientsOK

\* tenant_routing.ts:68-88: a client that reaches its request.
LEMMA ClientGiven ==
  ASSUME TenantAssumption, ClientsOK, NEW r \in Requests, request[r].pc # "holding", NEW p \in Pools,
         pool' = [pool EXCEPT ![p] = Granted(@)],
         request' = [request EXCEPT ![r] = [pc |-> "holding", pool |-> p]],
         RecordAcquire(TierOf[r]), unowned' = unowned
  PROVE  ClientsOK'
<1> USE DEF ClientsOK
<1> DEFINE q == Granted(pool[p])
           t == TierOf[r]
<1>1. pool[p] \in Counters /\ pool[p].acquired = pool[p].idle + 2 * pool[p].inUse
  BY DEF TenantTypes, AcquiredCountsTwice
<1>2. q \in Counters /\ q.acquired = q.idle + 2 * q.inUse /\ q.inUse = pool[p].inUse + 1
  BY <1>1, CountsKept
<1>3. /\ pool' \in [Pools -> Counters] /\ AcquiredCountsTwice' /\ pool'[p] = q
      /\ \A o \in Pools : o # p => pool'[o] = pool[o]
  <2>1. pool' = [pool EXCEPT ![p] = q] BY DEF TenantTypes
  <2> HIDE DEF q
  <2> QED BY <1>2, <2>1, PoolChanged
<1> HIDE DEF q
<1>4. /\ request' \in [Requests -> [pc : Places, pool : Pools]]
      /\ request'[r] = [pc |-> "holding", pool |-> p]
      /\ \A s \in Requests : s # r => request'[s] = request[s]
  <2>1. [pc |-> "holding", pool |-> p] \in [pc : Places, pool : Pools] BY DEF Places
  <2>2. request \in [Requests -> [pc : Places, pool : Pools]] BY DEF TenantTypes
  <2> QED BY <2>1, <2>2
<1>5. t \in Tiers /\ TierOf \in [Requests -> Tiers] BY DEF TenantAssumption, Tiers
<1>6. /\ perTenant' \in [Tiers -> Nat] /\ perTenant'[t] = perTenant[t] + 1
      /\ \A u \in Tiers : u # t => perTenant'[u] = perTenant[u]
  BY <1>5 DEF RecordAcquire, TenantTypes
<1>7. \A o \in Pools : /\ HoldersIn(o)' = IF o = p THEN HoldersIn(o) \cup {r} ELSE HoldersIn(o)
                       /\ r \notin HoldersIn(o) /\ HoldersIn(o) \in SUBSET Requests
  BY <1>4 DEF HoldersIn
<1>8. \A u \in Tiers : /\ HoldersOf(u)' = IF u = t THEN HoldersOf(u) \cup {r} ELSE HoldersOf(u)
                       /\ r \notin HoldersOf(u) /\ HoldersOf(u) \in SUBSET Requests
  BY <1>4 DEF HoldersOf
<1>9. \A S \in SUBSET Requests : /\ Cardinality(S) \in Nat
                                 /\ r \notin S => Cardinality(S \cup {r}) = Cardinality(S) + 1
  BY HoldersFinite, FS_AddElement
<1>10. HoldersUse'
  <2> SUFFICES ASSUME NEW o \in Pools PROVE Cardinality(HoldersIn(o)') <= pool'[o].inUse
    BY DEF HoldersUse
  <2>1. PICK before, after : before = HoldersIn(o) /\ after = HoldersIn(o)' OBVIOUS
  <2>2. Cardinality(before) <= pool[o].inUse /\ pool[o].inUse \in Nat
    BY <2>1 DEF HoldersUse, TenantTypes, Counters
  <2>3. after = (IF o = p THEN before \cup {r} ELSE before) /\ r \notin before /\ before \in SUBSET Requests
    BY <1>7, <2>1
  <2>4. pool'[o].inUse = IF o = p THEN pool[o].inUse + 1 ELSE pool[o].inUse BY <1>2, <1>3
  <2>5. Cardinality(after) <= pool'[o].inUse BY <1>9, <2>2, <2>3, <2>4
  <2> QED BY <2>1, <2>5
<1>11. TenantCountsAgree'
  <2> SUFFICES ASSUME NEW u \in Tiers PROVE perTenant'[u] = unowned[u] + Cardinality(HoldersOf(u)')
    BY DEF TenantCountsAgree, HoldersOf
  <2>1. PICK before, after : before = HoldersOf(u) /\ after = HoldersOf(u)' OBVIOUS
  <2>2. perTenant[u] = unowned[u] + Cardinality(before) /\ unowned[u] \in Nat
    BY <2>1 DEF TenantCountsAgree, HoldersOf, TenantTypes
  <2>3. after = (IF u = t THEN before \cup {r} ELSE before) /\ r \notin before /\ before \in SUBSET Requests
    BY <1>8, <2>1
  <2>4. perTenant'[u] = unowned[u] + Cardinality(after) BY <1>6, <1>9, <2>2, <2>3
  <2> QED BY <2>1, <2>4
<1> QED BY <1>3, <1>4, <1>6, <1>10, <1>11 DEF TenantTypes

\* tenant_routing.ts:162-163: a client resolved into a settled promise.
LEMMA ClientLost ==
  ASSUME TenantAssumption, ClientsOK, NEW t \in Tiers, NEW p \in Pools,
         pool' = [pool EXCEPT ![p] = Granted(@)], request' = request,
         RecordAcquire(t), unowned' = [unowned EXCEPT ![t] = @ + 1]
  PROVE  ClientsOK'
<1> USE DEF ClientsOK
<1> DEFINE q == Granted(pool[p])
<1>1. pool[p] \in Counters /\ pool[p].acquired = pool[p].idle + 2 * pool[p].inUse
  BY DEF TenantTypes, AcquiredCountsTwice
<1>2. q \in Counters /\ q.acquired = q.idle + 2 * q.inUse /\ q.inUse = pool[p].inUse + 1
  BY <1>1, CountsKept
<1>3. /\ pool' \in [Pools -> Counters] /\ AcquiredCountsTwice' /\ pool'[p] = q
      /\ \A o \in Pools : o # p => pool'[o] = pool[o]
  <2>1. pool' = [pool EXCEPT ![p] = q] BY DEF TenantTypes
  <2> HIDE DEF q
  <2> QED BY <1>2, <2>1, PoolChanged
<1> HIDE DEF q
<1>4. \A o \in Pools : HoldersIn(o)' = HoldersIn(o) /\ HoldersIn(o) \in SUBSET Requests
  BY DEF HoldersIn
<1>5. \A u \in Tiers : HoldersOf(u)' = HoldersOf(u) /\ HoldersOf(u) \in SUBSET Requests
  BY DEF HoldersOf
<1>6. /\ perTenant' \in [Tiers -> Nat] /\ unowned' \in [Tiers -> Nat]
      /\ \A u \in Tiers : perTenant'[u] = IF u = t THEN perTenant[u] + 1 ELSE perTenant[u]
      /\ \A u \in Tiers : unowned'[u] = IF u = t THEN unowned[u] + 1 ELSE unowned[u]
  BY DEF RecordAcquire, TenantTypes
<1>7. HoldersUse'
  <2> SUFFICES ASSUME NEW o \in Pools PROVE Cardinality(HoldersIn(o)) <= pool'[o].inUse
    BY <1>4 DEF HoldersUse
  <2>1. Cardinality(HoldersIn(o)) \in Nat /\ Cardinality(HoldersIn(o)) <= pool[o].inUse /\ pool[o].inUse \in Nat
    BY <1>4, HoldersFinite DEF HoldersUse, TenantTypes, Counters
  <2> QED BY <1>2, <1>3, <2>1
<1>8. TenantCountsAgree'
  <2> SUFFICES ASSUME NEW u \in Tiers PROVE perTenant'[u] = unowned'[u] + Cardinality(HoldersOf(u))
    BY <1>5 DEF TenantCountsAgree, HoldersOf
  <2>1. perTenant[u] = unowned[u] + Cardinality(HoldersOf(u)) /\ Cardinality(HoldersOf(u)) \in Nat
        /\ unowned[u] \in Nat
    BY <1>5, HoldersFinite DEF TenantCountsAgree, HoldersOf, TenantTypes
  <2> QED BY <1>6, <2>1
<1> QED BY <1>3, <1>6, <1>7, <1>8 DEF TenantTypes

\* tenant_routing.ts:86-98: a client that its request gives back.
LEMMA ClientReturned ==
  ASSUME TenantAssumption, ClientsOK, NEW r \in Requests, request[r].pc = "holding",
         pool' = [pool EXCEPT ![request[r].pool] = Returned(OnRelease(@))],
         request' = [request EXCEPT ![r].pc = "done"],
         RecordRelease(TierOf[r]), unowned' = unowned
  PROVE  ClientsOK'
<1> USE DEF ClientsOK
<1> DEFINE p == request[r].pool
           q == Returned(OnRelease(pool[p]))
           t == TierOf[r]
<1>1. /\ p \in Pools /\ pool[p] \in Counters /\ pool[p].acquired = pool[p].idle + 2 * pool[p].inUse
  BY DEF TenantTypes, AcquiredCountsTwice
<1>2. t \in Tiers /\ TierOf \in [Requests -> Tiers] BY DEF TenantAssumption, Tiers
<1>3. r \in HoldersIn(p) /\ r \in HoldersOf(t) BY DEF HoldersIn, HoldersOf
<1>4. /\ \A o \in Pools : HoldersIn(o) \in SUBSET Requests
      /\ \A u \in Tiers : HoldersOf(u) \in SUBSET Requests
  BY DEF HoldersIn, HoldersOf
<1>5. /\ \A o \in Pools : Cardinality(HoldersIn(o)) \in Nat /\ IsFiniteSet(HoldersIn(o))
      /\ \A u \in Tiers : Cardinality(HoldersOf(u)) \in Nat /\ IsFiniteSet(HoldersOf(u))
  BY <1>4, HoldersFinite
<1>6. /\ Cardinality(HoldersIn(p) \ {r}) = Cardinality(HoldersIn(p)) - 1
      /\ Cardinality(HoldersOf(t) \ {r}) = Cardinality(HoldersOf(t)) - 1
      /\ Cardinality(HoldersIn(p)) > 0 /\ Cardinality(HoldersOf(t)) > 0
  <2>1. \A S : IsFiniteSet(S) /\ r \in S =>
          Cardinality(S \ {r}) = Cardinality(S) - 1 /\ Cardinality(S) \in Nat /\ Cardinality(S) # 0
    BY FS_RemoveElement, FS_EmptySet, FS_CardinalityType
  <2>2. \A n \in Nat : n # 0 => n > 0 OBVIOUS
  <2> QED BY <1>1, <1>2, <1>3, <1>5, <2>1, <2>2
<1>7. pool[p].inUse > 0 /\ pool[p].inUse \in Nat
  <2>1. pool[p].inUse \in Nat /\ Cardinality(HoldersIn(p)) <= pool[p].inUse BY <1>1 DEF Counters, HoldersUse
  <2> QED BY <1>1, <1>5, <1>6, <2>1
<1>8. q \in Counters /\ q.acquired = q.idle + 2 * q.inUse /\ q.inUse = pool[p].inUse - 1
  BY <1>1, <1>7, CountsKept
<1>9. /\ pool' \in [Pools -> Counters] /\ AcquiredCountsTwice' /\ pool'[p] = q
      /\ \A o \in Pools : o # p => pool'[o] = pool[o]
  <2>1. pool' = [pool EXCEPT ![p] = q] BY DEF TenantTypes
  <2> HIDE DEF q
  <2> QED BY <1>1, <1>8, <2>1, PoolChanged
<1> HIDE DEF q
<1>10. /\ request' \in [Requests -> [pc : Places, pool : Pools]] /\ request'[r].pc = "done"
       /\ \A s \in Requests : s # r => request'[s] = request[s]
  BY DEF TenantTypes, Places
<1>11. \A o \in Pools : HoldersIn(o)' = IF o = p THEN HoldersIn(o) \ {r} ELSE HoldersIn(o)
  BY <1>10 DEF HoldersIn
<1>12. \A u \in Tiers : HoldersOf(u)' = IF u = t THEN HoldersOf(u) \ {r} ELSE HoldersOf(u)
  BY <1>10 DEF HoldersOf
<1>13. \A u \in Tiers : perTenant[u] = unowned[u] + Cardinality(HoldersOf(u)) /\ unowned[u] \in Nat
  BY DEF TenantCountsAgree, HoldersOf, TenantTypes
<1> HIDE DEF p
<1>14. /\ perTenant' \in [Tiers -> Nat] /\ perTenant'[t] = perTenant[t] - 1
       /\ \A u \in Tiers : u # t => perTenant'[u] = perTenant[u]
  <2>1. perTenant[t] - 1 \in Nat /\ AtLeast(0, perTenant[t] - 1) = perTenant[t] - 1
    BY <1>2, <1>5, <1>6, <1>13 DEF AtLeast
  <2>2. PICK n \in Nat : n = perTenant[t] - 1 BY <2>1
  <2>3. perTenant' = [perTenant EXCEPT ![t] = n] BY <1>2, <2>1, <2>2 DEF RecordRelease, TenantTypes
  <2> QED BY <1>2, <2>2, <2>3 DEF TenantTypes
<1>15. HoldersUse'
  <2> SUFFICES ASSUME NEW o \in Pools PROVE Cardinality(HoldersIn(o)') <= pool'[o].inUse
    BY DEF HoldersUse
  <2>1. PICK before, after : before = HoldersIn(o) /\ after = HoldersIn(o)' OBVIOUS
  <2>2. Cardinality(before) <= pool[o].inUse /\ pool[o].inUse \in Nat /\ Cardinality(before) \in Nat
    BY <1>5, <2>1 DEF HoldersUse, TenantTypes, Counters
  <2>3. after = (IF o = p THEN before \ {r} ELSE before)
        /\ (o = p => Cardinality(before \ {r}) = Cardinality(before) - 1)
    BY <1>6, <1>11, <2>1
  <2>4. pool'[o].inUse = IF o = p THEN pool[o].inUse - 1 ELSE pool[o].inUse BY <1>8, <1>9
  <2>5. Cardinality(after) <= pool'[o].inUse BY <2>2, <2>3, <2>4
  <2> QED BY <2>1, <2>5
<1>16. TenantCountsAgree'
  <2> SUFFICES ASSUME NEW u \in Tiers PROVE perTenant'[u] = unowned[u] + Cardinality(HoldersOf(u)')
    BY DEF TenantCountsAgree, HoldersOf
  <2>1. PICK before, after : before = HoldersOf(u) /\ after = HoldersOf(u)' OBVIOUS
  <2>2. perTenant[u] = unowned[u] + Cardinality(before) /\ unowned[u] \in Nat /\ Cardinality(before) \in Nat
    BY <1>5, <1>13, <2>1
  <2>3. after = (IF u = t THEN before \ {r} ELSE before)
        /\ (u = t => Cardinality(before \ {r}) = Cardinality(before) - 1)
    BY <1>6, <1>12, <2>1
  <2>4. perTenant'[u] = unowned[u] + Cardinality(after) BY <1>14, <2>2, <2>3
  <2> QED BY <2>1, <2>4
<1> QED BY <1>9, <1>10, <1>14, <1>15, <1>16 DEF TenantTypes

(***************************************************************************)
(* The steps.                                                              *)
(***************************************************************************)
\* tenant_routing.ts:121-128: a request that queues starts a walk, alone or
\* beside others.
LEMMA EnqueueKeeps ==
  ASSUME TenantAssumption, TenantInv, NEW r \in Requests, Enqueue(r)
  PROVE  TenantInv'
<1> USE DEF TenantInv
<1>1. PICK more, pools : more = [arrays EXCEPT ![queue] = Append(@, r)] /\ pools = pool
  OBVIOUS
<1>2. arrays[queue] \in Seq(Requests) /\ queue \in DOMAIN arrays BY DEF HeapOK
<1>3. /\ more[queue] = Append(arrays[queue], r) /\ DOMAIN more = DOMAIN arrays
      /\ \A a \in DOMAIN arrays : a # queue => more[a] = arrays[a]
  BY <1>1, <1>2
<1>4. /\ more[queue] \in Seq(Requests) /\ Len(more[queue]) = Len(arrays[queue]) + 1
      /\ Len(arrays[queue]) \in Nat
  BY <1>2, <1>3
<1>5. HeapOK(more, queue, drain)
  <2>1. \A a \in DOMAIN more : more[a] \in Seq(Requests) BY <1>3, <1>4 DEF HeapOK
  <2>2. ASSUME NEW d \in Drains, drain[d].pc # "rest"
        PROVE  drain[d].array \in DOMAIN more /\ drain[d].at \in 1..Len(more[drain[d].array])
    <3>1. drain[d].array \in DOMAIN arrays /\ drain[d].at \in 1..Len(arrays[drain[d].array])
      BY <2>2 DEF HeapOK
    <3>2. CASE drain[d].array = queue BY <1>3, <1>4, <3>1, <3>2
    <3>3. CASE drain[d].array # queue BY <1>3, <3>1, <3>3
    <3> QED BY <3>2, <3>3
  <2> QED BY <1>3, <2>1, <2>2 DEF HeapOK
<1>6. TryDrain(more, pools) BY <1>1 DEF Enqueue
<1>7. /\ request[r].pc = "refused" /\ request' = [request EXCEPT ![r].pc = "queued"]
      /\ UNCHANGED <<pool, perTenant, unowned>>
  BY DEF Enqueue
<1>8. /\ request' \in [Requests -> [pc : Places, pool : Pools]] /\ request'[r].pc = "queued"
      /\ \A s \in Requests : s # r => request'[s] = request[s]
  BY <1>7 DEF ClientsOK, TenantTypes, Places
<1>9. ClientsOK' BY <1>7, <1>8, SameHolders
<1>10. HeapOK(arrays', queue', drain') BY <1>5, <1>6, DrainOK
<1>11. Queued' = Queued \cup {r} /\ r \notin Queued BY <1>7, <1>8 DEF Queued
<1>12. ASSUME NEW who, r \notin who, Exact(arrays[queue], who) PROVE Exact(more[queue], who \cup {r})
  <2> DEFINE line == arrays[queue]
             longer == more[queue]
             n == Len(line)
  <2>1. DOMAIN line = 1..n /\ DOMAIN longer = 1..(n + 1) /\ n \in Nat BY <1>2, <1>4
  <2>2. longer[n + 1] = r /\ \A i \in 1..n : longer[i] = line[i] BY <1>2, <1>3
  <2>3. \A i \in 1..n : line[i] \in Requests /\ line[i] # r
    BY <1>2, <1>12, <2>1, ElementOfSeq DEF Exact
  <2>4. \A i \in 1..(n + 1) : i = n + 1 \/ i \in 1..n BY <2>1
  <2>5. n + 1 \in 1..(n + 1) /\ \A i \in 1..n : i \in 1..(n + 1) BY <2>1
  <2> HIDE DEF line, longer, n
  <2>6. Exact(line, who) BY <1>12 DEF line
  <2>7. ASSUME NEW i \in 1..(n + 1), NEW j \in 1..(n + 1), longer[i] = longer[j] PROVE i = j
    BY <2>1, <2>2, <2>3, <2>4, <2>6, <2>7 DEF Exact
  <2>8. ASSUME NEW s \in Requests PROVE s \in who \cup {r} <=> \E i \in 1..(n + 1) : longer[i] = s
    BY <2>1, <2>2, <2>3, <2>4, <2>5, <2>6, ZenonT(60) DEF Exact
  <2>9. Exact(longer, who \cup {r}) BY <2>1, <2>7, <2>8 DEF Exact
  <2> QED BY <2>9 DEF longer
<1>13. PICK who : who = Queued OBVIOUS
<1>14. CASE overlapped BY <1>5, <1>6, <1>9, <1>10, <1>14, DrainOK DEF WaitersOK
<1>15. CASE ~overlapped /\ Walking # {}
  <2>1. more[queue] # <<>> BY <1>4
  <2> QED BY <1>5, <1>6, <1>9, <1>10, <1>15, <2>1, DrainOK DEF WaitersOK
<1>16. CASE ~overlapped /\ Walking = {}
  <2>1. (\A t \in Tiers : unowned[t] = 0) /\ Lines(arrays, queue, drain, Queued) BY <1>16 DEF WaitersOK
  <2>2. Exact(arrays[queue], who) BY <1>13, <1>16, <2>1 DEF Lines, Walking
  <2>3. Exact(more[queue], who \cup {r}) BY <1>11, <1>12, <1>13, <2>2
  <2>4. Lines(arrays', queue', drain', who \cup {r}) BY <1>5, <1>6, <1>16, <2>3, DrainOK
  <2>5. Queued' = who \cup {r} BY <1>11, <1>13
  <2>6. Lines(arrays', queue', drain', Queued') BY <2>4, <2>5
  <2> QED BY <1>7, <1>9, <1>10, <2>1, <2>6 DEF WaitersOK
<1> QED BY <1>14, <1>15, <1>16

\* A step that leaves the queue, the walks and who waits alone.
LEMMA SameLines ==
  ASSUME TenantInv, ClientsOK', unowned' = unowned, Queued' = Queued,
         UNCHANGED <<arrays, queue, drain, overlapped>>
  PROVE  TenantInv'
BY DEF TenantInv, WaitersOK

\* A step that starts a walk while nobody begins or ends to wait.
LEMMA DrainKeeps ==
  ASSUME TenantAssumption, TenantInv, ClientsOK', unowned' = unowned, Queued' = Queued,
         NEW pools, TryDrain(arrays, pools)
  PROVE  TenantInv'
<1> USE DEF TenantInv
<1>1. PICK arrs, who : arrs = arrays /\ who = Queued OBVIOUS
<1>2. HeapOK(arrs, queue, drain) /\ TryDrain(arrs, pools) BY <1>1
<1>3. HeapOK(arrays', queue', drain') BY <1>2, DrainOK
<1>4. CASE overlapped BY <1>2, <1>3, <1>4, DrainOK DEF WaitersOK
<1>5. CASE ~overlapped /\ Walking # {}
  <2>1. PICK d \in Drains : drain[d].pc # "rest" BY <1>5 DEF Walking
  <2>2. drain[d].array = queue /\ drain[d].at \in 1..Len(arrays[queue])
    BY <1>5, <2>1 DEF WaitersOK, Lines, HeapOK
  <2>3. arrays[queue] # <<>> BY <2>2, EmptySeq
  <2> QED BY <1>1, <1>2, <1>3, <1>5, <2>3, DrainOK DEF WaitersOK
<1>6. CASE ~overlapped /\ Walking = {}
  <2>1. (\A t \in Tiers : unowned[t] = 0) /\ Exact(arrs[queue], who)
    BY <1>1, <1>6 DEF WaitersOK, Lines, Walking
  <2>2. Lines(arrays', queue', drain', who) BY <1>2, <1>6, <2>1, DrainOK
  <2>3. Lines(arrays', queue', drain', Queued') BY <1>1, <2>2
  <2> QED BY <1>3, <2>1, <2>3 DEF WaitersOK
<1> QED BY <1>4, <1>5, <1>6

\* A walk that is about to go on can be taken out of the heap.
LEMMA RestOK ==
  ASSUME HeapOK(arrays, queue, drain), NEW d \in Drains
  PROVE  HeapOK(arrays, queue, [drain EXCEPT ![d] = Resting])
<1> DEFINE rested == [drain EXCEPT ![d] = Resting]
<1>1. DOMAIN drain = Drains
  <2>1. drain = [e \in Drains |-> drain[e]] BY DEF HeapOK
  <2> QED BY <2>1, Zenon
<1>2. rested[d] = Resting /\ \A e \in Drains : e # d => rested[e] = drain[e] BY <1>1
<1>3. rested = [e \in Drains |-> rested[e]] BY <1>1
<1> HIDE DEF rested
<1>4. \A e \in Drains : rested[e].pc # "rest" => rested[e] = drain[e] BY <1>2 DEF Resting
<1>5. HeapOK(arrays, queue, rested) BY <1>3, <1>4 DEF HeapOK
<1> QED BY <1>5 DEF rested

\* What a walk keeps is part of the line, as what is ahead of it is.
LEMMA KeptLine ==
  ASSUME NEW k \in Seq(Requests), NEW s \in Seq(Requests), NEW at \in 1..Len(s)
  PROVE  Append(k, s[at]) \o SubSeq(s, at + 1, Len(s)) = k \o SubSeq(s, at, Len(s))
<1> DEFINE one == SubSeq(s, at, at)
           left == k \o one
           kept == Append(k, s[at])
<1>1. at \in Int /\ at + 1 \in Int /\ Len(s) \in Nat /\ Len(k) \in Nat /\ s[at] \in Requests
  BY ElementOfSeq
<1>2. one \in Seq(Requests) /\ Len(one) = 1 /\ one[1] = s[at]
  <2>1. PICK to : to = at OBVIOUS
  <2>2. to \in Int /\ at <= to /\ \A i \in at..to : s[i] \in Requests BY <1>1, <2>1
  <2>5. /\ SubSeq(s, at, to) \in Seq(Requests) /\ Len(SubSeq(s, at, to)) = to - at + 1
        /\ \A i \in 1..(to - at + 1) : SubSeq(s, at, to)[i] = s[at + i - 1]
    BY <1>1, <2>2, SubSeqProperties, SMTT(60)
  <2>3. to - at + 1 = 1 /\ 1 \in 1..(to - at + 1) /\ at + 1 - 1 = at BY <1>1, <2>1
  <2>4. one = SubSeq(s, at, to) BY <2>1
  <2> HIDE DEF one
  <2> QED BY <2>3, <2>4, <2>5
<1> HIDE DEF one
<1>3. /\ left \in Seq(Requests) /\ Len(left) = Len(k) + Len(one)
      /\ \A i \in 1..(Len(k) + Len(one)) : left[i] = IF i <= Len(k) THEN k[i] ELSE one[i - Len(k)]
  <2>1. one \in Seq(Requests) BY <1>2
  <2> QED BY <2>1, ConcatProperties
<1>4. /\ kept \in Seq(Requests) /\ Len(kept) = Len(k) + 1 /\ kept[Len(k) + 1] = s[at]
      /\ \A i \in 1..Len(k) : kept[i] = k[i]
  BY <1>1
<1> HIDE DEF left, kept
<1>5. Len(left) = Len(k) + 1 /\ \A i \in 1..(Len(k) + 1) : left[i] = IF i <= Len(k) THEN k[i] ELSE one[i - Len(k)]
  <2>1. PICK n : n = Len(one) OBVIOUS
  <2>2. /\ n = 1 /\ Len(left) = Len(k) + n
        /\ \A i \in 1..(Len(k) + n) : left[i] = IF i <= Len(k) THEN k[i] ELSE one[i - Len(k)]
    BY <1>1, <1>2, <1>3, <2>1
  <2> HIDE DEF one
  <2> QED BY <1>1, <2>2
<1>6. ASSUME NEW i \in 1..Len(left) PROVE left[i] = kept[i]
  <2>1. i \in 1..(Len(k) + 1) /\ (i \in 1..Len(k) \/ i = Len(k) + 1) BY <1>1, <1>5
  <2>2. CASE i \in 1..Len(k) BY <1>1, <1>4, <1>5, <2>1, <2>2
  <2>3. CASE i = Len(k) + 1
    <3>1. ~(i <= Len(k)) /\ i - Len(k) = 1 BY <1>1, <2>3
    <3> QED BY <1>2, <1>4, <1>5, <2>1, <2>3, <3>1
  <2> QED BY <2>1, <2>2, <2>3
<1>7. left = kept BY <1>3, <1>4, <1>5, <1>6, SeqEqual
<1>8. PICK stop : stop = at + 1 OBVIOUS
<1>9. /\ stop \in at..(Len(s) + 1) /\ at \in 1..(Len(s) + 1)
      /\ (k \o SubSeq(s, at, stop - 1)) \o SubSeq(s, stop, Len(s)) = k \o SubSeq(s, at, Len(s))
  <2>1. stop \in at..(Len(s) + 1) /\ at \in 1..(Len(s) + 1) BY <1>1, <1>8
  <2> QED BY <2>1, Rejoined
<1>10. stop - 1 = at BY <1>1, <1>8
<1>11. k \o SubSeq(s, at, stop - 1) = left BY <1>10 DEF left, one
<1> QED BY <1>7, <1>8, <1>9, <1>11 DEF kept

\* tenant_routing.ts:164-167: the entry a walk could not serve is kept, and the
\* line is the same.
LEMMA KeepEntryKeeps ==
  ASSUME TenantAssumption, TenantInv, NEW d \in Drains, KeepEntry(d)
  PROVE  TenantInv'
<1> USE DEF TenantInv
<1> DEFINE w == drain[d]
           s == arrays[w.array]
<1>1. d \in Walking /\ UNCHANGED <<pool, request, perTenant, unowned, overlapped>> BY DEF KeepEntry, Walking
<1>2. /\ w.array \in DOMAIN arrays /\ w.at \in 1..Len(s) /\ w.kept \in Seq(Requests)
      /\ w.entry \in Requests /\ s \in Seq(Requests)
  BY <1>1 DEF Walking, HeapOK
<1>3. PICK arrs, a, at, kept, pools :
        /\ arrs = arrays /\ a = w.array /\ at = w.at + 1 /\ kept = Append(w.kept, w.entry) /\ pools = pool
  OBVIOUS
<1>4. Walk(d, a, at, kept, arrs, pools) BY <1>3 DEF KeepEntry
<1>5. a \in DOMAIN arrs /\ at \in 1..(Len(arrs[a]) + 1) /\ kept \in Seq(Requests) BY <1>2, <1>3, SMTT(60)
<1>6. HeapOK(arrs, queue, [drain EXCEPT ![d] = Resting]) BY <1>3, RestOK
<1>7. HeapOK(arrays', queue', drain') BY <1>4, <1>5, <1>6, WalkOK
<1>8. ClientsOK'
  <2>1. request' \in [Requests -> [pc : Places, pool : Pools]] BY <1>1 DEF ClientsOK, TenantTypes
  <2> QED BY <1>1, <2>1, SameHolders
<1>9. Queued' = Queued BY <1>1 DEF Queued
<1>10. CASE overlapped BY <1>1, <1>7, <1>8, <1>10 DEF WaitersOK
<1>11. CASE ~overlapped
  <2>1. PICK who : who = Queued OBVIOUS
  <2>2. /\ \A t \in Tiers : unowned[t] = 0
        /\ \A e \in Drains : drain[e].pc # "rest" => e = d
        /\ w.array = queue /\ w.entry = s[w.at]
        /\ Exact(w.kept \o SubSeq(s, w.at, Len(s)), who)
    BY <1>1, <1>11, <2>1 DEF WaitersOK, Lines, Walking
  <2>3. kept \o SubSeq(s, at, Len(s)) = w.kept \o SubSeq(s, w.at, Len(s))
    <3>1. PICK k, line, i : k = w.kept /\ line = s /\ i = w.at OBVIOUS
    <3>2. k \in Seq(Requests) /\ line \in Seq(Requests) /\ i \in 1..Len(line) BY <1>2, <3>1
    <3>3. kept = Append(k, line[i]) /\ at = i + 1 BY <1>3, <2>2, <3>1
    <3> QED BY <3>1, <3>2, <3>3, KeptLine
  <2>4. Exact(kept \o SubSeq(arrs[queue], at, Len(arrs[queue])), who) BY <1>3, <2>2, <2>3
  <2>5. Lines(arrays', queue', drain', who)
    BY <1>3, <1>4, <1>5, <1>6, <2>2, <2>4, WalkLines
  <2>6. Lines(arrays', queue', drain', Queued') BY <1>9, <2>1, <2>5
  <2> QED BY <1>1, <1>7, <1>8, <2>2, <2>6 DEF WaitersOK
<1> QED BY <1>10, <1>11

\* tenant_routing.ts:162-165: a walk whose entry gets no client is where it was.
LEMMA EntryFailsKeeps ==
  ASSUME TenantAssumption, TenantInv, NEW d \in Drains, EntryFails(d)
  PROVE  TenantInv'
<1> USE DEF TenantInv
<1>1. /\ drain[d].pc = "ask" /\ drain' = [drain EXCEPT ![d].pc = "failed"]
      /\ UNCHANGED <<pool, request, arrays, queue, perTenant, unowned, overlapped>>
  BY DEF EntryFails
<1>2. IsWalk(drain[d]) BY <1>1 DEF HeapOK
<1>3. DOMAIN drain = Drains
  <2>1. drain = [e \in Drains |-> drain[e]] BY DEF HeapOK
  <2> QED BY <2>1, Zenon
<1>4. PICK w, failed : w = drain[d] /\ failed = [w EXCEPT !.pc = "failed"] OBVIOUS
<1>5. /\ failed.pc = "failed" /\ failed.array = w.array /\ failed.at = w.at /\ failed.kept = w.kept
      /\ failed.entry = w.entry /\ failed.pool = w.pool /\ IsWalk(failed)
  BY <1>2, <1>4 DEF IsWalk
<1>6. drain' = [drain EXCEPT ![d] = failed] BY <1>1, <1>4
<1>7. /\ drain'[d] = failed /\ \A e \in Drains : e # d => drain'[e] = drain[e]
      /\ drain' = [e \in Drains |-> drain'[e]]
  BY <1>3, <1>6
<1>8. HeapOK(arrays, queue, drain')
  <2>1. ASSUME NEW e \in Drains, drain'[e].pc # "rest"
        PROVE  /\ drain'[e].array \in DOMAIN arrays /\ drain'[e].at \in 1..Len(arrays[drain'[e].array])
               /\ drain'[e].kept \in Seq(Requests) /\ drain'[e].entry \in Requests
               /\ drain'[e].pool \in Pools /\ IsWalk(drain'[e])
    <3>1. CASE e = d BY <1>1, <1>4, <1>5, <1>7, <3>1 DEF HeapOK
    <3>2. CASE e # d BY <1>7, <2>1, <3>2 DEF HeapOK
    <3> QED BY <3>1, <3>2
  <2> QED BY <1>7, <2>1 DEF HeapOK
<1>9. ClientsOK'
  <2>1. request' \in [Requests -> [pc : Places, pool : Pools]] BY <1>1 DEF ClientsOK, TenantTypes
  <2> QED BY <1>1, <2>1, SameHolders
<1>10. Queued' = Queued BY <1>1 DEF Queued
<1>11. CASE overlapped BY <1>1, <1>8, <1>9, <1>11 DEF WaitersOK
<1>12. CASE ~overlapped
  <2>1. PICK who : who = Queued OBVIOUS
  <2>2. (\A t \in Tiers : unowned[t] = 0) /\ Lines(arrays, queue, drain, who)
    BY <1>12, <2>1 DEF WaitersOK
  <2>3. \A e \in Drains : drain[e].pc # "rest" <=> drain'[e].pc # "rest" BY <1>1, <1>5, <1>7
  <2>4. \A e \in Drains : drain'[e].array = drain[e].array /\ drain'[e].entry = drain[e].entry
                          /\ drain'[e].at = drain[e].at /\ drain'[e].kept = drain[e].kept
    BY <1>4, <1>5, <1>7
  <2>5. Lines(arrays, queue, drain', who) BY <2>2, <2>3, <2>4 DEF Lines
  <2>6. Lines(arrays', queue', drain', Queued') BY <1>1, <1>10, <2>1, <2>5
  <2> QED BY <1>1, <1>8, <1>9, <2>2, <2>6 DEF WaitersOK
<1> QED BY <1>11, <1>12

\* A line without the entry it has come to.
LEMMA ServedLine ==
  ASSUME NEW k \in Seq(Requests), NEW s \in Seq(Requests), NEW at \in 1..Len(s), NEW who,
         Exact(k \o SubSeq(s, at, Len(s)), who)
  PROVE  /\ s[at] \in who
         /\ Exact(k \o SubSeq(s, at + 1, Len(s)), who \ {s[at]})
<1> DEFINE u == SubSeq(s, at, Len(s))
           v == SubSeq(s, at + 1, Len(s))
           line == k \o u
           rest == k \o v
           m == Len(k)
           n == Len(s) - at
<1>1. Len(s) \in Nat /\ at \in Int /\ at + 1 \in Int /\ m \in Nat /\ n \in Nat OBVIOUS
<1>2. /\ \A i \in at..Len(s) : s[i] \in Requests
      /\ \A i \in (at + 1)..Len(s) : s[i] \in Requests
  BY <1>1, ElementOfSeq
<1>3. u \in Seq(Requests) /\ Len(u) = n + 1 /\ \A i \in 1..(n + 1) : u[i] = s[at + i - 1]
  BY <1>1, <1>2, SubSeqProperties
<1>4. v \in Seq(Requests) /\ Len(v) = n /\ \A i \in 1..n : v[i] = s[at + 1 + i - 1]
  BY <1>1, <1>2, SubSeqProperties
<1> HIDE DEF u, v
<1>5. /\ line \in Seq(Requests) /\ Len(line) = m + (n + 1)
      /\ \A i \in 1..(m + (n + 1)) : line[i] = IF i <= m THEN k[i] ELSE u[i - m]
  <2>1. /\ line \in Seq(Requests) /\ Len(line) = Len(k) + Len(u)
        /\ \A i \in 1..(Len(k) + Len(u)) : line[i] = IF i <= Len(k) THEN k[i] ELSE u[i - Len(k)]
    BY <1>3, ConcatProperties
  <2> HIDE DEF line, n
  <2> QED BY <1>3, <2>1
<1>6. /\ rest \in Seq(Requests) /\ Len(rest) = m + n
      /\ \A i \in 1..(m + n) : rest[i] = IF i <= m THEN k[i] ELSE v[i - m]
  <2>1. /\ rest \in Seq(Requests) /\ Len(rest) = Len(k) + Len(v)
        /\ \A i \in 1..(Len(k) + Len(v)) : rest[i] = IF i <= Len(k) THEN k[i] ELSE v[i - Len(k)]
    BY <1>4, ConcatProperties
  <2> HIDE DEF rest, n
  <2> QED BY <1>4, <2>1
<1>7. DOMAIN line = 1..(m + n + 1) /\ DOMAIN rest = 1..(m + n) BY <1>1, <1>5, <1>6
<1> HIDE DEF line, rest, n
<1>8. m + 1 \in 1..(m + n + 1) /\ line[m + 1] = s[at]
  <2>1. m + 1 \in 1..(m + (n + 1)) /\ ~(m + 1 <= m) /\ (m + 1) - m = 1 /\ 1 \in 1..(n + 1) BY <1>1
  <2>2. line[m + 1] = u[1] BY <1>5, <2>1
  <2>3. u[1] = s[at] BY <1>1, <1>3, <2>1
  <2> QED BY <1>1, <2>2, <2>3
<1> DEFINE Old(i) == IF i <= m THEN i ELSE i + 1
<1>9. ASSUME NEW i \in 1..(m + n)
      PROVE  Old(i) \in 1..(m + n + 1) /\ Old(i) # m + 1 /\ rest[i] = line[Old(i)]
  <2>1. Old(i) \in 1..(m + n + 1) /\ Old(i) # m + 1 BY <1>1
  <2>2. CASE i <= m
    <3>1. i \in 1..(m + (n + 1)) BY <1>1
    <3> QED BY <1>5, <1>6, <2>1, <2>2, <3>1
  <2>3. CASE ~(i <= m)
    <3>1. /\ i - m \in 1..n /\ i + 1 - m \in 1..(n + 1) /\ i + 1 \in 1..(m + (n + 1)) /\ ~(i + 1 <= m)
          /\ at + 1 + (i - m) - 1 = at + (i + 1 - m) - 1
      BY <1>1, <2>3
    <3>2. v[i - m] = s[at + 1 + (i - m) - 1] /\ u[i + 1 - m] = s[at + (i + 1 - m) - 1]
      BY <1>3, <1>4, <3>1
    <3>3. rest[i] = v[i - m] BY <1>6, <2>3
    <3>4. line[i + 1] = u[i + 1 - m] BY <1>5, <3>1
    <3> QED BY <2>1, <2>3, <3>1, <3>2, <3>3, <3>4
  <2> QED BY <2>2, <2>3
<1>10. ASSUME NEW i \in 1..(m + n + 1), i # m + 1 PROVE \E j \in 1..(m + n) : Old(j) = i
  <2>1. CASE i <= m
    <3>1. i \in 1..(m + n) /\ Old(i) = i BY <1>1, <2>1
    <3> QED BY <3>1
  <2>2. CASE ~(i <= m)
    <3>1. i - 1 \in 1..(m + n) /\ Old(i - 1) = i BY <1>1, <1>10, <2>2
    <3> QED BY <3>1
  <2> QED BY <2>1, <2>2
<1>11. ASSUME NEW i \in 1..(m + n), NEW j \in 1..(m + n), Old(i) = Old(j) PROVE i = j
  BY <1>1, <1>11
<1> HIDE DEF Old
<1>12. Exact(line, who) BY DEF line, u
<1>13. s[at] \in Requests BY ElementOfSeq
<1>14. s[at] \in who BY <1>7, <1>8, <1>12, <1>13 DEF Exact
<1>15. ASSUME NEW i \in 1..(m + n), NEW j \in 1..(m + n), rest[i] = rest[j] PROVE i = j
  <2>1. Old(i) = Old(j) BY <1>7, <1>9, <1>12, <1>15 DEF Exact
  <2> QED BY <1>11, <2>1
<1>16. ASSUME NEW r \in Requests PROVE r \in who \ {s[at]} <=> \E i \in 1..(m + n) : rest[i] = r
  <2>1. ASSUME r \in who, r # s[at] PROVE \E i \in 1..(m + n) : rest[i] = r
    <3>1. PICK i \in 1..(m + n + 1) : line[i] = r BY <1>7, <1>12, <2>1 DEF Exact
    <3>2. i # m + 1 BY <1>8, <2>1, <3>1
    <3>3. PICK j \in 1..(m + n) : Old(j) = i BY <1>10, <3>2
    <3> QED BY <1>9, <3>1, <3>3
  <2>2. ASSUME NEW i \in 1..(m + n), rest[i] = r PROVE r \in who /\ r # s[at]
    <3>1. line[Old(i)] = r /\ Old(i) \in 1..(m + n + 1) /\ Old(i) # m + 1 BY <1>9, <2>2
    <3>2. r \in who BY <1>7, <1>12, <3>1 DEF Exact
    <3>3. line[Old(i)] # line[m + 1] BY <1>7, <1>8, <1>12, <3>1 DEF Exact
    <3> QED BY <1>8, <3>1, <3>2, <3>3
  <2> QED BY <2>1, <2>2
<1>17. Exact(rest, who \ {s[at]}) BY <1>7, <1>15, <1>16 DEF Exact
<1> QED BY <1>14, <1>17 DEF rest, v

\* tenant_routing.ts:161-163: a client that reaches the entry a walk stopped at;
\* a walk that is alone has stopped at somebody who waits.
LEMMA ConnectEntryKeeps ==
  ASSUME TenantAssumption, TenantInv, NEW d \in Drains, ConnectEntry(d)
  PROVE  TenantInv'
<1> USE DEF TenantInv
<1> DEFINE w == drain[d]
           s == arrays[w.array]
<1>1. /\ d \in Walking /\ pool' = [pool EXCEPT ![w.pool] = Granted(@)]
      /\ RecordAcquire(TierOf[w.entry]) /\ overlapped' = overlapped
  BY DEF ConnectEntry, Walking
<1>2. /\ w.array \in DOMAIN arrays /\ w.at \in 1..Len(s) /\ w.kept \in Seq(Requests)
      /\ w.entry \in Requests /\ w.pool \in Pools /\ s \in Seq(Requests)
  BY <1>1 DEF Walking, HeapOK
<1>3. PICK arrs, a, at, kept, pools :
        /\ arrs = arrays /\ a = w.array /\ at = w.at + 1 /\ kept = w.kept /\ pools = pool'
  OBVIOUS
<1>4. Walk(d, a, at, kept, arrs, pools) BY <1>3 DEF ConnectEntry
<1>5. a \in DOMAIN arrs /\ at \in 1..(Len(arrs[a]) + 1) /\ kept \in Seq(Requests)
  <2>1. a \in DOMAIN arrs /\ kept \in Seq(Requests) /\ arrs[a] = s BY <1>2, <1>3
  <2>2. w.at \in 1..Len(s) /\ Len(s) \in Nat BY <1>2
  <2>3. w.at + 1 \in 1..(Len(s) + 1) BY <2>2
  <2> QED BY <1>3, <2>1, <2>3
<1>6. HeapOK(arrs, queue, [drain EXCEPT ![d] = Resting]) BY <1>3, RestOK
<1>7. HeapOK(arrays', queue', drain') BY <1>4, <1>5, <1>6, WalkOK
<1>8. ASSUME ~overlapped
      PROVE  /\ \A t \in Tiers : unowned[t] = 0
             /\ \A e \in Drains : drain[e].pc # "rest" => e = d
             /\ w.array = queue /\ w.entry \in Queued
             /\ Exact(kept \o SubSeq(arrs[queue], at, Len(arrs[queue])), Queued \ {w.entry})
  <2>1. PICK who : who = Queued OBVIOUS
  <2>2. /\ \A t \in Tiers : unowned[t] = 0
        /\ \A e \in Drains : drain[e].pc # "rest" => e = d
        /\ w.array = queue /\ w.entry = s[w.at]
        /\ Exact(w.kept \o SubSeq(s, w.at, Len(s)), who)
    BY <1>1, <1>8, <2>1 DEF WaitersOK, Lines, Walking
  <2>3. PICK k, line, i : k = w.kept /\ line = s /\ i = w.at OBVIOUS
  <2>4. k \in Seq(Requests) /\ line \in Seq(Requests) /\ i \in 1..Len(line) BY <1>2, <2>3
  <2>5. Exact(k \o SubSeq(line, i, Len(line)), who) BY <2>2, <2>3
  <2>6. line[i] \in who /\ Exact(k \o SubSeq(line, i + 1, Len(line)), who \ {line[i]})
    BY <2>4, <2>5, ServedLine
  <2>7. line[i] = w.entry BY <2>2, <2>3
  <2>8. kept \o SubSeq(arrs[queue], at, Len(arrs[queue])) = k \o SubSeq(line, i + 1, Len(line))
    BY <1>3, <2>2, <2>3
  <2> QED BY <2>1, <2>2, <2>6, <2>7, <2>8
<1>9. CASE request[w.entry].pc = "queued"
  <2>1. request' = [request EXCEPT ![w.entry] = [pc |-> "holding", pool |-> w.pool]] /\ unowned' = unowned
    BY <1>9 DEF ConnectEntry
  <2>2. ClientsOK'
    <3>1. PICK r, p : r = w.entry /\ p = w.pool OBVIOUS
    <3>2. /\ r \in Requests /\ p \in Pools /\ request[r].pc # "holding"
          /\ pool' = [pool EXCEPT ![p] = Granted(@)]
          /\ request' = [request EXCEPT ![r] = [pc |-> "holding", pool |-> p]] /\ RecordAcquire(TierOf[r])
      BY <1>1, <1>2, <1>9, <2>1, <3>1
    <3> QED BY <2>1, <3>2, ClientGiven
  <2>3. Queued' = Queued \ {w.entry}
    <3>1. request \in [Requests -> [pc : Places, pool : Pools]] BY DEF ClientsOK, TenantTypes
    <3>2. /\ request'[w.entry].pc = "holding" /\ \A r \in Requests : r # w.entry => request'[r] = request[r]
      BY <1>2, <2>1, <3>1
    <3> QED BY <3>2 DEF Queued
  <2>4. CASE overlapped BY <1>1, <1>7, <2>2, <2>4 DEF WaitersOK
  <2>5. CASE ~overlapped
    <3>1. PICK who : who = Queued \ {w.entry} OBVIOUS
    <3>2. Lines(arrays', queue', drain', who)
      <4>1. a = queue BY <1>3, <1>8, <2>5
      <4>2. /\ queue \in DOMAIN arrs /\ at \in 1..(Len(arrs[queue]) + 1)
            /\ Walk(d, queue, at, kept, arrs, pools)
        BY <1>4, <1>5, <4>1
      <4>3. /\ \A e \in Drains : drain[e].pc # "rest" => e = d
            /\ Exact(kept \o SubSeq(arrs[queue], at, Len(arrs[queue])), who)
        BY <1>8, <2>5, <3>1
      <4> QED BY <1>5, <1>6, <4>2, <4>3, WalkLines
    <3>3. Lines(arrays', queue', drain', Queued') BY <2>3, <3>1, <3>2
    <3> QED BY <1>7, <1>8, <2>1, <2>2, <2>5, <3>3 DEF WaitersOK
  <2> QED BY <2>4, <2>5
<1>10. CASE request[w.entry].pc # "queued"
  <2>1. request' = request /\ unowned' = [unowned EXCEPT ![TierOf[w.entry]] = @ + 1]
    BY <1>10 DEF ConnectEntry
  <2>2. overlapped BY <1>8, <1>10 DEF Queued
  <2>3. ClientsOK'
    <3>1. PICK t, p : t = TierOf[w.entry] /\ p = w.pool OBVIOUS
    <3>2. t \in Tiers /\ p \in Pools BY <1>2, <3>1 DEF TenantAssumption, Tiers
    <3>3. /\ pool' = [pool EXCEPT ![p] = Granted(@)] /\ RecordAcquire(t)
          /\ unowned' = [unowned EXCEPT ![t] = @ + 1]
      BY <1>1, <2>1, <3>1
    <3> QED BY <2>1, <3>2, <3>3, ClientLost
  <2> QED BY <1>1, <1>7, <2>2, <2>3 DEF WaitersOK
<1> QED BY <1>9, <1>10

\* tenant_routing.ts:68-84, 100-119: a request asks a pool that has capacity, or
\* is refused; so it is when the pool fails.
LEMMA AskingKeepsLines ==
  ASSUME TenantAssumption, TenantInv, NEW r \in Requests, GetConnection(r) \/ ConnectFails(r)
  PROVE  TenantInv'
<1>1. UNCHANGED <<pool, arrays, queue, drain, perTenant, unowned, overlapped>>
  BY DEF GetConnection, ConnectFails
<1>2. request \in [Requests -> [pc : Places, pool : Pools]] BY DEF TenantInv, ClientsOK, TenantTypes
<1>3. /\ request[r].pc \in {"new", "ask"} /\ request'[r].pc \in {"ask", "refused"}
      /\ request' \in [Requests -> [pc : Places, pool : Pools]]
      /\ \A s \in Requests : s # r => request'[s] = request[s]
  <2>1. PICK place \in {"ask", "refused"}, p \in Pools :
          request' = [request EXCEPT ![r] = [pc |-> place, pool |-> p]] /\ request[r].pc \in {"new", "ask"}
    <3>1. CASE GetConnection(r)
      <4>1. PICK q : q = Allocate(TierOf[r], pool) OBVIOUS
      <4>2. q \in Pools BY <4>1 DEF Allocate, TenantAssumption
      <4>3. PICK at : at = IF CanAllocate(TierOf[r], pool) THEN "ask" ELSE "refused" OBVIOUS
      <4>4. request' = [request EXCEPT ![r] = [pc |-> at, pool |-> q]] /\ request[r].pc = "new"
        BY <3>1, <4>1, <4>3 DEF GetConnection
      <4> QED BY <4>2, <4>3, <4>4
    <3>2. CASE ConnectFails(r)
      <4>1. request' = [request EXCEPT ![r].pc = "refused"] /\ request[r].pc = "ask" BY <3>2 DEF ConnectFails
      <4>2. request[r] \in [pc : Places, pool : Pools] BY <1>2
      <4>3. [request[r] EXCEPT !.pc = "refused"] = [pc |-> "refused", pool |-> request[r].pool] BY <4>2
      <4>4. request' = [request EXCEPT ![r] = [pc |-> "refused", pool |-> request[r].pool]]
        BY <1>2, <4>1, <4>3
      <4> QED BY <4>1, <4>2, <4>4
    <3> QED BY <3>1, <3>2
  <2>2. [pc |-> place, pool |-> p] \in [pc : Places, pool : Pools] BY DEF Places
  <2> QED BY <1>2, <2>1, <2>2
<1>4. ClientsOK' BY <1>1, <1>3, SameHolders DEF TenantInv
<1>5. Queued' = Queued BY <1>3 DEF Queued
<1> QED BY <1>1, <1>4, <1>5, SameLines

\* tenant_routing.ts:68-84: the pool gives the request its client.
LEMMA ConnectRequestKeeps ==
  ASSUME TenantAssumption, TenantInv, NEW r \in Requests, ConnectRequest(r)
  PROVE  TenantInv'
<1>1. PICK p : p = request[r].pool OBVIOUS
<1>2. /\ request[r].pc = "ask" /\ pool' = [pool EXCEPT ![p] = Granted(@)]
      /\ request' = [request EXCEPT ![r].pc = "holding"] /\ RecordAcquire(TierOf[r])
      /\ UNCHANGED <<arrays, queue, arrivals, drain, unowned, overlapped, troubles>>
  BY <1>1 DEF ConnectRequest
<1>3. request \in [Requests -> [pc : Places, pool : Pools]] BY DEF TenantInv, ClientsOK, TenantTypes
<1>4. p \in Pools /\ request[r] \in [pc : Places, pool : Pools] BY <1>1, <1>3
<1>5. [request[r] EXCEPT !.pc = "holding"] = [pc |-> "holding", pool |-> p] BY <1>1, <1>4
<1>6. request' = [request EXCEPT ![r] = [pc |-> "holding", pool |-> p]] BY <1>2, <1>3, <1>5
<1>7. ClientsOK' BY <1>2, <1>4, <1>6, ClientGiven DEF TenantInv
<1>8. request'[r].pc = "holding" /\ \A s \in Requests : s # r => request'[s] = request[s] BY <1>3, <1>6
<1>9. Queued' = Queued BY <1>2, <1>8 DEF Queued
<1> QED BY <1>2, <1>7, <1>9, SameLines

\* tenant_routing.ts:44-49, 86-98: a client is given back and a walk starts.
LEMMA ReleaseKeeps ==
  ASSUME TenantAssumption, TenantInv, NEW r \in Requests, Release(r)
  PROVE  TenantInv'
<1>1. PICK pools : pools = pool' OBVIOUS
<1>2. /\ request[r].pc = "holding" /\ request' = [request EXCEPT ![r].pc = "done"]
      /\ pool' = [pool EXCEPT ![request[r].pool] = Returned(OnRelease(@))]
      /\ RecordRelease(TierOf[r]) /\ unowned' = unowned /\ TryDrain(arrays, pools)
  BY <1>1 DEF Release
<1>3. ClientsOK' BY <1>2, ClientReturned DEF TenantInv
<1>4. request \in [Requests -> [pc : Places, pool : Pools]] BY DEF TenantInv, ClientsOK, TenantTypes
<1>5. request'[r].pc = "done" /\ \A s \in Requests : s # r => request'[s] = request[s] BY <1>2, <1>4
<1>6. Queued' = Queued BY <1>2, <1>5 DEF Queued
<1> QED BY <1>2, <1>3, <1>6, DrainKeeps

\* connection_pool.ts:29-36: a pool closes an idle client.
LEMMA CloseIdleKeeps ==
  ASSUME TenantAssumption, TenantInv, NEW p \in Pools, CloseIdle(p)
  PROVE  TenantInv'
<1> USE DEF TenantInv
<1>1. PICK pools : pools = pool' OBVIOUS
<1>2. PICK q : q = Closed(pool[p]) OBVIOUS
<1>3. /\ pool[p].idle > 0 /\ pool' = [pool EXCEPT ![p] = q]
      /\ UNCHANGED <<request, arrivals, perTenant, unowned>>
      /\ IF p = Shared THEN UNCHANGED <<arrays, queue, drain, overlapped>> ELSE TryDrain(arrays, pools)
  <2>1. pool' = [pool EXCEPT ![p] = q] BY <1>2 DEF CloseIdle, ClientsOK, TenantTypes
  <2> QED BY <1>1, <2>1 DEF CloseIdle
<1>4. pool[p] \in Counters /\ pool[p].acquired = pool[p].idle + 2 * pool[p].inUse
  BY DEF ClientsOK, TenantTypes, AcquiredCountsTwice
<1>5. q \in Counters /\ q.inUse = pool[p].inUse /\ q.acquired = q.idle + 2 * q.inUse
  BY <1>2, <1>3, <1>4, CountsKept
<1>6. /\ pool' \in [Pools -> Counters] /\ AcquiredCountsTwice' /\ pool'[p] = q
      /\ \A o \in Pools : o # p => pool'[o] = pool[o]
  BY <1>3, <1>5, PoolChanged DEF ClientsOK
<1>7. ClientsOK'
  <2>1. \A o \in Pools : pool'[o].inUse = pool[o].inUse BY <1>5, <1>6
  <2>2. \A o \in Pools : HoldersIn(o)' = HoldersIn(o) BY <1>3 DEF HoldersIn
  <2>3. HoldersUse'
    <3>1. \A o \in Pools : Cardinality(HoldersIn(o)) <= pool[o].inUse BY DEF ClientsOK, HoldersUse
    <3>2. \A o \in Pools : Cardinality(HoldersIn(o)') <= pool'[o].inUse BY <2>1, <2>2, <3>1
    <3> QED BY <3>2 DEF HoldersUse
  <2>4. TenantCountsAgree' BY <1>3 DEF ClientsOK, TenantCountsAgree
  <2>5. TenantTypes' BY <1>3, <1>6 DEF ClientsOK, TenantTypes
  <2> QED BY <1>6, <2>3, <2>4, <2>5 DEF ClientsOK
<1>8. Queued' = Queued BY <1>3 DEF Queued
<1>9. CASE p = Shared BY <1>3, <1>7, <1>8, <1>9, SameLines
<1>10. CASE p # Shared BY <1>3, <1>7, <1>8, <1>10, DrainKeeps
<1> QED BY <1>9, <1>10

\* tenant_routing.ts:136-149: a clean-up keeps some entries of the line in their
\* order.
LEMMA PushedOK ==
  ASSUME NEW s \in Seq(Requests), NEW positions \in SUBSET DOMAIN s, NEW y \in Pushed(s, positions)
  PROVE  /\ y \in Seq(Requests)
         /\ \A who, still : /\ Exact(s, who) /\ still \subseteq who
                            /\ \A i \in DOMAIN s : i \in positions <=> s[i] \in still
                            => Exact(y, still)
<1> DEFINE n == Cardinality(positions)
<1>1. DOMAIN s = 1..Len(s) /\ Len(s) \in Nat /\ \A i \in DOMAIN s : s[i] \in Requests
  BY ElementOfSeq
<1>2. n \in Nat
  <2>1. IsFiniteSet(1..Len(s)) BY <1>1, FS_Interval
  <2>2. IsFiniteSet(positions) BY <1>1, <2>1, FS_Subset
  <2> QED BY <2>2, FS_CardinalityType
<1> HIDE DEF n
<1>3. PICK f \in [1..n -> positions] :
        /\ \A i, j \in DOMAIN f : i < j => f[i] < f[j]
        /\ \A p \in positions : \E i \in DOMAIN f : f[i] = p
        /\ y = [i \in DOMAIN f |-> s[f[i]]]
  <2> DEFINE Orders == {g \in [1..n -> positions] : /\ \A i, j \in DOMAIN g : i < j => g[i] < g[j]
                                                    /\ \A p \in positions : \E i \in DOMAIN g : g[i] = p}
  <2>1. \A g \in Orders : /\ g \in [1..n -> positions] /\ \A i, j \in DOMAIN g : i < j => g[i] < g[j]
                          /\ \A p \in positions : \E i \in DOMAIN g : g[i] = p
    OBVIOUS
  <2>2. y \in {[i \in DOMAIN f |-> s[f[i]]] : f \in Orders} BY Zenon DEF Pushed, n
  <2> HIDE DEF Orders
  <2>3. PICK f \in Orders : y = [i \in DOMAIN f |-> s[f[i]]] BY <2>2
  <2> QED BY <2>1, <2>3
<1>4. DOMAIN f = 1..n OBVIOUS
<1>5. \A i \in 1..n : f[i] \in positions /\ f[i] \in DOMAIN s /\ y[i] = s[f[i]] /\ y[i] \in Requests
  BY <1>1, <1>3, <1>4
<1>6. y = [i \in 1..n |-> y[i]] BY <1>3, <1>4
<1>7. y \in Seq(Requests) /\ DOMAIN y = 1..n
  <2>1. n \in Nat BY <1>2
  <2>2. PICK z : z = y OBVIOUS
  <2>3. z = [i \in 1..n |-> z[i]] /\ \A i \in 1..n : z[i] \in Requests BY <1>5, <1>6, <2>2
  <2>4. z \in [1..n -> Requests] BY <2>3
  <2>5. z \in Seq(Requests) /\ DOMAIN z = 1..n BY <2>1, <2>4
  <2> QED BY <2>2, <2>5
<1>8. \A i, j \in 1..n : f[i] = f[j] => i = j
  <2>1. \A i, j \in 1..n : f[i] \in Int /\ (i < j \/ j < i \/ i = j) BY <1>1, <1>2, <1>5
  <2>2. \A i, j \in 1..n : i < j => f[i] < f[j] BY <1>3, <1>4
  <2> QED BY <2>1, <2>2
<1>9. ASSUME NEW who, NEW still, Exact(s, who), still \subseteq who,
             \A i \in DOMAIN s : i \in positions <=> s[i] \in still
      PROVE  Exact(y, still)
  <2>1. ASSUME NEW i \in 1..n, NEW j \in 1..n, y[i] = y[j] PROVE i = j
    <3>1. f[i] = f[j] BY <1>5, <1>9, <2>1 DEF Exact
    <3> QED BY <1>8, <3>1
  <2>2. ASSUME NEW r \in Requests PROVE r \in still <=> \E i \in 1..n : y[i] = r
    <3>1. ASSUME r \in still PROVE \E i \in 1..n : y[i] = r
      <4>1. PICK p \in DOMAIN s : s[p] = r BY <1>9, <3>1 DEF Exact
      <4>2. p \in positions BY <1>9, <3>1, <4>1
      <4>3. PICK i \in 1..n : f[i] = p BY <1>3, <1>4, <4>2
      <4> QED BY <1>5, <4>1, <4>3
    <3>2. ASSUME NEW i \in 1..n, y[i] = r PROVE r \in still BY <1>5, <1>9, <3>2
    <3> QED BY <3>1, <3>2
  <2> QED BY <1>7, <2>1, <2>2 DEF Exact
<1> QED BY <1>7, <1>9

\* tenant_routing.ts:136-149: who waits too long leaves the line and is told;
\* a walk that is under way does not see the shorter line.
LEMMA CleanupKeeps ==
  ASSUME TenantAssumption, TenantInv, NEW n \in 0..Len(arrivals), CleanupQueue(n)
  PROVE  TenantInv'
<1> USE DEF TenantInv
<1> DEFINE late(r) == \E i \in 1..n : arrivals[i] = r
           line == arrays[queue]
           arrs == arrays
           positions == {i \in DOMAIN line : ~late(line[i])}
           timedOut(r) == request[r].pc = "queued" /\ late(r) /\ \E i \in DOMAIN line : line[i] = r
<1>2. PICK young \in Pushed(line, positions) :
        /\ request' = [r \in Requests |-> IF timedOut(r) THEN [request[r] EXCEPT !.pc = "rejected"] ELSE request[r]]
        /\ Keep(Plus(arrs, young), NewArray(arrs), drain)
        /\ overlapped' = (overlapped \/ Walking # {})
        /\ UNCHANGED <<pool, arrivals, perTenant, unowned, troubles>>
  BY Zenon DEF CleanupQueue
<1>1. PICK who : who = Queued OBVIOUS
<1> HIDE DEF late
<1>3. line \in Seq(Requests) /\ HeapOK(arrs, queue, drain) /\ queue \in DOMAIN arrs BY DEF HeapOK
<1> HIDE DEF arrs
<1>4. line = arrays[queue] /\ positions \in SUBSET DOMAIN line OBVIOUS
<1> HIDE DEF line
<1>5. PICK kept : kept = positions OBVIOUS
<1>6. /\ young \in Seq(Requests)
      /\ \A all, still : /\ Exact(line, all) /\ still \subseteq all
                         /\ \A i \in DOMAIN line : i \in kept <=> line[i] \in still
                         => Exact(young, still)
  <2>1. kept \in SUBSET DOMAIN line /\ young \in Pushed(line, kept) BY <1>2, <1>4, <1>5
  <2> QED BY <1>3, <2>1, PushedOK
<1>7. PICK more, fresh : more = Plus(arrs, young) /\ fresh = NewArray(arrs) OBVIOUS
<1>8. /\ DOMAIN more = DOMAIN arrs \cup {fresh} /\ IsFiniteSet(DOMAIN more) /\ more[fresh] = young
      /\ \A b \in DOMAIN arrs : more[b] = arrs[b]
  <2>1. IsFiniteSet(DOMAIN arrs) BY <1>3 DEF HeapOK
  <2>2. /\ DOMAIN Plus(arrs, young) = DOMAIN arrs \cup {NewArray(arrs)}
        /\ IsFiniteSet(DOMAIN Plus(arrs, young)) /\ Plus(arrs, young)[NewArray(arrs)] = young
        /\ \A b \in DOMAIN arrs : Plus(arrs, young)[b] = arrs[b]
    BY <2>1, PlusOK, ZenonT(60)
  <2> QED BY <1>7, <2>2
<1>9. HeapOK(more, fresh, drain) BY <1>3, <1>6, <1>8 DEF HeapOK
<1>10. Keep(more, fresh, drain) BY <1>2, <1>7
<1>11. HeapOK(arrays', queue', drain') /\ queue' = fresh /\ drain' = drain /\ arrays'[fresh] = young
  BY <1>8, <1>9, <1>10, KeepOK
<1>12. request \in [Requests -> [pc : Places, pool : Pools]] BY DEF ClientsOK, TenantTypes
<1>13. /\ request' \in [Requests -> [pc : Places, pool : Pools]]
       /\ \A r \in Requests : request'[r].pc = (IF timedOut(r) THEN "rejected" ELSE request[r].pc)
                              /\ request'[r].pool = request[r].pool
  <2>1. \A r \in Requests : /\ [request[r] EXCEPT !.pc = "rejected"] \in [pc : Places, pool : Pools]
                            /\ [request[r] EXCEPT !.pc = "rejected"].pc = "rejected"
                            /\ [request[r] EXCEPT !.pc = "rejected"].pool = request[r].pool
    BY <1>12 DEF Places
  <2> HIDE DEF timedOut
  <2> QED BY <1>2, <1>12, <2>1
<1>14. ClientsOK'
  <2>1. ASSUME NEW r \in Requests
        PROVE  /\ request[r].pc = "holding" <=> request'[r].pc = "holding"
               /\ request'[r].pool = request[r].pool
    <3>1. timedOut(r) => request[r].pc = "queued" OBVIOUS
    <3> HIDE DEF timedOut
    <3> QED BY <1>13, <3>1
  <2>2. ClientsOK /\ UNCHANGED <<pool, perTenant, unowned>> BY <1>2
  <2> HIDE DEF timedOut, TenantInv
  <2> QED BY <1>13, <2>1, <2>2, SameHolders
<1>15. Queued' = {r \in Queued : ~(late(r) /\ \E i \in DOMAIN line : line[i] = r)}
  BY <1>13 DEF Queued
<1>16. CASE overlapped \/ Walking # {} BY <1>2, <1>11, <1>14, <1>16 DEF WaitersOK
<1>17. CASE ~overlapped /\ Walking = {}
  <2>1. (\A t \in Tiers : unowned[t] = 0) /\ Exact(line, who)
    BY <1>1, <1>4, <1>17 DEF WaitersOK, Lines, Walking
  <2>2. PICK still : still = {r \in who : ~late(r)} OBVIOUS
  <2>3. \A r \in who : \E i \in DOMAIN line : line[i] = r BY <1>1, <2>1 DEF Exact, Queued
  <2>4. Queued' = still BY <1>1, <1>15, <2>2, <2>3
  <2>5. \A i \in DOMAIN line : line[i] \in Requests BY <1>3, ElementOfSeq
  <2>6. \A i \in DOMAIN line : i \in kept <=> line[i] \in still BY <1>5, <2>1, <2>2, <2>5 DEF Exact
  <2>7. Exact(young, still) BY <1>6, <2>1, <2>2, <2>6
  <2>8. Lines(arrays', queue', drain', still) BY <1>11, <1>17, <2>7 DEF Lines, Walking
  <2>9. Lines(arrays', queue', drain', Queued') BY <2>4, <2>8
  <2> QED BY <1>2, <1>11, <1>14, <2>1, <2>9 DEF WaitersOK
<1> QED BY <1>16, <1>17

\* In the beginning nobody waits and no client lives.
LEMMA TenantInitInv ==
  ASSUME TenantAssumption, TenantInit
  PROVE  TenantInv
<1> USE DEF TenantInit
<1>1. TenantTypes BY DEF TenantTypes, TenantAssumption, NewPool, Counters, Places
<1>2. AcquiredCountsTwice BY DEF AcquiredCountsTwice, NewPool
<1>3. \A r \in Requests : request[r].pc = "new" OBVIOUS
<1>4. Cardinality({}) = 0 BY FS_EmptySet
<1>5. HoldersUse
  <2>1. \A p \in Pools : HoldersIn(p) = {} BY <1>3 DEF HoldersIn
  <2>2. \A p \in Pools : Cardinality(HoldersIn(p)) = 0 BY <1>4, <2>1
  <2>3. \A p \in Pools : pool[p].inUse = 0 BY DEF NewPool
  <2> QED BY <2>2, <2>3 DEF HoldersUse
<1>6. TenantCountsAgree
  <2>1. \A t \in Tiers : {r \in Requests : TierOf[r] = t /\ request[r].pc = "holding"} = {} BY <1>3
  <2>2. \A t \in Tiers : Cardinality({r \in Requests : TierOf[r] = t /\ request[r].pc = "holding"}) = 0
    BY <1>4, <2>1
  <2>3. \A t \in Tiers : perTenant[t] = 0 /\ unowned[t] = 0 OBVIOUS
  <2> QED BY <2>2, <2>3 DEF TenantCountsAgree
<1>7. \A d \in Drains : drain[d].pc = "rest" BY DEF Resting
<1>8. HeapOK(arrays, queue, drain)
  <2>1. DOMAIN arrays = {0} /\ arrays[0] = <<>> OBVIOUS
  <2>2. IsFiniteSet({0}) BY FS_Singleton
  <2> QED BY <1>7, <2>1, <2>2 DEF HeapOK
<1>9. Lines(arrays, queue, drain, Queued)
  <2>1. Queued = {} /\ arrays[queue] = <<>> BY <1>3 DEF Queued
  <2> QED BY <1>7, <2>1 DEF Lines, Exact
<1> QED BY <1>1, <1>2, <1>5, <1>6, <1>8, <1>9 DEF TenantInv, ClientsOK, WaitersOK

\* Every step keeps the invariant.
LEMMA TenantStep ==
  ASSUME TenantAssumption, TenantInv, [TenantNext]_tenantVars
  PROVE  TenantInv'
<1>1. ASSUME NEW r \in Requests, GetConnection(r) \/ ConnectFails(r) PROVE TenantInv'
  BY <1>1, AskingKeepsLines
<1>2. ASSUME NEW r \in Requests, Enqueue(r) PROVE TenantInv' BY <1>2, EnqueueKeeps
<1>3. ASSUME NEW r \in Requests, ConnectRequest(r) PROVE TenantInv' BY <1>3, ConnectRequestKeeps
<1>4. ASSUME NEW r \in Requests, Release(r) PROVE TenantInv' BY <1>4, ReleaseKeeps
<1>5. ASSUME NEW d \in Drains, ConnectEntry(d) PROVE TenantInv' BY <1>5, ConnectEntryKeeps
<1>6. ASSUME NEW d \in Drains, EntryFails(d) PROVE TenantInv' BY <1>6, EntryFailsKeeps
<1>7. ASSUME NEW p \in Pools, CloseIdle(p) PROVE TenantInv' BY <1>7, CloseIdleKeeps
<1>8. ASSUME NEW n \in 0..Len(arrivals), CleanupQueue(n) PROVE TenantInv' BY <1>8, CleanupKeeps
<1>10. ASSUME NEW d \in Drains, KeepEntry(d) PROVE TenantInv' BY <1>10, KeepEntryKeeps
<1>9. ASSUME UNCHANGED tenantVars PROVE TenantInv'
  <2>1. ClientsOK'
    BY <1>9 DEF tenantVars, TenantInv, ClientsOK, TenantTypes, AcquiredCountsTwice, HoldersUse, HoldersIn,
                TenantCountsAgree
  <2>2. HeapOK(arrays, queue, drain)' BY <1>9 DEF tenantVars, TenantInv, HeapOK
  <2>3. WaitersOK' BY <1>9 DEF tenantVars, TenantInv, WaitersOK, Lines, Queued
  <2> QED BY <2>1, <2>2, <2>3 DEF TenantInv
<1> QED BY <1>1, <1>2, <1>3, <1>4, <1>5, <1>6, <1>7, <1>8, <1>9, <1>10 DEF TenantNext

\* The invariant gives the property: a request that waits is in the line.
LEMMA TenantInvRoutes == ASSUME TenantInv PROVE RoutingAccounts
<1>1. AcquiredCountsTwice /\ TenantCountsAgree BY DEF TenantInv, ClientsOK
<1>2. CASE overlapped BY <1>1, <1>2, Zenon DEF WaitersAreKept, RoutingAccounts
<1>3. CASE ~overlapped
  <2>1. (\A t \in Tiers : unowned[t] = 0) /\ Lines(arrays, queue, drain, Queued) /\ HeapOK(arrays, queue, drain)
    BY <1>3 DEF TenantInv, WaitersOK
  <2>2. ASSUME NEW r \in Requests, request[r].pc = "queued"
        PROVE  \/ \E i \in DOMAIN arrays[queue] : arrays[queue][i] = r
               \/ \E d \in Walking : \E i \in DOMAIN drain[d].kept : drain[d].kept[i] = r
    <3>1. r \in Queued BY <2>2 DEF Queued
    <3>2. CASE Walking = {} BY <2>1, <3>1, <3>2 DEF Lines, Walking, Exact
    <3>3. CASE Walking # {}
      <4>1. PICK d \in Walking : d \in Drains /\ drain[d].pc # "rest" BY <3>3 DEF Walking
      <4>2. PICK k, s, at : k = drain[d].kept /\ s = arrays[queue] /\ at = drain[d].at OBVIOUS
      <4>3. k \in Seq(Requests) /\ s \in Seq(Requests) /\ at \in 1..Len(s)
            /\ Exact(k \o SubSeq(s, at, Len(s)), Queued)
        BY <2>1, <4>1, <4>2 DEF Lines, HeapOK
      <4>4. Len(s) \in Nat /\ at \in Int /\ Len(k) \in Nat /\ \A i \in at..Len(s) : s[i] \in Requests
        BY <4>3, ElementOfSeq
      <4>5. PICK v : v = SubSeq(s, at, Len(s)) OBVIOUS
      <4>6. v \in Seq(Requests) /\ Len(v) = Len(s) - at + 1 /\ \A i \in 1..Len(v) : v[i] = s[at + i - 1]
        BY <4>3, <4>4, <4>5, SubSeqProperties
      <4>7. /\ k \o v \in Seq(Requests) /\ Len(k \o v) = Len(k) + Len(v)
            /\ \A i \in 1..(Len(k) + Len(v)) : (k \o v)[i] = IF i <= Len(k) THEN k[i] ELSE v[i - Len(k)]
        BY <4>3, <4>6, ConcatProperties
      <4>8. PICK i \in DOMAIN (k \o v) : (k \o v)[i] = r BY <3>1, <4>3, <4>5 DEF Exact
      <4>9. i \in 1..(Len(k) + Len(v)) BY <4>7, <4>8
      <4>10. CASE i <= Len(k)
        <5>1. i \in DOMAIN k /\ k[i] = r BY <4>3, <4>4, <4>7, <4>8, <4>9, <4>10
        <5> QED BY <4>1, <4>2, <5>1
      <4>11. CASE ~(i <= Len(k))
        <5>1. i - Len(k) \in 1..Len(v) /\ v[i - Len(k)] = r BY <4>4, <4>6, <4>7, <4>8, <4>9, <4>11
        <5>2. PICK j : j = i - Len(k) OBVIOUS
        <5>3. j \in 1..Len(v) /\ s[at + j - 1] = r BY <4>6, <5>1, <5>2
        <5>4. at + j - 1 \in 1..Len(s) BY <4>3, <4>4, <4>6, <5>3
        <5>5. at + j - 1 \in DOMAIN s BY <4>3, <5>4
        <5> QED BY <4>2, <5>3, <5>5
      <4> QED BY <4>10, <4>11
    <3> QED BY <3>2, <3>3
  <2> QED BY <1>1, <2>1, <2>2, Zenon DEF WaitersAreKept, RoutingAccounts
<1> QED BY <1>2, <1>3

\* tenant_routing.ts:55-171: whatever the tiers, the pools and the number of
\* walks, clients are counted as the routing counts them and nobody who waits is
\* lost, unless two walks overlapped.
THEOREM ClientsAndWaitersAccounted == TenantSpec => []RoutingAccounts
<1>1. TenantInit => TenantInv BY TenantAssumption, TenantInitInv
<1>2. TenantInv /\ [TenantNext]_tenantVars => TenantInv' BY TenantAssumption, TenantStep
<1>3. TenantInv => RoutingAccounts BY TenantInvRoutes
<1> QED BY <1>1, <1>2, <1>3, PTL DEF TenantSpec

(***************************************************************************)
(* Health: how the graph, the results and the states of the services keep  *)
(* together, whatever rounds overlap, and what alerts they leave behind.   *)
(***************************************************************************)
GraphTypes ==
  /\ dependencies \in [Services -> SUBSET Services] /\ dependents \in [Services -> SUBSET Services]
  /\ allServices \subseteq Services /\ Cardinality(allServices) =< MaxServices

RoundTypes ==
  /\ now \in Nat \ {0}
  /\ round \in [Rounds -> [start : Nat, services : SUBSET Services]]
  /\ \A r \in Rounds : round[r].services \subseteq allServices /\ round[r].start =< now
  /\ \A s \in Services, t \in Types : checkResults[s][t].at \in 0..now
  /\ \A p \in DOMAIN recentAlerts : recentAlerts[p] \in 1..now
  /\ DOMAIN serviceStates \subseteq allServices

HealthInv == GraphTypes /\ RoundTypes /\ MirrorsAgree /\ StatesFollowResults

LEMMA HealthInitInv == HealthInit => HealthInv
<1> SUFFICES ASSUME HealthInit PROVE HealthInv OBVIOUS
<1>1. PICK config \in Configs : LoadFromConfig(config) BY DEF HealthInit
<1>2. Named(config) \subseteq Services BY <1>1, HealthAssumption DEF HealthAssumption
<1>3. DOMAIN config \subseteq Services /\ \A s \in DOMAIN config : config[s] \subseteq Services BY <1>2 DEF Named
<1>4. GraphTypes BY <1>1, <1>2, <1>3 DEF LoadFromConfig, GraphTypes
<1>5. MirrorsAgree
  <2> SUFFICES ASSUME NEW s \in Services, NEW t \in Services
               PROVE  /\ t \in dependencies[s] <=> s \in dependents[t]
                      /\ t \in dependencies[s] => {s, t} \subseteq allServices
    BY DEF MirrorsAgree
  <2>1. t \in dependencies[s] <=> s \in DOMAIN config /\ t \in config[s] BY <1>1 DEF LoadFromConfig
  <2>2. s \in dependents[t] <=> s \in DOMAIN config /\ t \in config[s] BY <1>1 DEF LoadFromConfig
  <2>3. s \in DOMAIN config /\ t \in config[s] => {s, t} \subseteq allServices
    BY <1>1 DEF LoadFromConfig, Named
  <2> QED BY <2>1, <2>2, <2>3
<1>6. serviceStates = <<>> /\ recentAlerts = <<>> /\ now = 1 /\ DOMAIN serviceStates = {} /\ DOMAIN recentAlerts = {}
  BY DEF HealthInit
<1>7. RoundTypes BY <1>6 DEF HealthInit, RoundTypes, Off, Missing
<1>8. StatesFollowResults BY <1>6 DEF StatesFollowResults
<1> QED BY <1>4, <1>5, <1>7, <1>8 DEF HealthInv

\* dependency_graph.ts:71-95: an edit of the graph edits both of its maps.
LEMMA EditKeepsGraph ==
  ASSUME GraphTypes, MirrorsAgree, NEW from \in Services, NEW to \in Services,
         AddDependency(from, to) \/ RemoveDependency(from, to)
  PROVE  GraphTypes' /\ MirrorsAgree' /\ allServices \subseteq allServices'
<1>1. CASE AddDependency(from, to)
  <2>1. GraphTypes' /\ allServices \subseteq allServices' BY <1>1 DEF AddDependency, GraphTypes
  <2>2. MirrorsAgree'
    <3> SUFFICES ASSUME NEW s \in Services, NEW t \in Services
                 PROVE  /\ t \in dependencies'[s] <=> s \in dependents'[t]
                        /\ t \in dependencies'[s] => {s, t} \subseteq allServices'
      BY DEF MirrorsAgree
    <3>1. t \in dependencies'[s] <=> t \in dependencies[s] \/ (s = from /\ t = to)
      BY <1>1 DEF AddDependency, GraphTypes
    <3>2. s \in dependents'[t] <=> s \in dependents[t] \/ (s = from /\ t = to)
      BY <1>1 DEF AddDependency, GraphTypes
    <3>3. allServices' = allServices \cup {from, to} BY <1>1 DEF AddDependency
    <3> QED BY <3>1, <3>2, <3>3 DEF MirrorsAgree
  <2> QED BY <2>1, <2>2
<1>2. CASE RemoveDependency(from, to)
  <2>1. GraphTypes' /\ allServices \subseteq allServices' BY <1>2 DEF RemoveDependency, GraphTypes
  <2>2. MirrorsAgree'
    <3> SUFFICES ASSUME NEW s \in Services, NEW t \in Services
                 PROVE  /\ t \in dependencies'[s] <=> s \in dependents'[t]
                        /\ t \in dependencies'[s] => {s, t} \subseteq allServices'
      BY DEF MirrorsAgree
    <3>1. t \in dependencies'[s] <=> t \in dependencies[s] /\ ~(s = from /\ t = to)
      BY <1>2 DEF RemoveDependency, GraphTypes
    <3>2. s \in dependents'[t] <=> s \in dependents[t] /\ ~(s = from /\ t = to)
      BY <1>2 DEF RemoveDependency, GraphTypes
    <3>3. allServices' = allServices BY <1>2 DEF RemoveDependency
    <3> QED BY <3>1, <3>2, <3>3 DEF MirrorsAgree
  <2> QED BY <2>1, <2>2
<1> QED BY <1>1, <1>2

\* Steps that leave the results and the states alone keep them together.
LEMMA StartKeeps ==
  ASSUME HealthInv, NEW r \in Rounds, StartAll(r) \/ StartOne(r) PROVE HealthInv'
<1>1. PICK services \in SUBSET allServices : round' = [round EXCEPT ![r] = [start |-> now, services |-> services]]
  <2>1. CASE StartAll(r) BY <2>1 DEF StartAll
  <2>2. CASE StartOne(r)
    <3>1. PICK s \in allServices : round' = [round EXCEPT ![r] = [start |-> now, services |-> {s}]]
      BY <2>2 DEF StartOne
    <3> QED BY <3>1
  <2> QED BY <2>1, <2>2
<1>2. /\ UNCHANGED <<dependencies, dependents, allServices>> /\ UNCHANGED <<serviceStates, checkResults, recentAlerts, now>>
  BY DEF StartAll, StartOne, graphVars
<1>3. GraphTypes' /\ MirrorsAgree' /\ StatesFollowResults'
  BY <1>2 DEF HealthInv, GraphTypes, MirrorsAgree, StatesFollowResults
<1>4. round' \in [Rounds -> [start : Nat, services : SUBSET Services]]
  BY <1>1 DEF HealthInv, GraphTypes, RoundTypes
<1>5. ASSUME NEW q \in Rounds PROVE round'[q].services \subseteq allServices /\ round'[q].start =< now
  <2>1. CASE q = r
    <3>1. round'[q] = [start |-> now, services |-> services] BY <1>1, <2>1 DEF HealthInv, RoundTypes
    <3> QED BY <3>1 DEF HealthInv, RoundTypes
  <2>2. CASE q # r
    <3>1. round'[q] = round[q] BY <1>1, <2>2 DEF HealthInv, RoundTypes
    <3> QED BY <3>1 DEF HealthInv, RoundTypes
  <2> QED BY <2>1, <2>2
<1>6. RoundTypes' BY <1>2, <1>4, <1>5 DEF HealthInv, RoundTypes
<1> QED BY <1>3, <1>6 DEF HealthInv

\* aggregator.ts:183-231: what is stored is no later than now.
LEMMA StoredIsPast ==
  ASSUME HealthInv, NEW r \in Rounds, NEW report \in Reports, NEW s \in Services, NEW t \in Types
  PROVE  StoreResults(checkResults[s], Timed(report, round[r].start))[t].at \in 0..now
<1> DEFINE fresh == Timed(report, round[r].start)[t]
           old == checkResults[s][t]
<1>1. fresh.at = NoLess(now - report[t].age, round[r].start) BY DEF Timed
<1>2. now \in Nat /\ round[r].start \in Nat /\ round[r].start =< now /\ report[t].age \in Nat
  BY HealthAssumption DEF HealthInv, RoundTypes, HealthAssumption
<1>3. fresh.at \in 0..now BY <1>1, <1>2 DEF NoLess
<1>4. old.at \in 0..now BY DEF HealthInv, RoundTypes
<1>5. StoreResults(checkResults[s], Timed(report, round[r].start))[t] \in {fresh, old, Missing}
  BY DEF StoreResults, Latest
<1>6. Missing.at \in 0..now BY <1>2 DEF Missing
<1> HIDE DEF fresh, old
<1> QED BY <1>3, <1>4, <1>5, <1>6

\* What the end of a round leaves, with these reports and these alerts.
Finished(r, reports, alerts) ==
           /\ \A s \in Services : checkResults'[s] =
                IF s \in round[r].services THEN StoreResults(checkResults[s], Timed(reports[s], round[r].start))
                ELSE checkResults[s]
           /\ DOMAIN serviceStates' = DOMAIN serviceStates \cup round[r].services
           /\ \A s \in DOMAIN serviceStates' : serviceStates'[s] =
                IF s \in round[r].services THEN DetermineOverallState(AggregatedScore(checkResults'[s]))
                ELSE serviceStates[s]
           /\ alerts = {p \in UNION {Risky(s, serviceStates') : s \in {e \in round[r].services : serviceStates'[e] # "unhealthy"}} : Due(p)}
           /\ DOMAIN recentAlerts' = DOMAIN recentAlerts \cup alerts
           /\ \A p \in DOMAIN recentAlerts' : recentAlerts'[p] = IF p \in alerts THEN now ELSE recentAlerts[p]
           /\ round' = [round EXCEPT ![r] = Off]
           /\ UNCHANGED <<dependencies, dependents, allServices, now, spent>>

\* aggregator.ts:93-180: the end of a round, one fact for each map.
LEMMA FinishIs ==
  ASSUME HealthInv, NEW r \in Rounds, Finish(r)
  PROVE  \E reports \in [round[r].services -> Reports] : \E alerts : Finished(r, reports, alerts)
<1> DEFINE evaluated == round[r].services
           results(reports) == [s \in Services |->
                         IF s \in evaluated THEN StoreResults(checkResults[s], Timed(reports[s], round[r].start))
                         ELSE checkResults[s]]
           judged(reports) == Judge(evaluated, results(reports))
           states(reports) == [s \in DOMAIN serviceStates \cup evaluated |->
                        IF s \in evaluated THEN judged(reports)[s] ELSE serviceStates[s]]
           alerts(reports) == {p \in UNION {Risky(s, states(reports)) : s \in {e \in evaluated : judged(reports)[e] # "unhealthy"}} : Due(p)}
<1>1. PICK reports \in [evaluated -> Reports] :
           /\ checkResults' = results(reports)
           /\ serviceStates' = states(reports)
           /\ recentAlerts' = [p \in DOMAIN recentAlerts \cup alerts(reports) |-> IF p \in alerts(reports) THEN now ELSE recentAlerts[p]]
  BY DEF Finish
<1>2. evaluated \subseteq Services BY DEF HealthInv, RoundTypes
<1>3. \A s \in evaluated : judged(reports)[s] = DetermineOverallState(AggregatedScore(checkResults'[s]))
  BY <1>1, <1>2 DEF Judge
<1>4. \A s \in evaluated : serviceStates'[s] = judged(reports)[s] BY <1>1
<1>5. {e \in evaluated : judged(reports)[e] # "unhealthy"} = {e \in evaluated : serviceStates'[e] # "unhealthy"}
  BY <1>4
<1>6. alerts(reports) = {p \in UNION {Risky(s, serviceStates') : s \in {e \in evaluated : serviceStates'[e] # "unhealthy"}} : Due(p)}
  BY <1>1, <1>5
<1>7. \A s \in Services : checkResults'[s] =
                IF s \in evaluated THEN StoreResults(checkResults[s], Timed(reports[s], round[r].start))
                ELSE checkResults[s]
  BY <1>1
<1>8. /\ DOMAIN serviceStates' = DOMAIN serviceStates \cup evaluated
      /\ \A s \in DOMAIN serviceStates' : serviceStates'[s] =
                IF s \in evaluated THEN DetermineOverallState(AggregatedScore(checkResults'[s]))
                ELSE serviceStates[s]
  BY <1>1, <1>3, <1>4
<1>9. /\ DOMAIN recentAlerts' = DOMAIN recentAlerts \cup alerts(reports)
      /\ \A p \in DOMAIN recentAlerts' : recentAlerts'[p] = IF p \in alerts(reports) THEN now ELSE recentAlerts[p]
  BY <1>1
<1>10. round' = [round EXCEPT ![r] = Off] /\ UNCHANGED <<dependencies, dependents, allServices, now, spent>>
  BY DEF Finish, graphVars
<1> HIDE DEF results, judged, states, alerts
<1> QED BY <1>6, <1>7, <1>8, <1>9, <1>10 DEF Finished

LEMMA FinishKeeps == ASSUME HealthInv, NEW r \in Rounds, Finish(r) PROVE HealthInv'
<1>0. PICK reports \in [round[r].services -> Reports] : \E alerts : Finished(r, reports, alerts) BY FinishIs
<1>a. PICK alerts : Finished(r, reports, alerts) BY <1>0
<1>1. /\ \A s \in Services : checkResults'[s] =
           IF s \in round[r].services THEN StoreResults(checkResults[s], Timed(reports[s], round[r].start))
           ELSE checkResults[s]
      /\ DOMAIN serviceStates' = DOMAIN serviceStates \cup round[r].services
      /\ \A s \in DOMAIN serviceStates' : serviceStates'[s] =
           IF s \in round[r].services THEN DetermineOverallState(AggregatedScore(checkResults'[s]))
           ELSE serviceStates[s]
      /\ \A p \in DOMAIN recentAlerts' : (p \in DOMAIN recentAlerts /\ recentAlerts'[p] = recentAlerts[p]) \/ recentAlerts'[p] = now
      /\ round' = [round EXCEPT ![r] = Off]
      /\ UNCHANGED <<dependencies, dependents, allServices, now>>
  BY <1>a DEF Finished
<1>2. GraphTypes' /\ MirrorsAgree' BY <1>1 DEF HealthInv, GraphTypes, MirrorsAgree
<1>3. StatesFollowResults'
  <2> SUFFICES ASSUME NEW s \in DOMAIN serviceStates'
               PROVE  serviceStates'[s] = DetermineOverallState(AggregatedScore(checkResults'[s]))
    BY DEF StatesFollowResults
  <2>1. CASE s \in round[r].services BY <1>1, <2>1
  <2>2. CASE s \notin round[r].services
    <3>1. s \in DOMAIN serviceStates /\ s \in Services BY <1>1, <2>2 DEF HealthInv, RoundTypes, GraphTypes
    <3>2. checkResults'[s] = checkResults[s] /\ serviceStates'[s] = serviceStates[s] BY <1>1, <2>2, <3>1
    <3> QED BY <3>1, <3>2 DEF HealthInv, StatesFollowResults
  <2> QED BY <2>1, <2>2
<1>4. ASSUME NEW s \in Services, NEW t \in Types PROVE checkResults'[s][t].at \in 0..now
  <2>1. CASE s \in round[r].services
    <3>1. reports[s] \in Reports BY <2>1
    <3> QED BY <1>1, <2>1, <3>1, StoredIsPast
  <2>2. CASE s \notin round[r].services BY <1>1, <2>2 DEF HealthInv, RoundTypes
  <2> QED BY <2>1, <2>2
<1>5. round' \in [Rounds -> [start : Nat, services : SUBSET Services]] BY <1>1 DEF HealthInv, RoundTypes, Off
<1>6. ASSUME NEW q \in Rounds PROVE round'[q].services \subseteq allServices /\ round'[q].start =< now
  <2>1. round'[q] = round[q] \/ round'[q] = Off BY <1>1 DEF HealthInv, RoundTypes
  <2>2. Off.services = {} /\ Off.start = 0 BY DEF Off
  <2> QED BY <2>1, <2>2 DEF HealthInv, RoundTypes
<1>7. \A p \in DOMAIN recentAlerts' : recentAlerts'[p] \in 1..now BY <1>1 DEF HealthInv, RoundTypes
<1>8. DOMAIN serviceStates' \subseteq allServices BY <1>1 DEF HealthInv, RoundTypes
<1>9. RoundTypes' BY <1>1, <1>4, <1>5, <1>6, <1>7, <1>8 DEF HealthInv, RoundTypes
<1> QED BY <1>2, <1>3, <1>9 DEF HealthInv

LEMMA HealthStep == HealthInv /\ [HealthNext]_healthVars => HealthInv'
<1> SUFFICES ASSUME HealthInv, [HealthNext]_healthVars PROVE HealthInv' OBVIOUS
<1>1. CASE Edit
  <2>1. PICK from \in Services, to \in Services : AddDependency(from, to) \/ RemoveDependency(from, to)
    BY <1>1 DEF Edit
  <2>2. GraphTypes' /\ MirrorsAgree' /\ allServices \subseteq allServices' BY <2>1, EditKeepsGraph DEF HealthInv
  <2>3. UNCHANGED <<serviceStates, round, checkResults, recentAlerts, now>> BY <1>1 DEF Edit, aggVars
  <2>4. RoundTypes' BY <2>2, <2>3 DEF HealthInv, RoundTypes
  <2>5. StatesFollowResults' BY <2>3 DEF HealthInv, StatesFollowResults
  <2> QED BY <2>2, <2>4, <2>5 DEF HealthInv
<1>2. CASE Tick
  <2>1. /\ now' = now + 1
        /\ UNCHANGED <<dependencies, dependents, allServices, serviceStates, round, checkResults, recentAlerts>>
    BY <1>2 DEF Tick, graphVars, aggVars
  <2>2. GraphTypes' /\ MirrorsAgree' /\ StatesFollowResults'
    BY <2>1 DEF HealthInv, GraphTypes, MirrorsAgree, StatesFollowResults
  <2>3. now \in Nat /\ 0..now \subseteq 0..(now + 1) /\ 1..now \subseteq 1..(now + 1) BY DEF HealthInv, RoundTypes
  <2>4. \A r \in Rounds : round[r].start \in Nat BY DEF HealthInv, RoundTypes
  <2>5. RoundTypes' BY <2>1, <2>3, <2>4 DEF HealthInv, RoundTypes
  <2> QED BY <2>2, <2>5 DEF HealthInv
<1>3. CASE \E r \in Rounds : StartAll(r) \/ StartOne(r) BY <1>3, StartKeeps
<1>4. CASE \E r \in Rounds : Finish(r) BY <1>4, FinishKeeps
<1>5. CASE UNCHANGED healthVars
  BY <1>5 DEF healthVars, HealthInv, GraphTypes, RoundTypes, MirrorsAgree, StatesFollowResults
<1> QED BY <1>1, <1>2, <1>3, <1>4, <1>5 DEF HealthNext

\* dependency_graph.ts:30-95, aggregator.ts:131-144: the two maps of the graph
\* agree and every state is that of the results stored, however rounds overlap.
LEMMA HealthInvariant == HealthSpec => []HealthInv
BY HealthInitInv, HealthStep, PTL DEF HealthSpec

(***************************************************************************)
(* What a round may do to the results and the alerts.                      *)
(***************************************************************************)
LEMMA StoredIsNoOlder ==
  ASSUME HealthInv, NEW r \in Rounds, NEW report \in Reports, NEW s \in Services, NEW t \in Types
  PROVE  LET new == StoreResults(checkResults[s], Timed(report, round[r].start))[t]
         IN  new.at >= checkResults[s][t].at \/ checkResults[s][t].at < now - KeepFor
<1> DEFINE old == checkResults[s][t]
           fresh == Timed(report, round[r].start)[t]
           kept == IF fresh.at > old.at THEN fresh ELSE old
           new == StoreResults(checkResults[s], Timed(report, round[r].start))[t]
<1>1. fresh.at = NoLess(now - report[t].age, round[r].start) BY DEF Timed
<1>2. now \in Nat /\ round[r].start \in Nat /\ report[t].age \in Nat /\ KeepFor \in Nat
  BY HealthAssumption DEF HealthInv, RoundTypes, HealthAssumption
<1>3. fresh.at \in Int BY <1>1, <1>2 DEF NoLess
<1>4. old.at \in Int BY DEF HealthInv, RoundTypes
<1>5. new = IF kept.at >= now - KeepFor THEN kept ELSE Missing BY DEF StoreResults, Latest
<1> HIDE DEF old, fresh, new
<1>6. kept.at >= old.at /\ kept.at \in Int BY <1>3, <1>4
<1> HIDE DEF kept
<1>7. kept.at >= now - KeepFor => new.at >= old.at BY <1>5, <1>6
<1>8. ~(kept.at >= now - KeepFor) => old.at < now - KeepFor BY <1>2, <1>4, <1>6
<1>9. new.at >= old.at \/ old.at < now - KeepFor BY <1>7, <1>8
<1> QED BY <1>9 DEF new, old

LEMMA NothingGoesBack ==
  HealthInv /\ [HealthNext]_healthVars =>
    [\A s \in Services, t \in Types : \/ checkResults'[s][t].at >= checkResults[s][t].at
                                      \/ checkResults[s][t].at < now - KeepFor]_healthVars
<1> SUFFICES ASSUME HealthInv, [HealthNext]_healthVars, NEW s \in Services, NEW t \in Types
             PROVE  \/ checkResults'[s][t].at >= checkResults[s][t].at
                    \/ checkResults[s][t].at < now - KeepFor
  OBVIOUS
<1>1. checkResults[s][t].at \in Nat BY DEF HealthInv, RoundTypes
<1>2. CASE checkResults' = checkResults BY <1>1, <1>2
<1>3. CASE \E r \in Rounds : Finish(r)
  <2>1. PICK r \in Rounds : Finish(r) BY <1>3
  <2>2. PICK reports \in [round[r].services -> Reports] :
          checkResults'[s] = IF s \in round[r].services
                             THEN StoreResults(checkResults[s], Timed(reports[s], round[r].start))
                             ELSE checkResults[s]
    BY <2>1, FinishIs DEF Finished
  <2>3. CASE s \in round[r].services
    <3>1. reports[s] \in Reports BY <2>3
    <3> QED BY <2>2, <2>3, <3>1, StoredIsNoOlder
  <2>4. CASE s \notin round[r].services BY <1>1, <2>2, <2>4
  <2> QED BY <2>3, <2>4
<1> QED BY <1>2, <1>3 DEF HealthNext, Edit, Tick, StartAll, StartOne, aggVars, healthVars

LEMMA RisksLeaveAlerts ==
  HealthInv /\ [HealthNext]_healthVars =>
    [\A r \in Rounds : (round[r] # Off /\ round'[r] = Off /\ round[r].services = allServices) =>
       \A s \in allServices : serviceStates'[s] # "unhealthy" =>
         \A p \in Risky(s, serviceStates') : p \in DOMAIN recentAlerts' /\ now - recentAlerts'[p] < Cooldown]_healthVars
<1> SUFFICES ASSUME HealthInv, [HealthNext]_healthVars, NEW r \in Rounds, round[r] # Off, round'[r] = Off,
                    round[r].services = allServices, NEW s \in allServices, serviceStates'[s] # "unhealthy",
                    NEW p \in Risky(s, serviceStates')
             PROVE  p \in DOMAIN recentAlerts' /\ now - recentAlerts'[p] < Cooldown
  OBVIOUS
<1>1. round'[r] # round[r] OBVIOUS
<1>2. ASSUME NEW q \in Rounds, StartAll(q) \/ StartOne(q) PROVE FALSE
  <2>1. round[q] = Off /\ \E services : round' = [round EXCEPT ![q] = [start |-> now, services |-> services]]
    BY <1>2 DEF StartAll, StartOne
  <2> QED BY <1>1, <2>1 DEF HealthInv, RoundTypes
<1>3. round' # round BY <1>1
<1>4. PICK q \in Rounds : Finish(q)
  BY <1>2, <1>3 DEF HealthNext, Edit, Tick, aggVars, healthVars
<1>5. round' = [round EXCEPT ![q] = Off] BY <1>4 DEF Finish
<1>6. q = r BY <1>1, <1>5 DEF HealthInv, RoundTypes
<1>7. PICK alerts :
        /\ alerts = {x \in UNION {Risky(e, serviceStates') : e \in {e \in allServices : serviceStates'[e] # "unhealthy"}} : Due(x)}
        /\ DOMAIN recentAlerts' = DOMAIN recentAlerts \cup alerts
        /\ \A x \in DOMAIN recentAlerts' : recentAlerts'[x] = IF x \in alerts THEN now ELSE recentAlerts[x]
  BY <1>4, <1>6, FinishIs DEF Finished
<1>8. Cooldown \in Nat \ {0} /\ now \in Nat BY HealthAssumption DEF HealthAssumption, HealthInv, RoundTypes
<1>9. CASE p \in alerts
  <2>1. p \in DOMAIN recentAlerts' /\ recentAlerts'[p] = now BY <1>7, <1>9
  <2> QED BY <1>8, <2>1
<1>10. CASE p \notin alerts
  <2>1. p \in UNION {Risky(e, serviceStates') : e \in {e \in allServices : serviceStates'[e] # "unhealthy"}} OBVIOUS
  <2>2. ~Due(p) BY <1>7, <1>10, <2>1
  <2>3. p \in DOMAIN recentAlerts /\ ~(now - recentAlerts[p] >= Cooldown) BY <2>2 DEF Due
  <2>4. p \in DOMAIN recentAlerts' /\ recentAlerts'[p] = recentAlerts[p] BY <1>7, <1>10, <2>3
  <2>5. recentAlerts[p] \in Nat BY <2>3 DEF HealthInv, RoundTypes
  <2> QED BY <1>8, <2>3, <2>4, <2>5
<1> QED BY <1>9, <1>10

\* aggregator.ts:183-267: for any services, cooldown, window and number of rounds
\* that overlap, no result goes back and every risk has its alert.
THEOREM RoundsDisturbNothing == HealthSpec => RoundsAgree
<1>1. HealthSpec => []HealthInv BY HealthInvariant
<1>2. HealthSpec => ResultsNeverGoBack BY <1>1, NothingGoesBack, PTL DEF HealthSpec, ResultsNeverGoBack
<1>3. HealthSpec => RisksAreAlerted BY <1>1, RisksLeaveAlerts, PTL DEF HealthSpec, RisksAreAlerted
<1> QED BY <1>2, <1>3 DEF RoundsAgree

(***************************************************************************)
(* Numbers and loops.                                                      *)
(***************************************************************************)
\* A set of numbers with zero and every successor has them all.
LEMMA AllNumbers == ASSUME NEW S \in SUBSET Nat, 0 \in S, \A n \in S : n + 1 \in S PROVE S = Nat
<1> SUFFICES ASSUME S # Nat PROVE FALSE OBVIOUS
<1>1. PICK n \in Nat \ S : \A m \in Nat \ S : <<m, n>> \notin OpToRel(<, Nat)
  BY NatLessThanWellFounded, WFMin
<1>2. n # 0 /\ n \in Nat BY <1>1
<1>3. n - 1 \in Nat /\ n - 1 < n /\ (n - 1) + 1 = n BY <1>2
<1>4. <<n - 1, n>> \in OpToRel(<, Nat) BY <1>2, <1>3 DEF OpToRel
<1>5. n - 1 \in S BY <1>1, <1>3, <1>4
<1>6. (n - 1) + 1 \in S BY <1>5
<1> QED BY <1>1, <1>3, <1>6

\* A loop: what it has after so many turns is a function of their number.
LEMMA LoopExists ==
  ASSUME NEW D, NEW A \in D, NEW F \in [D -> D]
  PROVE  \E g \in [Nat -> D] : g = [k \in Nat |-> IF k = 0 THEN A ELSE F[g[k - 1]]]
<1> DEFINE Runs(n) == {h \in [0..n -> D] : h[0] = A /\ \A k \in 1..n : h[k] = F[h[k - 1]]}
           S == {n \in Nat : Runs(n) # {}}
<1>1. 0 \in S
  <2>1. [i \in 0..0 |-> A] \in Runs(0) OBVIOUS
  <2> QED BY <2>1
<1>2. ASSUME NEW n \in S PROVE n + 1 \in S
  <2>1. PICK h \in Runs(n) : TRUE BY <1>2
  <2> DEFINE e == [i \in 0..(n + 1) |-> IF i = n + 1 THEN F[h[n]] ELSE h[i]]
  <2>2. n \in Nat /\ h \in [0..n -> D] /\ h[0] = A /\ \A k \in 1..n : h[k] = F[h[k - 1]] BY <2>1
  <2>3. h[n] \in D /\ F[h[n]] \in D BY <2>2
  <2>4. e \in [0..(n + 1) -> D]
    <3>1. ASSUME NEW i \in 0..(n + 1) PROVE (IF i = n + 1 THEN F[h[n]] ELSE h[i]) \in D
      <4>1. i # n + 1 => i \in 0..n BY <2>2
      <4> QED BY <2>2, <2>3, <4>1
    <3> QED BY <3>1
  <2>5. e[0] = A BY <2>2
  <2>6. ASSUME NEW k \in 1..(n + 1) PROVE e[k] = F[e[k - 1]]
    <3>1. k \in Nat /\ k - 1 \in 0..n /\ k - 1 \in 0..(n + 1) /\ k \in 0..(n + 1) /\ k - 1 # n + 1 BY <2>2
    <3>2. e[k - 1] = h[k - 1] BY <3>1
    <3>3. CASE k = n + 1
      <4>1. k - 1 = n BY <2>2, <3>3
      <4> QED BY <3>1, <3>2, <3>3, <4>1
    <3>4. CASE k # n + 1
      <4>1. k \in 1..n BY <2>2, <3>4
      <4> QED BY <2>2, <3>1, <3>2, <3>4, <4>1
    <3> QED BY <3>3, <3>4
  <2> HIDE DEF e
  <2>7. e \in Runs(n + 1) BY <2>4, <2>5, <2>6
  <2>8. n + 1 \in Nat BY <2>2
  <2> QED BY <2>7, <2>8
<1>3. S = Nat
  <2>1. S \in SUBSET Nat OBVIOUS
  <2> HIDE DEF S
  <2> QED BY <1>1, <1>2, <2>1, AllNumbers
<1>4. ASSUME NEW m \in Nat, NEW n \in Nat, m =< n, NEW h \in Runs(n), NEW e \in Runs(m), NEW k \in 0..m
      PROVE  h[k] = e[k]
  <2> DEFINE T == {i \in Nat : i > m \/ h[i] = e[i]}
  <2>1. 0 \in T OBVIOUS
  <2>2. ASSUME NEW i \in T PROVE i + 1 \in T
    <3>1. i \in Nat /\ i + 1 \in Nat /\ (i + 1) - 1 = i BY <2>2
    <3>2. CASE i + 1 > m BY <3>1, <3>2
    <3>3. CASE ~(i + 1 > m)
      <4>1. i + 1 \in 1..m /\ i + 1 \in 1..n /\ ~(i > m) BY <1>4, <3>1, <3>3
      <4>2. h[i + 1] = F[h[i]] /\ e[i + 1] = F[e[i]] BY <3>1, <4>1
      <4>3. h[i] = e[i] BY <2>2, <4>1
      <4> QED BY <3>1, <4>2, <4>3
    <3> QED BY <3>2, <3>3
  <2>3. T \in SUBSET Nat OBVIOUS
  <2> HIDE DEF T
  <2>4. T = Nat BY <2>1, <2>2, <2>3, AllNumbers
  <2>5. k \in T /\ k \in Nat /\ ~(k > m) BY <2>4
  <2> QED BY <2>5 DEF T
<1> DEFINE run(n) == CHOOSE h \in Runs(n) : TRUE
           g == [n \in Nat |-> run(n)[n]]
<1>5. ASSUME NEW n \in Nat PROVE run(n) \in Runs(n)
  <2>1. Runs(n) # {} BY <1>3
  <2> HIDE DEF Runs
  <2> QED BY <2>1
<1> HIDE DEF run
<1>6. ASSUME NEW k \in Nat PROVE g[k] \in D /\ g[k] = IF k = 0 THEN A ELSE F[g[k - 1]]
  <2>1. run(k) \in [0..k -> D] /\ run(k)[0] = A /\ \A i \in 1..k : run(k)[i] = F[run(k)[i - 1]] BY <1>5
  <2>2. g[k] = run(k)[k] /\ k \in 0..k OBVIOUS
  <2>3. CASE k = 0 BY <2>1, <2>2, <2>3
  <2>4. CASE k # 0
    <3>1. k - 1 \in Nat /\ k - 1 =< k /\ k - 1 \in 0..(k - 1) /\ k \in 1..k BY <2>4
    <3>2. run(k)[k] = F[run(k)[k - 1]] BY <2>1, <3>1
    <3>3. run(k)[k - 1] = run(k - 1)[k - 1]
      <4>1. run(k) \in Runs(k) /\ run(k - 1) \in Runs(k - 1) BY <1>5, <3>1
      <4> HIDE DEF Runs
      <4> QED BY <1>4, <3>1, <4>1
    <3>4. g[k - 1] = run(k - 1)[k - 1] BY <3>1
    <3> QED BY <2>1, <2>2, <2>4, <3>2, <3>3, <3>4
  <2> QED BY <2>3, <2>4
<1>7. g = [k \in Nat |-> g[k]] OBVIOUS
<1> HIDE DEF g
<1>8. g \in [Nat -> D] BY <1>6, <1>7
<1>9. g = [k \in Nat |-> IF k = 0 THEN A ELSE F[g[k - 1]]] BY <1>6, <1>7
<1> QED BY <1>8, <1>9

(***************************************************************************)
(* Chances.                                                                *)
(***************************************************************************)
Matrices == [States -> [States -> Nat]]

LEMMA ProductsAreMatrices == ASSUME NEW a \in Matrices, NEW b \in Matrices PROVE MultiplyMatrices(a, b) \in Matrices
<1>1. ASSUME NEW from \in States, NEW to \in States
      PROVE  (a[from].healthy * b.healthy[to] + a[from].degraded * b.degraded[to] + a[from].unhealthy * b.unhealthy[to]) \div Unit \in Nat
  <2>1. /\ a[from].healthy \in Nat /\ a[from].degraded \in Nat /\ a[from].unhealthy \in Nat
        /\ b.healthy[to] \in Nat /\ b.degraded[to] \in Nat /\ b.unhealthy[to] \in Nat
    BY DEF Matrices, States
  <2>2. /\ a[from].healthy * b.healthy[to] \in Nat /\ a[from].degraded * b.degraded[to] \in Nat
        /\ a[from].unhealthy * b.unhealthy[to] \in Nat
    BY <2>1
  <2> QED BY <2>2 DEF Unit
<1> QED BY <1>1 DEF MultiplyMatrices, Matrices

LEMMA TurnKeepsMatrices ==
  ASSUME NEW s \in [result : Matrices, base : Matrices, power : Nat] PROVE Turn(s) \in [result : Matrices, base : Matrices, power : Nat]
<1>1. s.result \in Matrices /\ s.base \in Matrices /\ s.power \in Nat OBVIOUS
<1>2. MultiplyMatrices(s.result, s.base) \in Matrices /\ MultiplyMatrices(s.base, s.base) \in Matrices
  BY <1>1, ProductsAreMatrices
<1>3. s.power \div 2 \in Nat BY <1>1
<1> QED BY <1>1, <1>2, <1>3 DEF Turn

\* cascading_model.ts:160-180: no power of a matrix has a negative entry.
LEMMA PowersAreMatrices == ASSUME NEW m \in Matrices, NEW power \in Nat PROVE MatrixPower(m, power) \in Matrices
<1> DEFINE D == [result : Matrices, base : Matrices, power : Nat]
           A == [result |-> Identity, base |-> m, power |-> power]
           F == [s \in D |-> Turn(s)]
           loop == CHOOSE loop : loop = [k \in Nat |-> IF k = 0 THEN A ELSE Turn(loop[k - 1])]
<1>1. Identity \in Matrices BY DEF Identity, Matrices, Unit
<1>2. A \in D BY <1>1
<1>3. F \in [D -> D] BY TurnKeepsMatrices
<1>4. PICK g \in [Nat -> D] : g = [k \in Nat |-> IF k = 0 THEN A ELSE F[g[k - 1]]]
  <2> HIDE DEF D, A, F
  <2> QED BY <1>2, <1>3, LoopExists
<1>5. \A s \in D : F[s] = Turn(s) OBVIOUS
<1> HIDE DEF A, F
<1>6. g = [k \in Nat |-> IF k = 0 THEN A ELSE Turn(g[k - 1])]
  <2> HIDE DEF D
  <2>1. \A k \in Nat : k # 0 => g[k - 1] \in D BY <1>4
  <2> QED BY <1>4, <1>5, <2>1
<1>7. loop = [k \in Nat |-> IF k = 0 THEN A ELSE Turn(loop[k - 1])] BY <1>6
<1> DEFINE T == {k \in Nat : loop[k] \in D}
<1> HIDE DEF loop, D
<1>8. 0 \in T BY <1>2, <1>7
<1>9. ASSUME NEW k \in T PROVE k + 1 \in T
  <2>1. loop[k + 1] = Turn(loop[k]) BY <1>7
  <2> QED BY <1>9, <2>1, TurnKeepsMatrices DEF D
<1>10. T = Nat
  <2>1. T \in SUBSET Nat OBVIOUS
  <2> HIDE DEF T
  <2> QED BY <1>8, <1>9, <2>1, AllNumbers
<1>11. loop[power].result \in Matrices BY <1>10 DEF D
<1> QED BY <1>11 DEF loop, A, MatrixPower

Impacts == {i \in Nat : i =< 4000}
Chances == 0..Unit
Rows == [States -> Chances]

LEMMA ImpactIsCapped ==
  ASSUME NEW size \in Nat, NEW unhealthy \in Nat, NEW degraded \in Nat
  PROVE  DependencyImpact(size, unhealthy, degraded) \in Impacts
BY DEF Impacts, DependencyImpact, NoMore, ImpactFactor

LEMMA RowIsFunction == \A S : \A h, d, u \in S : Row(h, d, u) \in [States -> S]
BY DEF Row, States

LEMMA IsChance == \A n \in Int : 0 =< n /\ n =< 10000 => n \in Chances
<1> SUFFICES ASSUME NEW n \in Int, 0 =< n, n =< 10000 PROVE n \in Chances OBVIOUS
<1>1. n =< Unit BY DEF Unit
<1>2. Unit \in Int BY DEF Unit
<1> QED BY <1>1, <1>2 DEF Chances

\* The numbers of the two rows that the impact changes.
LEMMA NumbersStayInside ==
  ASSUME NEW whole \in Nat, whole =< 4000, NEW half \in Nat, half =< 2000, whole =< 2 * half + 1
  PROVE  /\ 1300 + whole \in Chances /\ 200 + half \in Chances /\ 10000 - (1300 + whole) - (200 + half) \in Chances
         /\ 2000 + whole \in Chances /\ 5000 - half \in Chances /\ 10000 - (5000 - half) - (2000 + whole) \in Chances
<1>1. /\ 1300 + whole \in Int /\ 0 =< 1300 + whole /\ 1300 + whole =< 10000
      /\ 2000 + whole \in Int /\ 0 =< 2000 + whole /\ 2000 + whole =< 10000
  OBVIOUS
<1>2. /\ 200 + half \in Int /\ 0 =< 200 + half /\ 200 + half =< 10000
      /\ 5000 - half \in Int /\ 0 =< 5000 - half /\ 5000 - half =< 10000
  OBVIOUS
<1>3. /\ 10000 - (1300 + whole) - (200 + half) \in Int
      /\ 0 =< 10000 - (1300 + whole) - (200 + half) /\ 10000 - (1300 + whole) - (200 + half) =< 10000
  OBVIOUS
<1>4. /\ 10000 - (5000 - half) - (2000 + whole) \in Int
      /\ 0 =< 10000 - (5000 - half) - (2000 + whole) /\ 10000 - (5000 - half) - (2000 + whole) =< 10000
  OBVIOUS
<1>5. 1300 + whole \in Chances /\ 2000 + whole \in Chances BY <1>1, IsChance
<1>6. 200 + half \in Chances /\ 5000 - half \in Chances BY <1>2, IsChance
<1>7. 10000 - (1300 + whole) - (200 + half) \in Chances BY <1>3, IsChance
<1>8. 10000 - (5000 - half) - (2000 + whole) \in Chances BY <1>4, IsChance
<1> QED BY <1>5, <1>6, <1>7, <1>8

LEMMA HalfOf ==
  ASSUME NEW whole \in Nat, whole =< 4000
  PROVE  \E half \in Nat : half = whole \div 2 /\ half =< 2000 /\ whole =< 2 * half + 1
<1> DEFINE half == whole \div 2
<1>1. half \in Nat OBVIOUS
<1>2. half =< 2000 /\ whole =< 2 * half + 1 OBVIOUS
<1> QED BY <1>1, <1>2

LEMMA RowsStayInside == ASSUME NEW impact \in Impacts PROVE Transitions(impact) \in [States -> Rows]
<1>1. impact \in Nat /\ impact =< 4000 BY DEF Impacts
<1>2. PICK half \in Nat : half = impact \div 2 /\ half =< 2000 /\ impact =< 2 * half + 1 BY <1>1, HalfOf
<1> DEFINE hd == 1300 + impact
           hu == 200 + half
           du == 2000 + impact
           dd == 5000 - half
           hh == 10000 - hd - hu
           dh == 10000 - dd - du
<1>3. /\ Base.healthy.degraded = 1300 /\ Base.healthy.unhealthy = 200
      /\ Base.degraded.unhealthy = 2000 /\ Base.degraded.degraded = 5000
  BY DEF Base, Row
<1>4. NoMore(1300 + impact, 9500) = hd BY <1>1 DEF NoMore
<1>5. NoMore(200 + half, 9500) = hu
  <2>1. ~(200 + half > 9500) BY <1>2
  <2> QED BY <2>1 DEF NoMore
<1>6. NoMore(2000 + impact, 9500) = du BY <1>1 DEF NoMore
<1>7. NoLess(5000 - half, 500) = dd
  <2>1. ~(5000 - half < 500) BY <1>2
  <2> QED BY <2>1 DEF NoLess
<1>8. /\ hd \in Chances /\ hu \in Chances /\ hh \in Chances
      /\ du \in Chances /\ dd \in Chances /\ dh \in Chances
  <2>1. half =< 2000 /\ impact =< 2 * half + 1 BY <1>2
  <2> QED BY <1>1, <2>1, NumbersStayInside
<1>9. Base.unhealthy \in Rows
  <2>1. Base.unhealthy = Row(1000, 2000, 7000) BY DEF Base
  <2>2. 1000 \in Chances /\ 2000 \in Chances /\ 7000 \in Chances BY IsChance
  <2> QED BY <2>1, <2>2, RowIsFunction DEF Rows
<1>10. Transitions(impact) = [healthy |-> Row(hh, hd, hu), degraded |-> Row(dh, dd, du), unhealthy |-> Base.unhealthy]
  <2>1. /\ NoMore(Base.healthy.degraded + impact, 9500) = hd
        /\ NoMore(Base.degraded.unhealthy + impact, 9500) = du
    BY <1>3, <1>4, <1>6
  <2>2. NoMore(Base.healthy.unhealthy + impact \div 2, 9500) = hu BY <1>2, <1>3, <1>5
  <2>3. NoLess(Base.degraded.degraded - impact \div 2, 500) = dd BY <1>2, <1>3, <1>7
  <2> HIDE DEF hd, hu, du, dd
  <2> QED BY <2>1, <2>2, <2>3 DEF Transitions, Unit
<1> HIDE DEF hd, hu, du, dd, hh, dh
<1>11. \A h, d, u \in Chances : Row(h, d, u) \in Rows BY RowIsFunction DEF Rows
<1>12. Row(hh, hd, hu) \in Rows /\ Row(dh, dd, du) \in Rows BY <1>8, <1>11
<1>13. Row(Row(hh, hd, hu), Row(dh, dd, du), Base.unhealthy) \in [States -> Rows]
  <2>1. PICK a, b, c : a = Row(hh, hd, hu) /\ b = Row(dh, dd, du) /\ c = Base.unhealthy OBVIOUS
  <2>2. a \in Rows /\ b \in Rows /\ c \in Rows BY <1>9, <1>12, <2>1
  <2>3. Row(a, b, c) \in [States -> Rows] BY <2>2, RowIsFunction
  <2> QED BY <2>1, <2>3
<1>14. \A a, b, c : [healthy |-> a, degraded |-> b, unhealthy |-> c] = Row(a, b, c) BY DEF Row
<1> QED BY <1>10, <1>13, <1>14

LEMMA RowsMakeMatrices == ASSUME NEW f \in [States -> Rows] PROVE f \in Matrices
<1>1. \A n \in Chances : n \in Nat BY DEF Chances
<1>2. Rows \subseteq [States -> Nat] BY <1>1 DEF Rows
<1> QED BY <1>2 DEF Matrices

LEMMA CountsAreNumbers ==
  ASSUME NEW deps, deps \subseteq Services
  PROVE  Cardinality(deps) \in Counts /\ \A states, st : CountIn(deps, states, st) \in Counts
<1>1. IsFiniteSet(Services) /\ Cardinality(Services) \in Nat BY GraphAssumption, FS_CardinalityType DEF GraphAssumption
<1>2. \A T : T \subseteq Services => Cardinality(T) \in Counts
  <2> SUFFICES ASSUME NEW T, T \subseteq Services PROVE Cardinality(T) \in Counts OBVIOUS
  <2>1. IsFiniteSet(T) /\ Cardinality(T) =< Cardinality(Services) BY <1>1, FS_Subset
  <2>2. Cardinality(T) \in Nat BY <2>1, FS_CardinalityType
  <2> QED BY <1>1, <2>1, <2>2 DEF Counts
<1> QED BY <1>2 DEF CountIn

\* cascading_model.ts:50-56: a probability is never negative, so that the risk
\* collected on the way to a service is never more than its own.
LEMMA ChanceIsNumber ==
  ASSUME NEW deps, deps \subseteq Services, NEW from, dependencies[from] = deps,
         NEW current \in States, NEW states
  PROVE  UnhealthyProbability(from, current, states) \in Nat
<1> DEFINE u == CountIn(deps, states, "unhealthy")
           d == CountIn(deps, states, "degraded")
<1>1. Cardinality(deps) \in Counts /\ u \in Counts /\ d \in Counts BY CountsAreNumbers
<1>2. IsFiniteSet(Services) /\ Cardinality(Services) \in Nat BY GraphAssumption, FS_CardinalityType DEF GraphAssumption
<1>3. PICK size \in Counts, x \in Counts, y \in Counts : size = Cardinality(deps) /\ x = u /\ y = d BY <1>1
<1>4. size \in Nat /\ x \in Nat /\ y \in Nat BY <1>2 DEF Counts
<1>5. Transitions(DependencyImpact(size, x, y)) \in Matrices
  <2>1. DependencyImpact(size, x, y) \in Impacts BY <1>4, ImpactIsCapped
  <2>2. Transitions(DependencyImpact(size, x, y)) \in [States -> Rows] BY <2>1, RowsStayInside
  <2> QED BY <2>2, RowsMakeMatrices
<1>6. MatrixPower(Transitions(DependencyImpact(size, x, y)), Window) \in Matrices
  BY <1>5, PowersAreMatrices, GraphAssumption DEF GraphAssumption
<1>7. Future[size][x][y] = MatrixPower(Transitions(DependencyImpact(size, x, y)), Window) BY <1>3 DEF Future
<1>8. UnhealthyProbability(from, current, states) = Future[size][x][y][current].unhealthy
  BY <1>3 DEF UnhealthyProbability
<1>9. Future[size][x][y][current] \in [States -> Nat] BY <1>6, <1>7 DEF Matrices
<1> HIDE DEF u, d
<1> QED BY <1>8, <1>9 DEF States

(***************************************************************************)
(* Paths.                                                                  *)
(***************************************************************************)
\* A path of dependencies that never comes back.
Simple(p, s) ==
  /\ p \in Seq(allServices) /\ Len(p) >= 1 /\ p[1] = s
  /\ \A i, j \in 1..Len(p) : p[i] = p[j] => i = j
  /\ \A i \in 1..(Len(p) - 1) : p[i + 1] \in dependencies[p[i]]

LEMMA SimpleStarts == ASSUME NEW s \in allServices PROVE Simple(<<s>>, s)
<1>1. <<s>> \in Seq(allServices) /\ Len(<<s>>) = 1 /\ <<s>>[1] = s OBVIOUS
<1> QED BY <1>1 DEF Simple

LEMMA Appended ==
  ASSUME NEW S, NEW q \in Seq(S), NEW d \in S
  PROVE  /\ Append(q, d) \in Seq(S) /\ Len(Append(q, d)) = Len(q) + 1 /\ Len(q) \in Nat
         /\ \A i \in 1..Len(q) : Append(q, d)[i] = q[i]
         /\ Append(q, d)[Len(q) + 1] = d
OBVIOUS

\* cascading_model.ts:83-87: what the search goes on to is no service of the path.
LEMMA SimpleGrows ==
  ASSUME GraphTypes, MirrorsAgree, NEW s, NEW q, Simple(q, s), NEW d \in Onward(q) PROVE Simple(Append(q, d), s)
<1>1. q \in Seq(allServices) /\ Len(q) \in Nat /\ Len(q) >= 1 /\ q[1] = s /\ q[Len(q)] \in allServices BY DEF Simple
<1>2. d \in dependencies[q[Len(q)]] /\ \A i \in 1..Len(q) : q[i] # d BY <1>1 DEF Onward, Last, ToSet
<1>3. d \in allServices BY <1>1, <1>2 DEF GraphTypes, MirrorsAgree
<1> DEFINE p == Append(q, d)
<1>4. /\ p \in Seq(allServices) /\ Len(p) = Len(q) + 1
      /\ \A i \in 1..Len(q) : p[i] = q[i]
      /\ p[Len(q) + 1] = d
  BY <1>1, <1>3, Appended
<1> HIDE DEF p
<1>5. \A i \in 1..Len(p) : i \in 1..Len(q) \/ i = Len(q) + 1 BY <1>1, <1>4
<1>6. \A i, j \in 1..Len(p) : p[i] = p[j] => i = j BY <1>2, <1>4, <1>5 DEF Simple
<1>7. ASSUME NEW i \in 1..(Len(p) - 1) PROVE p[i + 1] \in dependencies[p[i]]
  <2>1. i \in 1..Len(q) BY <1>1, <1>4
  <2>2. CASE i = Len(q) BY <1>2, <1>4, <2>1, <2>2
  <2>3. CASE i # Len(q)
    <3>1. i \in 1..(Len(q) - 1) /\ i + 1 \in 1..Len(q) BY <1>1, <2>1, <2>3
    <3>2. q[i + 1] \in dependencies[q[i]] BY <3>1 DEF Simple
    <3> QED BY <1>4, <2>1, <3>1, <3>2
  <2> QED BY <2>2, <2>3
<1>8. p[1] = s /\ Len(p) >= 1 BY <1>1, <1>4
<1> QED BY <1>4, <1>6, <1>7, <1>8 DEF Simple, p

\* Every longer path comes from a shorter one in this way.
LEMMA SimpleShrinks ==
  ASSUME NEW s, NEW p, Simple(p, s), Len(p) > 1
  PROVE  \E q, d : Simple(q, s) /\ Len(q) = Len(p) - 1 /\ d \in Onward(q) /\ p = Append(q, d)
<1> DEFINE n == Len(p) - 1
           q == [i \in 1..n |-> p[i]]
           d == p[Len(p)]
<1>1. p \in Seq(allServices) /\ Len(p) \in Nat /\ n \in Nat /\ n >= 1 /\ Len(p) = n + 1 BY DEF Simple
<1>2. \A i \in 1..Len(p) : p[i] \in allServices BY <1>1
<1>3. \A i \in 1..n : i \in 1..Len(p) BY <1>1
<1>4. q \in Seq(allServices) /\ Len(q) = n /\ \A i \in 1..n : q[i] = p[i] BY <1>1, <1>2, <1>3
<1>5. d \in allServices BY <1>1, <1>2
<1>6. p = Append(q, d)
  <2> DEFINE a == Append(q, d)
  <2>1. a \in Seq(allServices) /\ Len(a) = n + 1 /\ (\A i \in 1..n : a[i] = q[i]) /\ a[n + 1] = d
    BY <1>4, <1>5, Appended
  <2> HIDE DEF a, q, d, n
  <2>2. ASSUME NEW i \in 1..(n + 1) PROVE a[i] = p[i]
    <3>1. i \in 1..n \/ i = n + 1 BY <1>1
    <3> QED BY <1>1, <1>4, <2>1, <3>1 DEF d
  <2>3. a = p BY <1>1, <2>1, <2>2
  <2> QED BY <2>3 DEF a
<1>7. Simple(q, s)
  <2>1. q[1] = s BY <1>1, <1>4 DEF Simple
  <2> HIDE DEF q, d
  <2>2. \A i, j \in 1..Len(q) : q[i] = q[j] => i = j BY <1>3, <1>4 DEF Simple
  <2>3. ASSUME NEW i \in 1..(Len(q) - 1) PROVE q[i + 1] \in dependencies[q[i]]
    <3>1. i \in 1..(Len(p) - 1) /\ i \in 1..n /\ i + 1 \in 1..n BY <1>1, <1>4
    <3>2. p[i + 1] \in dependencies[p[i]] BY <3>1 DEF Simple
    <3> QED BY <1>4, <3>1, <3>2
  <2> QED BY <1>1, <1>4, <2>1, <2>2, <2>3 DEF Simple
<1>8. d \in Onward(q)
  <2>1. Last(q) = p[n] BY <1>1, <1>4 DEF Last
  <2>2. n \in 1..(Len(p) - 1) BY <1>1
  <2>3. p[n + 1] \in dependencies[p[n]] BY <2>2 DEF Simple
  <2> HIDE DEF q, n
  <2>4. ASSUME NEW i \in 1..Len(q) PROVE q[i] # d
    <3>1. i \in 1..n /\ q[i] = p[i] BY <1>4
    <3>2. i \in 1..Len(p) /\ Len(p) \in 1..Len(p) /\ i # Len(p) BY <1>1, <3>1
    <3> QED BY <3>1, <3>2 DEF Simple
  <2>5. d \notin ToSet(q) BY <1>4, <2>4 DEF ToSet
  <2> QED BY <1>1, <2>1, <2>3, <2>5 DEF Onward
<1> QED BY <1>1, <1>4, <1>6, <1>7, <1>8

\* A path that never comes back is no longer than there are services.
LEMMA SimpleIsShort ==
  ASSUME GraphTypes, NEW s, NEW p, Simple(p, s) PROVE Len(p) =< Cardinality(allServices) /\ Cardinality(allServices) \in Nat
<1>1. IsFiniteSet(allServices) BY FS_Subset, GraphAssumption DEF GraphTypes, GraphAssumption
<1>2. Cardinality(allServices) \in Nat BY <1>1, FS_CardinalityType
<1>3. p \in Seq(allServices) /\ Len(p) \in Nat BY DEF Simple
<1>4. p \in [1..Len(p) -> allServices] BY <1>3
<1>5. IsFiniteSet(1..Len(p)) /\ Cardinality(1..Len(p)) = Len(p)
  <2>1. PICK n \in Nat : n = Len(p) BY <1>3
  <2>2. IsFiniteSet(1..n) /\ Cardinality(1..n) = IF 1 > n THEN 0 ELSE n - 1 + 1 BY FS_Interval
  <2> QED BY <2>1, <2>2
<1>6. ~(Cardinality(allServices) < Len(p)) BY <1>1, <1>4, <1>5, FS_PigeonHole DEF Simple
<1> QED BY <1>2, <1>3, <1>6

(***************************************************************************)
(* The search.                                                             *)
(***************************************************************************)
\* The risk of the last service of a path.
Own(p, states) == UnhealthyProbability(Last(p), StateOf(Last(p), states), states)

Calls == {v \in [path : Seq(Services), risk : Nat, soFar : Chances] : v.path # <<>>}

Rated(states) == \A t \in DOMAIN states : states[t] \in States

LEMMA OwnIsNumber ==
  ASSUME GraphTypes, NEW states, Rated(states), NEW p \in Seq(Services), p # <<>> PROVE Own(p, states) \in Nat
<1>1. Last(p) \in Services BY DEF Last
<1>2. PICK x \in Services : x = Last(p) BY <1>1
<1>3. dependencies[x] \subseteq Services BY DEF GraphTypes
<1>4. StateOf(x, states) \in States BY DEF StateOf, Rated, States
<1>5. UnhealthyProbability(x, StateOf(x, states), states) \in Nat BY <1>3, <1>4, ChanceIsNumber
<1> QED BY <1>2, <1>5 DEF Own

\* What is collected on the way is no more than what is there.
LEMMA ShareIsLess == ASSUME NEW a \in Chances, NEW b \in Nat PROVE (a * b) \div Unit \in Nat /\ (a * b) \div Unit =< b
<1>1. a \in Nat /\ a =< 10000 /\ Unit = 10000 BY DEF Chances, Unit
<1>2. PICK c \in Nat : c = 10000 - a BY <1>1
<1>3. a * b \in Nat /\ c * b \in Nat /\ a * b + c * b = 10000 * b
  <2>1. a * b \in Nat /\ c * b \in Nat BY <1>1, <1>2
  <2>2. a + c = 10000 BY <1>1, <1>2
  <2>3. (a + c) * b = a * b + c * b BY <1>1, <1>2
  <2> QED BY <2>1, <2>2, <2>3
<1>4. PICK x \in Nat : x = a * b BY <1>3
<1>5. x =< 10000 * b BY <1>3, <1>4
<1>6. x \div 10000 \in Nat /\ x \div 10000 =< b BY <1>5
<1> QED BY <1>1, <1>4, <1>6

LEMMA VisitIs ==
  ASSUME GraphTypes, NEW states, Rated(states), NEW p \in Seq(Services), p # <<>>, NEW soFar \in Chances
  PROVE  /\ Visit(p, soFar, states) \in Calls
         /\ Visit(p, soFar, states).path = p
         /\ Visit(p, soFar, states).risk = Own(p, states)
<1>1. PICK here \in Nat : here = Own(p, states) BY OwnIsNumber
<1>2. PICK product \in Nat : product = (soFar * here) \div Unit /\ product =< here BY ShareIsLess
<1>3. NoLess(here, product) = here BY <1>2 DEF NoLess
<1>4. NoMore(product, Unit) \in Chances
  <2>1. Unit \in Nat BY DEF Unit
  <2> QED BY <2>1 DEF NoMore, Chances
<1>5. Visit(p, soFar, states) = [path |-> p, risk |-> NoLess(here, product), soFar |-> NoMore(product, Unit)]
  BY <1>1, <1>2 DEF Visit, Own
<1> QED BY <1>1, <1>3, <1>4, <1>5 DEF Calls

\* The calls that some calls make.
Deeper(outer, states) ==
  outer \cup UNION {{Visit(Append(v.path, d), v.soFar, states) : d \in Onward(v.path)} : v \in outer}

LEMMA CallsCall ==
  ASSUME GraphTypes, NEW states, Rated(states), NEW v \in Calls, NEW d \in Onward(v.path)
  PROVE  /\ Visit(Append(v.path, d), v.soFar, states) \in Calls
         /\ Visit(Append(v.path, d), v.soFar, states).path = Append(v.path, d)
         /\ Visit(Append(v.path, d), v.soFar, states).risk = Own(Append(v.path, d), states)
<1>1. v.path \in Seq(Services) /\ v.path # <<>> /\ v.soFar \in Chances BY DEF Calls
<1>2. Last(v.path) \in Services BY <1>1 DEF Last
<1>3. d \in Services BY <1>2 DEF Onward, GraphTypes
<1>4. Append(v.path, d) \in Seq(Services) /\ Append(v.path, d) # <<>> BY <1>1, <1>3
<1> QED BY <1>1, <1>4, VisitIs

LEMMA SearchIs ==
  ASSUME GraphTypes, NEW states, Rated(states), NEW s \in Services
  PROVE  LET search == Search(s, states)
         IN  /\ search \in [Nat -> SUBSET Calls]
             /\ search[0] = {Visit(<<s>>, Unit, states)}
             /\ \A n \in Nat : search[n + 1] = Deeper(search[n], states)
<1> DEFINE D == SUBSET Calls
           A == {Visit(<<s>>, Unit, states)}
           F == [X \in D |-> Deeper(X, states)]
           calls == CHOOSE calls : calls = [n \in Nat |-> IF n = 0 THEN A ELSE Deeper(calls[n - 1], states)]
<1>1. A \in D
  <2>1. Unit \in Chances BY DEF Unit, Chances
  <2>2. <<s>> \in Seq(Services) /\ <<s>> # <<>> OBVIOUS
  <2>3. Visit(<<s>>, Unit, states) \in Calls BY <2>1, <2>2, VisitIs
  <2> QED BY <2>3
<1>2. ASSUME NEW X \in D PROVE Deeper(X, states) \in D
  <2>1. ASSUME NEW v \in X, NEW d \in Onward(v.path) PROVE Visit(Append(v.path, d), v.soFar, states) \in Calls
    <3>1. v \in Calls BY <1>2
    <3> QED BY <3>1, CallsCall
  <2> QED BY <1>2, <2>1 DEF Deeper
<1>3. F \in [D -> D] BY <1>2
<1>4. PICK g \in [Nat -> D] : g = [k \in Nat |-> IF k = 0 THEN A ELSE F[g[k - 1]]]
  <2> HIDE DEF D, A, F
  <2> QED BY <1>1, <1>3, LoopExists
<1>5. \A X \in D : F[X] = Deeper(X, states) OBVIOUS
<1> HIDE DEF A, F, D
<1>6. g = [k \in Nat |-> IF k = 0 THEN A ELSE Deeper(g[k - 1], states)]
  <2>1. \A k \in Nat : k # 0 => g[k - 1] \in D BY <1>4
  <2> QED BY <1>4, <1>5, <2>1
<1>7. calls = [k \in Nat |-> IF k = 0 THEN A ELSE Deeper(calls[k - 1], states)] BY <1>6
<1>8. Search(s, states) = calls BY DEF Search, Deeper, A
<1> HIDE DEF calls
<1>9. calls[0] = A /\ \A n \in Nat : calls[n + 1] = Deeper(calls[n], states)
  <2>1. \A n \in Nat : n + 1 \in Nat /\ n + 1 # 0 /\ (n + 1) - 1 = n OBVIOUS
  <2> QED BY <1>7, <2>1
<1> DEFINE T == {n \in Nat : calls[n] \in D}
<1>10. T = Nat
  <2>1. 0 \in T BY <1>1, <1>9
  <2>2. \A n \in T : n + 1 \in T BY <1>2, <1>9
  <2>3. T \in SUBSET Nat OBVIOUS
  <2> HIDE DEF T
  <2> QED BY <2>1, <2>2, <2>3, AllNumbers
<1>11. calls \in [Nat -> D] BY <1>7, <1>10
<1> QED BY <1>8, <1>9, <1>11 DEF A, D

\* cascading_model.ts:58-92: nested at most n deep, the search has visited the
\* paths of at most n + 1 services that never come back.
LEMMA SearchVisits ==
  ASSUME GraphTypes, MirrorsAgree, NEW states, Rated(states), NEW s \in allServices, NEW n \in Nat
  PROVE  /\ \A v \in Search(s, states)[n] : Simple(v.path, s) /\ v.risk = Own(v.path, states)
         /\ \A p : Simple(p, s) /\ Len(p) =< n + 1 => \E v \in Search(s, states)[n] : v.path = p
<1> DEFINE search == Search(s, states)
           Right(k) == /\ \A v \in search[k] : Simple(v.path, s) /\ v.risk = Own(v.path, states)
                       /\ \A p : Simple(p, s) /\ Len(p) =< k + 1 => \E v \in search[k] : v.path = p
           T == {k \in Nat : Right(k)}
<1>0. s \in Services BY DEF GraphTypes
<1>1. /\ search \in [Nat -> SUBSET Calls]
      /\ search[0] = {Visit(<<s>>, Unit, states)}
      /\ \A k \in Nat : search[k + 1] = Deeper(search[k], states)
  BY <1>0, SearchIs
<1> HIDE DEF search
<1>2. Right(0)
  <2>1. Unit \in Chances BY DEF Unit, Chances
  <2>2. <<s>> \in Seq(Services) /\ <<s>> # <<>> BY <1>0
  <2> DEFINE v == Visit(<<s>>, Unit, states)
  <2>3. v.path = <<s>> /\ v.risk = Own(<<s>>, states) BY <2>1, <2>2, VisitIs
  <2> HIDE DEF v
  <2>4. search[0] = {v} BY <1>1 DEF v
  <2>5. Simple(<<s>>, s) BY SimpleStarts
  <2>6. ASSUME NEW p, Simple(p, s), Len(p) =< 0 + 1 PROVE p = <<s>>
    <3>1. p \in Seq(allServices) /\ Len(p) >= 1 /\ p[1] = s BY <2>6 DEF Simple
    <3>2. Len(p) \in Nat BY <3>1
    <3>3. Len(p) = 1
      <4>1. PICK m \in Nat : m = Len(p) BY <3>2
      <4>2. m =< 0 + 1 BY <2>6, <4>1
      <4>3. m >= 1 BY <3>1, <4>1
      <4> QED BY <4>1, <4>2, <4>3
    <3>4. DOMAIN p = {1} /\ p = [i \in DOMAIN p |-> p[i]] BY <3>1, <3>3
    <3>5. DOMAIN <<s>> = {1} /\ <<s>> = [i \in DOMAIN <<s>> |-> <<s>>[i]] /\ <<s>>[1] = s OBVIOUS
    <3> QED BY <3>1, <3>4, <3>5
  <2> QED BY <2>3, <2>4, <2>5, <2>6
<1>3. ASSUME NEW k \in Nat, Right(k) PROVE Right(k + 1)
  <2>1. search[k] \subseteq Calls /\ search[k + 1] = Deeper(search[k], states) BY <1>1
  <2>2. ASSUME NEW w \in search[k + 1] PROVE Simple(w.path, s) /\ w.risk = Own(w.path, states)
    <3>1. CASE w \in search[k] BY <1>3, <3>1
    <3>2. CASE w \notin search[k]
      <4>0. PICK v \in search[k] : \E d \in Onward(v.path) : w = Visit(Append(v.path, d), v.soFar, states)
        BY <2>1, <2>2, <3>2 DEF Deeper
      <4>1. PICK d \in Onward(v.path) : w = Visit(Append(v.path, d), v.soFar, states) BY <4>0
      <4>2. v \in Calls /\ Simple(v.path, s) BY <1>3, <2>1
      <4>3. w.path = Append(v.path, d) /\ w.risk = Own(Append(v.path, d), states) BY <4>1, <4>2, CallsCall
      <4>4. Simple(Append(v.path, d), s) BY <4>2, SimpleGrows
      <4> QED BY <4>3, <4>4
    <3> QED BY <3>1, <3>2
  <2>3. ASSUME NEW p, Simple(p, s), Len(p) =< (k + 1) + 1 PROVE \E w \in search[k + 1] : w.path = p
    <3>1. Len(p) \in Nat /\ Len(p) >= 1 BY <2>3 DEF Simple
    <3>2. CASE Len(p) =< k + 1
      <4>1. PICK v \in search[k] : v.path = p BY <1>3, <2>3, <3>2
      <4> QED BY <2>1, <4>1 DEF Deeper
    <3>3. CASE ~(Len(p) =< k + 1)
      <4>1. Len(p) > 1 /\ Len(p) - 1 =< k + 1 BY <2>3, <3>1, <3>3
      <4>2. PICK q, d : Simple(q, s) /\ Len(q) = Len(p) - 1 /\ d \in Onward(q) /\ p = Append(q, d)
        BY <2>3, <4>1, SimpleShrinks
      <4>3. PICK v \in search[k] : v.path = q BY <1>3, <4>1, <4>2
      <4> DEFINE w == Visit(Append(v.path, d), v.soFar, states)
      <4>4. d \in Onward(v.path) /\ v \in Calls BY <2>1, <4>2, <4>3
      <4>5. w.path = p BY <4>2, <4>3, <4>4, CallsCall
      <4>6. w \in search[k + 1] BY <2>1, <4>3, <4>4 DEF Deeper
      <4> QED BY <4>5, <4>6
    <3> QED BY <3>2, <3>3
  <2> QED BY <2>2, <2>3
<1>4. T = Nat
  <2>1. 0 \in T BY <1>2
  <2>2. \A k \in T : k + 1 \in T BY <1>3
  <2>3. T \in SUBSET Nat OBVIOUS
  <2> HIDE DEF T
  <2> QED BY <2>1, <2>2, <2>3, AllNumbers
<1>5. Right(n) BY <1>4
<1> QED BY <1>5 DEF search

\* cascading_model.ts:58-92: the search finds the simple paths that end at a
\* service whose own risk is over the threshold, in any graph.
LEMMA RiskyAreSimple ==
  ASSUME GraphTypes, MirrorsAgree, NEW states, Rated(states), NEW s \in allServices
  PROVE  Risky(s, states) = {p \in SimplePaths(s) : Own(p, states) > Threshold}
<1> DEFINE N == Cardinality(allServices)
           found == Search(s, states)[N]
<1>1. N \in Nat
  <2>1. IsFiniteSet(allServices) BY FS_Subset, GraphAssumption DEF GraphTypes, GraphAssumption
  <2> QED BY <2>1, FS_CardinalityType
<1>2. /\ \A v \in found : Simple(v.path, s) /\ v.risk = Own(v.path, states)
      /\ \A p : Simple(p, s) /\ Len(p) =< N + 1 => \E v \in found : v.path = p
  BY <1>1, SearchVisits
<1>3. \A p : Simple(p, s) => Len(p) =< N /\ Len(p) =< N + 1
  <2> SUFFICES ASSUME NEW p, Simple(p, s) PROVE Len(p) =< N /\ Len(p) =< N + 1 OBVIOUS
  <2>1. Len(p) =< N BY SimpleIsShort
  <2>2. Len(p) \in Nat BY DEF Simple
  <2> QED BY <1>1, <2>1, <2>2
<1>4. Risky(s, states) = {v.path : v \in {w \in found : Len(w.path) > 1 /\ w.risk > Threshold}}
  BY DEF Risky, RiskyPaths
<1> HIDE DEF N, found
<1>5. \A p : p \in SimplePaths(s) <=> Simple(p, s) /\ Len(p) > 1
  <2> SUFFICES ASSUME NEW p PROVE p \in SimplePaths(s) <=> Simple(p, s) /\ Len(p) > 1 OBVIOUS
  <2>1. ASSUME p \in SimplePaths(s) PROVE Simple(p, s) /\ Len(p) > 1
    <3>1. PICK n \in 2..N : p \in [1..n -> allServices] BY <2>1 DEF SimplePaths, N
    <3>2. n \in Nat /\ n > 1 BY <1>1, <3>1
    <3>3. p \in Seq(allServices) /\ Len(p) = n BY <3>1, <3>2
    <3> QED BY <2>1, <3>1, <3>2, <3>3 DEF SimplePaths, Simple
  <2>2. ASSUME Simple(p, s), Len(p) > 1 PROVE p \in SimplePaths(s)
    <3>1. p \in Seq(allServices) /\ Len(p) \in Nat BY <2>2 DEF Simple
    <3>2. Len(p) \in 2..N BY <1>1, <1>3, <2>2, <3>1
    <3>3. p \in [1..Len(p) -> allServices] /\ DOMAIN p = 1..Len(p) BY <3>1
    <3>4. p \in UNION {[1..n -> allServices] : n \in 2..N} BY <3>2, <3>3
    <3> QED BY <2>2, <3>3, <3>4 DEF SimplePaths, Simple, N
  <2> QED BY <2>1, <2>2
<1>6. ASSUME NEW p PROVE p \in Risky(s, states) <=> p \in SimplePaths(s) /\ Own(p, states) > Threshold
  <2>1. ASSUME p \in Risky(s, states) PROVE p \in SimplePaths(s) /\ Own(p, states) > Threshold
    <3>1. PICK v \in found : v.path = p /\ Len(v.path) > 1 /\ v.risk > Threshold BY <1>4, <2>1
    <3> QED BY <1>2, <1>5, <3>1
  <2>2. ASSUME p \in SimplePaths(s), Own(p, states) > Threshold PROVE p \in Risky(s, states)
    <3>1. Simple(p, s) /\ Len(p) > 1 BY <1>5, <2>2
    <3>2. PICK v \in found : v.path = p BY <1>2, <1>3, <3>1
    <3>3. v.risk = Own(p, states) BY <1>2, <3>2
    <3> QED BY <1>4, <2>2, <3>1, <3>2, <3>3
  <2> QED BY <2>1, <2>2
<1> QED BY <1>6

(***************************************************************************)
(* The risks.                                                              *)
(***************************************************************************)
LEMMA ScoresAreStates == ASSUME StatesFollowResults PROVE Rated(serviceStates)
BY DEF StatesFollowResults, Rated, DetermineOverallState, States

LEMMA RowsAreRight == ASSUME GraphTypes PROVE RowsAreDistributions
<1> SUFFICES ASSUME NEW s \in allServices, NEW from \in States, NEW to \in States
             PROVE  LET deps == dependencies[s]
                        impact == DependencyImpact(Cardinality(deps), CountIn(deps, serviceStates, "unhealthy"),
                                                   CountIn(deps, serviceStates, "degraded"))
                    IN  Transitions(impact)[from][to] \in 0..Unit
  BY DEF RowsAreDistributions
<1> DEFINE deps == dependencies[s]
           u == CountIn(deps, serviceStates, "unhealthy")
           g == CountIn(deps, serviceStates, "degraded")
           impact == DependencyImpact(Cardinality(deps), u, g)
<1>1. deps \subseteq Services BY DEF GraphTypes
<1>2. Cardinality(deps) \in Counts /\ u \in Counts /\ g \in Counts BY <1>1, CountsAreNumbers
<1>3. \A n \in Counts : n \in Nat
  <2>1. Cardinality(Services) \in Nat BY GraphAssumption, FS_CardinalityType DEF GraphAssumption
  <2> QED BY <2>1 DEF Counts
<1>4. impact \in Impacts BY <1>2, <1>3, ImpactIsCapped
<1> HIDE DEF impact
<1>5. Transitions(impact) \in [States -> Rows] BY <1>4, RowsStayInside
<1>6. Transitions(impact)[from][to] \in Chances BY <1>5 DEF Rows
<1> QED BY <1>6 DEF Chances, impact

LEMMA PathsAreRight == ASSUME HealthInv PROVE PathsAreExact
<1>1. Rated(serviceStates) BY ScoresAreStates DEF HealthInv
<1> SUFFICES ASSUME NEW s \in allServices
             PROVE  Risky(s, serviceStates) =
                      {p \in SimplePaths(s) : UnhealthyProbability(Last(p), StateOf(Last(p), serviceStates), serviceStates) > Threshold}
  BY DEF PathsAreExact
<1> QED BY <1>1, RiskyAreSimple DEF HealthInv, Own

\* cascading_model.ts:50-135, aggregator.ts:131-144: in any graph, and whatever
\* rounds overlap, the dependents mirror the dependencies, the states are those
\* of the newest results, every row is of probabilities, and the search finds
\* exactly the simple paths that end in a risk over the threshold.
THEOREM RisksAreComputed ==
  HealthSpec => [](MirrorsAgree /\ StatesFollowResults /\ RowsAreDistributions /\ PathsAreExact)
<1>1. HealthInv => MirrorsAgree /\ StatesFollowResults /\ RowsAreDistributions /\ PathsAreExact
  BY RowsAreRight, PathsAreRight DEF HealthInv
<1> QED BY <1>1, HealthInvariant, PTL

\* Health: states, results, rounds and alerts are of services that are monitored,
\* and no older or newer than the clock.
LEMMA HealthTypes == HealthSpec => []HealthTypeOK
<1>1. HealthInv => HealthTypeOK
  <2> SUFFICES ASSUME HealthInv PROVE HealthTypeOK OBVIOUS
  <2>1. \A s \in DOMAIN serviceStates : serviceStates[s] \in States BY ScoresAreStates DEF HealthInv, Rated
  <2> QED BY <2>1 DEF HealthInv, GraphTypes, RoundTypes, HealthTypeOK
<1> QED BY <1>1, HealthInvariant, PTL

(***************************************************************************)
(* The services together: each goes its own way, so what holds of each     *)
(* alone holds of all of them, their types first.                          *)
(***************************************************************************)

\* MCServices: in every behaviour of the services together, each of them follows
\* its own specification, so that every theorem above holds there too.
THEOREM EachServiceBehaves ==
  Spec => /\ GatewaySpec /\ LimiterSpec /\ TenantSpec /\ MintSpec /\ AuditSpec /\ CatchupSpec /\ HealthSpec
<1>1. Init => GatewayInit /\ LimiterInit /\ TenantInit /\ MintInit /\ AuditInit /\ CatchupInit /\ HealthInit
  BY DEF Init
<1>2. [Next]_servicesVars => [GatewayNext]_gatewayVars BY DEF Next, servicesVars
<1>3. [Next]_servicesVars => [LimiterNext]_limiterVars BY DEF Next, servicesVars
<1>4. [Next]_servicesVars => [TenantNext]_tenantVars BY DEF Next, servicesVars
<1>5. [Next]_servicesVars => [MintNext]_mintVars BY DEF Next, servicesVars
<1>6. [Next]_servicesVars => [AuditNext]_auditVars BY DEF Next, servicesVars
<1>7. [Next]_servicesVars => [CatchupNext]_catchupVars BY DEF Next, servicesVars
<1>8. [Next]_servicesVars => [HealthNext]_healthVars BY DEF Next, servicesVars
<1> QED
  BY <1>1, <1>2, <1>3, <1>4, <1>5, <1>6, <1>7, <1>8, PTL
  DEF Spec, GatewaySpec, LimiterSpec, TenantSpec, MintSpec, AuditSpec, CatchupSpec, HealthSpec

\* Sensor gateway: levels, sockets, the window and the intervals have their types.
LEMMA GatewayTypes == GatewaySpec => []GatewayTypeOK
<1>1. FlagInv => GatewayTypeOK
  BY DEF FlagInv, LevelTypes, SocketTypes, StreamTypes, GatewayTypeOK
<1> QED BY FlagInit, FlagStep, <1>1, PTL DEF GatewaySpec

\* Audit log: rows, commits, locks and writers have their types.
LEMMA AuditTypesHold == AuditSpec => []AuditTypeOK
<1>1. AuditInv => AuditTypeOK
  BY DEF AuditInv, AuditTypes, AuditTypeOK, LockKeys, AuditPCs
<1> QED BY AuditInitInv, AuditStep, <1>1, PTL DEF AuditSpec

\* mintService.ts:22-27, 81-85: the calls under way, and the clients nobody gave
\* back, are clients of the pool.
Running == {c \in MintCalls : call[c].pc \in Underway}
ClientsAreThePools == IsFiniteSet(Running) /\ Cardinality(Running) + leaked <= PoolClients

\* The lock of a batch is one session's at most.
OneHolder == \A b \in Batches : mintLock[b] = {} \/ \E c \in MintCalls : mintLock[b] = {c}

\* A call that goes on, one that begins and one that ends.
LEMMA GoesOn ==
  ASSUME ClientsAreThePools, NEW c \in MintCalls, call[c].pc \in Underway, leaked' = leaked,
         call'[c].pc \in Underway, \A d \in MintCalls \ {c} : call'[d] = call[d]
  PROVE  ClientsAreThePools'
<1>1. Running' = Running BY DEF Running
<1> QED BY <1>1 DEF ClientsAreThePools

LEMMA Begins ==
  ASSUME ClientsAreThePools, leaked \in Nat, NEW c \in MintCalls, call[c].pc \notin Underway,
         leaked' = leaked, Cardinality(Running) + leaked < PoolClients,
         call'[c].pc \in Underway, \A d \in MintCalls \ {c} : call'[d] = call[d]
  PROVE  ClientsAreThePools'
<1>1. Running' = Running \cup {c} /\ c \notin Running BY DEF Running
<1>2. IsFiniteSet(Running') /\ Cardinality(Running') = Cardinality(Running) + 1
  BY <1>1, FS_AddElement DEF ClientsAreThePools
<1>3. Cardinality(Running) \in Nat BY FS_CardinalityType DEF ClientsAreThePools
<1> QED BY <1>2, <1>3, ClientsAssumption DEF ClientsAreThePools, ClientsAssumption

LEMMA Ends ==
  ASSUME ClientsAreThePools, leaked \in Nat, NEW c \in MintCalls, call[c].pc \in Underway,
         leaked' \in {leaked, leaked + 1},
         call'[c].pc \notin Underway, \A d \in MintCalls \ {c} : call'[d] = call[d]
  PROVE  ClientsAreThePools'
<1>1. Running' = Running \ {c} /\ c \in Running BY DEF Running
<1>2. IsFiniteSet(Running') /\ Cardinality(Running') = Cardinality(Running) - 1
  BY <1>1, FS_RemoveElement DEF ClientsAreThePools
<1>3. Cardinality(Running) \in Nat BY FS_CardinalityType DEF ClientsAreThePools
<1> QED BY <1>2, <1>3, ClientsAssumption DEF ClientsAreThePools, ClientsAssumption

LEMMA ClientsStep ==
  ASSUME MintInv, ClientsAreThePools, [MintNext]_mintVars
  PROVE  ClientsAreThePools'
<1>1. call \in [MintCalls -> Call_] /\ leaked \in Nat BY DEF MintInv, MintTypes
<1>2. \A c \in MintCalls : /\ call[c].pc \in MintPCs /\ call[c].batch \in Batches
                           /\ call[c].id \in Nat /\ certificates[call[c].batch] \in MintRow
  BY CallIs DEF MintInv
<1>3. {"check", "insert", "recheck", "mint", "catch", "unlock", "lock", "update", "done", "lost", "doomed"} \subseteq MintPCs
  BY DEF MintPCs, Underway
<1>4. ASSUME NEW c \in MintCalls, NEW b \in Batches, Mint(c, b) PROVE ClientsAreThePools'
  <2>1. call' = [call EXCEPT ![c] = [call[c] EXCEPT !.pc = "lock", !.batch = b]]
        /\ leaked' = leaked /\ call[c].pc = "idle" /\ Cardinality(Running) + leaked < PoolClients
    BY <1>4 DEF Mint, IsUnderway, Running
  <2>2. call'[c].pc = "lock" /\ \A d \in MintCalls \ {c} : call'[d] = call[d]
    BY <1>1, <2>1 DEF Call_
  <2>3. "lock" \in Underway /\ "idle" \notin Underway BY DEF Underway
  <2> QED BY <1>1, <2>1, <2>2, <2>3, Begins
\* A call under way moves on.
<1>5. ASSUME NEW c \in MintCalls, call[c].pc \in Underway, NEW pc \in Underway, NEW answer,
             Moves(c, pc, answer), leaked' = leaked
      PROVE  ClientsAreThePools'
  BY <1>5, GoesOn DEF Moves
<1>6. ASSUME NEW c \in MintCalls, Lock(c) PROVE ClientsAreThePools'
  <2>1. PICK pc \in {"check", "catch"} : Goto(c, pc) BY <1>6 DEF Lock
  <2>2. Moves(c, pc, call[c].answer) BY <1>1, <1>3, <2>1, GotoMoves
  <2>3. leaked' = leaked /\ call[c].pc \in Underway BY <1>6 DEF Lock, Underway
  <2> QED BY <1>5, <2>2, <2>3 DEF Underway
<1>7. ASSUME NEW c \in MintCalls, Check(c) \/ Recheck(c) PROVE ClientsAreThePools'
  <2>1. leaked' = leaked /\ \E pc \in {"insert", "catch"} : AnswerFrom(c, certificates[call[c].batch], Goto(c, pc))
    BY <1>7 DEF Check, Recheck
  <2>2. \E pc \in {"unlock", "insert", "catch"}, answer \in Nat : Moves(c, pc, answer)
    <3>1. call[c].answer \in Nat /\ certificates[call[c].batch].id \in Nat BY <1>1, <1>2 DEF Call_, MintRow
    <3> QED BY <1>1, <1>2, <1>3, <2>1, <3>1, AnswerFromMoves
  <2>3. PICK pc \in {"unlock", "insert", "catch"}, answer \in Nat : Moves(c, pc, answer) BY <2>2
  <2>4. pc \in Underway /\ call[c].pc \in Underway BY <1>7 DEF Underway, Check, Recheck
  <2> QED BY <1>5, <2>1, <2>3, <2>4
<1>16. ASSUME NEW c \in MintCalls, InsertIntent(c) PROVE ClientsAreThePools'
  <2>1. leaked' = leaked /\ \E pc \in {"mint", "recheck"} : Goto(c, pc)
    BY <1>16 DEF InsertIntent
  <2>2. PICK pc \in {"mint", "recheck"} : Goto(c, pc) BY <2>1
  <2>3. Moves(c, pc, call[c].answer) BY <1>1, <1>3, <2>2, GotoMoves
  <2>4. pc \in Underway /\ call[c].pc \in Underway BY <1>16 DEF Underway, InsertIntent
  <2> QED BY <1>5, <2>1, <2>3, <2>4
<1>8. ASSUME NEW c \in MintCalls, StatementFails(c) PROVE ClientsAreThePools'
  <2>1. Moves(c, "catch", call[c].answer) BY <1>1, <1>3, <1>8, GotoMoves DEF StatementFails
  <2>2. leaked' = leaked /\ call[c].pc \in Underway BY <1>8 DEF StatementFails, Underway
  <2> QED BY <1>5, <2>1, <2>2 DEF Underway
<1>9. ASSUME NEW c \in MintCalls, RecordCertificate(c) \/ Catch(c) \/ CatchFails(c) PROVE ClientsAreThePools'
  <2>1. leaked' = leaked /\ call[c].pc \in Underway /\ \E id \in Nat : Answer(c, id)
    BY <1>2, <1>9 DEF RecordCertificate, Catch, CatchFails, Underway
  <2>2. PICK id \in Nat : Moves(c, "unlock", id) BY <1>1, <2>1, AnswerMoves
  <2> QED BY <1>5, <2>1, <2>2 DEF Underway
<1>10. ASSUME NEW c \in MintCalls, Unlock(c) PROVE ClientsAreThePools'
  <2>1. Moves(c, "done", call[c].answer) BY <1>1, <1>3, <1>10, GotoMoves DEF Unlock
  <2>2. leaked' = leaked /\ call[c].pc \in Underway /\ "done" \notin Underway BY <1>10 DEF Unlock, Underway
  <2> QED BY <1>1, <2>1, <2>2, Ends DEF Moves
<1>11. ASSUME NEW c \in MintCalls, UnlockFails(c) PROVE ClientsAreThePools'
  <2>1. Moves(c, "lost", call[c].answer) BY <1>1, <1>3, <1>11, GotoMoves DEF UnlockFails
  <2>2. leaked' = leaked + 1 /\ call[c].pc \in Underway /\ "lost" \notin Underway
    BY <1>11 DEF UnlockFails, Underway
  <2> QED BY <1>1, <2>1, <2>2, Ends DEF Moves
<1>12. ASSUME NEW c \in MintCalls, ConnectionLost(c) PROVE ClientsAreThePools'
  <2>1. call[c].pc \in Underway BY <1>12 DEF ConnectionLost, IsUnderway
  <2>2. CASE call[c].pc = "mint"
    <3>1. Goto(c, "doomed") /\ leaked' = leaked BY <1>1, <1>12, <2>2 DEF ConnectionLost
    <3>2. Moves(c, "doomed", call[c].answer) BY <1>1, <1>3, <3>1, GotoMoves
    <3> QED BY <1>5, <2>1, <3>1, <3>2 DEF Underway
  <2>3. CASE call[c].pc # "mint"
    <3>1. Goto(c, "lost") /\ leaked' = leaked + 1 BY <1>1, <1>12, <2>3 DEF ConnectionLost
    <3>2. Moves(c, "lost", call[c].answer) BY <1>1, <1>3, <3>1, GotoMoves
    <3>3. "lost" \notin Underway BY DEF Underway
    <3> QED BY <1>1, <2>1, <3>1, <3>2, <3>3, Ends DEF Moves
  <2> QED BY <2>2, <2>3
<1>13. ASSUME NEW c \in MintCalls, SorobanMint(c) PROVE ClientsAreThePools'
  <2>1. PICK id : id = Cardinality(minted) + 1 OBVIOUS
  <2>2. /\ call[c].pc \in {"mint", "doomed"}
        /\ call' = [call EXCEPT ![c].pc = IF @ = "mint" THEN "update" ELSE "lost", ![c].id = id]
        /\ leaked' = leaked + (IF call[c].pc = "doomed" THEN 1 ELSE 0)
    BY <1>13, <2>1 DEF SorobanMint
  <2>3. call' = [call EXCEPT ![c] = [call[c] EXCEPT !.pc = IF call[c].pc = "mint" THEN "update" ELSE "lost", !.id = id]]
    BY <2>2
  <2>4. /\ call'[c].pc = IF call[c].pc = "mint" THEN "update" ELSE "lost"
        /\ \A d \in MintCalls \ {c} : call'[d] = call[d]
    <3>1. call[c] \in Call_ BY <1>1
    <3>2. call'[c] = [call[c] EXCEPT !.pc = IF call[c].pc = "mint" THEN "update" ELSE "lost", !.id = id]
      BY <1>1, <2>3
    <3> QED BY <1>1, <2>3, <3>1, <3>2 DEF Call_
  <2>5. {"mint", "doomed", "update"} \subseteq Underway /\ "lost" \notin Underway BY DEF Underway
  <2>6. CASE call[c].pc = "mint"
    <3>1. leaked' = leaked BY <1>1, <2>2, <2>6
    <3> QED BY <2>4, <2>5, <2>6, <3>1, GoesOn
  <2>7. CASE call[c].pc = "doomed"
    <3>1. leaked' = leaked + 1 BY <1>1, <2>2, <2>7
    <3> QED BY <1>1, <2>4, <2>5, <2>7, <3>1, Ends
  <2> QED BY <2>2, <2>6, <2>7
<1>14. CASE ProcessDies
  <2>1. call' = [c \in MintCalls |-> IF IsUnderway(c) THEN [call[c] EXCEPT !.pc = "lost"] ELSE call[c]] /\ leaked' = 0
    BY <1>14 DEF ProcessDies
  <2>2. ASSUME NEW c \in MintCalls PROVE call'[c].pc \notin Underway
    <3>1. [call[c] EXCEPT !.pc = "lost"].pc = "lost" BY <1>1 DEF Call_
    <3>2. "lost" \notin Underway BY DEF Underway
    <3> QED BY <2>1, <3>1, <3>2 DEF IsUnderway
  <2>3. Running' = {} BY <2>2 DEF Running
  <2>4. IsFiniteSet({}) /\ Cardinality({}) = 0 BY FS_EmptySet
  <2> QED BY <2>1, <2>3, <2>4, ClientsAssumption DEF ClientsAreThePools, ClientsAssumption
<1>15. CASE UNCHANGED mintVars BY <1>15 DEF mintVars, ClientsAreThePools, Running
<1> QED BY <1>4, <1>6, <1>7, <1>8, <1>9, <1>10, <1>11, <1>12, <1>13, <1>14, <1>15, <1>16, BatchesAssumption
        DEF MintNext, Poll

LEMMA HolderStep == ASSUME MintInv, OneHolder, [MintNext]_mintVars PROVE OneHolder'
<1>0. mintLock \in [Batches -> SUBSET MintCalls] BY DEF MintInv, MintTypes
<1>1. ASSUME NEW c \in MintCalls, mintLock' = [b \in Batches |-> mintLock[b] \ {c}] PROVE OneHolder'
  BY <1>0, <1>1 DEF OneHolder
<1>2. ASSUME NEW c \in MintCalls, Lock(c) PROVE OneHolder'
  <2>1. PICK b : b = call[c].batch OBVIOUS
  <2>2. mintLock' = mintLock \/ mintLock' = [mintLock EXCEPT ![b] = {c}] BY <1>2, <2>1 DEF Lock
  <2> QED BY <1>0, <2>2 DEF OneHolder
<1>3. CASE ProcessDies BY <1>3 DEF ProcessDies, OneHolder
<1>4. ASSUME UNCHANGED mintLock PROVE OneHolder' BY <1>4 DEF OneHolder
<1>5. ASSUME NEW c \in MintCalls, Unlock(c) \/ ConnectionLost(c) PROVE OneHolder'
  BY <1>1, <1>5 DEF Unlock, ConnectionLost
<1>6. ASSUME NEW c \in MintCalls,
             \/ \E b \in Batches : Mint(c, b)
             \/ Check(c) \/ InsertIntent(c) \/ Recheck(c) \/ SorobanMint(c) \/ RecordCertificate(c)
             \/ Catch(c) \/ StatementFails(c) \/ CatchFails(c) \/ UnlockFails(c)
      PROVE  UNCHANGED mintLock
  BY <1>6 DEF Mint, Check, InsertIntent, Recheck, SorobanMint, RecordCertificate, Catch, StatementFails, CatchFails,
              UnlockFails
<1>7. CASE UNCHANGED mintVars BY <1>4, <1>7 DEF mintVars
<1> QED BY <1>2, <1>3, <1>4, <1>5, <1>6, <1>7, BatchesAssumption DEF MintNext, Poll

\* Certificate minting: rows, locks and calls have their types, a lock has one
\* holder at most and no more clients are lost than the pool has.
LEMMA MintTypesHold == MintSpec => []MintTypeOK
<1>1. MintInit => ClientsAreThePools /\ OneHolder
  <2> SUFFICES ASSUME MintInit PROVE ClientsAreThePools /\ OneHolder OBVIOUS
  <2>1. Running = {} /\ leaked = 0 /\ \A b \in Batches : mintLock[b] = {} BY DEF MintInit, Running, Underway
  <2>2. IsFiniteSet({}) /\ Cardinality({}) = 0 BY FS_EmptySet
  <2> QED BY <2>1, <2>2, ClientsAssumption DEF ClientsAreThePools, OneHolder, ClientsAssumption
<1>2. MintInv /\ ClientsAreThePools /\ [MintNext]_mintVars => ClientsAreThePools' BY ClientsStep
<1>3. MintInv /\ OneHolder /\ [MintNext]_mintVars => OneHolder' BY HolderStep
<1>4. MintInv /\ ClientsAreThePools /\ OneHolder => MintTypeOK
  <2> SUFFICES ASSUME MintInv, ClientsAreThePools, OneHolder PROVE MintTypeOK OBVIOUS
  <2>1. \A c \in MintCalls : call[c].pc \in Underway \cup {"idle", "done", "lost"}
    BY CallIs DEF MintInv, MintPCs
  <2>2. ASSUME NEW b \in Batches PROVE Cardinality(mintLock[b]) <= 1
    <3>1. Cardinality({}) = 0 /\ \A c \in MintCalls : Cardinality({c}) = 1 BY FS_EmptySet, FS_Singleton
    <3> QED BY <3>1 DEF OneHolder
  <2>3. leaked \in 0..PoolClients
    <3>1. Cardinality(Running) \in Nat BY FS_CardinalityType DEF ClientsAreThePools
    <3>2. leaked \in Nat BY DEF MintInv, MintTypes
    <3> QED BY <3>1, <3>2, ClientsAssumption DEF ClientsAreThePools, ClientsAssumption
  <2> QED BY <2>1, <2>2, <2>3 DEF MintInv, MintTypes, MintTypeOK, MintRow
<1> QED BY MintInitInv, MintStep, <1>1, <1>2, <1>3, <1>4, PTL DEF MintSpec

\* event_catchup.ts:95-188: gaps, rows and what is walked are ranges of ledgers.
RangesOK ==
  /\ ledgerEvents \subseteq Eventful /\ unread \subseteq Ledgers
  /\ \A i \in DOMAIN gapRows : gapRows[i].start <= gapRows[i].end
  /\ \A g \in worker.found \cup worker.todo : g.start <= g.end
  /\ worker.row \in 0..Len(gapRows)
  /\ worker.pc \in Filling => gapRows[worker.row].start <= worker.seq
  /\ worker.pc \in {"ledger", "nothing"} => worker.seq <= gapRows[worker.row].end

\* A row changes its status or its count, never its range.
SameRanges ==
  /\ DOMAIN gapRows' = DOMAIN gapRows /\ Len(gapRows') = Len(gapRows)
  /\ \A i \in DOMAIN gapRows : gapRows'[i].start = gapRows[i].start /\ gapRows'[i].end = gapRows[i].end

LEMMA RangesStay ==
  ASSUME CatchupTypes, NEW i \in DOMAIN gapRows, NEW status, NEW retry,
         \/ gapRows' = [gapRows EXCEPT ![i].status = status]
         \/ gapRows' = [gapRows EXCEPT ![i].retry = retry, ![i].status = status]
  PROVE  SameRanges
<1>1. gapRows \in Seq(GapRowSet) /\ gapRows[i] \in GapRowSet BY ElementOfSeq DEF CatchupTypes
<1>2. PICK q : gapRows' = [gapRows EXCEPT ![i] = q] /\ q.start = gapRows[i].start /\ q.end = gapRows[i].end
  <2>1. CASE gapRows' = [gapRows EXCEPT ![i].status = status]
    <3>1. PICK q : q = [gapRows[i] EXCEPT !.status = status] OBVIOUS
    <3>2. q.start = gapRows[i].start /\ q.end = gapRows[i].end BY <1>1, <3>1 DEF GapRowSet
    <3> QED BY <2>1, <3>1, <3>2
  <2>2. CASE gapRows' = [gapRows EXCEPT ![i].retry = retry, ![i].status = status]
    <3>1. PICK q : q = [gapRows[i] EXCEPT !.retry = retry, !.status = status] OBVIOUS
    <3>2. q.start = gapRows[i].start /\ q.end = gapRows[i].end BY <1>1, <3>1 DEF GapRowSet
    <3>3. gapRows' = [gapRows EXCEPT ![i] = q] BY <2>2, <3>1
    <3> QED BY <3>2, <3>3
  <2> QED BY <2>1, <2>2
<1>3. DOMAIN gapRows' = DOMAIN gapRows /\ \A j \in DOMAIN gapRows : gapRows'[j] = IF j = i THEN q ELSE gapRows[j]
  BY <1>2
<1>4. Len(gapRows') = Len(gapRows) BY <1>1, <1>2
<1> QED BY <1>2, <1>3, <1>4 DEF SameRanges

\* The next gap, if there is one, was to be filled already.
LEMMA NextRanges ==
  ASSUME CatchupTypes, RangesOK, NextGap, SameRanges, UNCHANGED <<ledgerEvents, unread>>
  PROVE  RangesOK'
<1>1. worker' = Idle \/ worker' = [Idle EXCEPT !.pc = "pick", !.todo = worker.todo] BY DEF NextGap
<1>2. worker'.pc \in {"idle", "pick"} /\ worker'.found = {} /\ worker'.todo \subseteq worker.todo /\ worker'.row = 0
  <2>1. CASE worker' = Idle BY <2>1 DEF Idle
  <2>2. CASE worker' = [Idle EXCEPT !.pc = "pick", !.todo = worker.todo]
    <3>1. PICK todo : todo = worker.todo OBVIOUS
    <3>2. worker' = [pc |-> "pick", found |-> {}, todo |-> todo, row |-> 0, seq |-> 0, hash |-> NoHash]
      BY <2>2, <3>1 DEF Idle
    <3> QED BY <3>1, <3>2
  <2> QED BY <1>1, <2>1, <2>2
<1>3. Len(gapRows') \in Nat BY DEF CatchupTypes, SameRanges
<1> QED BY <1>2, <1>3 DEF RangesOK, SameRanges, Filling

LEMMA RangesStep ==
  ASSUME CatchupAssumption, CatchupInv, RangesOK, [CatchupNext]_catchupVars
  PROVE  RangesOK'
<1>1. /\ CatchupTypes /\ worker \in CatchupWorkers /\ gapRows \in Seq(GapRowSet) /\ Len(gapRows) \in Nat
      /\ \A i \in DOMAIN gapRows : gapRows[i] \in GapRowSet
  BY ElementOfSeq DEF CatchupInv, CatchupTypes
<1>2. worker.pc \in Filling \cup {"alert"} => worker.row \in DOMAIN gapRows BY <1>1 DEF CatchupTypes
<1>3. Eventful \subseteq Ledgers BY DEF CatchupAssumption, Ledgers
<1>4. CASE IdentifyGaps
  <2>1. PICK gaps : gaps = Gaps(Known(ledgerEvents, gapRows)) OBVIOUS
  <2>2. /\ worker' = [worker EXCEPT !.pc = "record", !.found = gaps, !.todo = gaps]
        /\ UNCHANGED <<ledgerEvents, gapRows, unread>>
    BY <1>4, <2>1 DEF IdentifyGaps
  <2>3. worker'.pc = "record" /\ worker'.found = gaps /\ worker'.todo = gaps /\ worker'.row = worker.row
    BY <1>1, <2>2 DEF CatchupWorkers
  <2>4. Known(ledgerEvents, gapRows) \subseteq Ledgers
    <3>1. \A i \in DOMAIN gapRows : {gapRows[i].start, gapRows[i].end} \subseteq Ledgers BY <1>1 DEF GapRowSet
    <3> QED BY <1>1, <3>1 DEF Known, CatchupTypes
  <2>5. \A g \in gaps : g.start <= g.end BY <2>1, <2>4, GapIs
  <2> QED BY <2>2, <2>3, <2>5 DEF RangesOK, Filling
<1>5. CASE GetKnownHash \/ FillFails \/ \E answer \in {"ledger", "nothing", "error"} : GetLedger(answer)
  <2>1. /\ UNCHANGED <<ledgerEvents, gapRows, unread>> /\ worker.pc \in Filling /\ worker'.pc \in Filling
        /\ worker'.found = worker.found /\ worker'.todo = worker.todo /\ worker'.row = worker.row
        /\ worker'.seq = worker.seq
        /\ worker'.pc \in {"ledger", "nothing"} => Further(gapRows[worker.row])
    BY <1>1, <1>5 DEF GetKnownHash, GetLedger, FillFails, CatchupWorkers, Filling
  <2>2. worker.row \in DOMAIN gapRows BY <1>2, <2>1
  <2>3. Further(gapRows[worker.row]) => worker.seq <= gapRows[worker.row].end
    <3>1. CASE worker.seq = gapRows[worker.row].start BY <2>2, <3>1 DEF RangesOK
    <3>2. CASE worker.seq # gapRows[worker.row].start BY <3>2 DEF Further
    <3> QED BY <3>1, <3>2
  <2> QED BY <2>1, <2>3 DEF RangesOK
<1>6. CASE SkipLedger \/ InsertLedger
  <2>1. /\ worker.pc \in {"nothing", "ledger"} /\ worker' = [worker EXCEPT !.pc = "fetch", !.seq = @ + 1]
        /\ UNCHANGED gapRows
    BY <1>6 DEF SkipLedger, InsertLedger, Advance
  <2>2. /\ worker'.pc = "fetch" /\ worker'.seq = worker.seq + 1 /\ worker'.row = worker.row
        /\ worker'.found = worker.found /\ worker'.todo = worker.todo
    BY <1>1, <2>1 DEF CatchupWorkers
  <2>3. worker.row \in DOMAIN gapRows BY <1>2, <2>1 DEF Filling
  <2>4. PICK a \in Ledgers, b \in Ledgers, n \in Int :
          a = gapRows[worker.row].start /\ b = gapRows[worker.row].end /\ n = worker.seq
    BY <1>1, <2>3 DEF GapRowSet, CatchupWorkers
  <2>5. a <= n /\ n <= b BY <2>1, <2>4 DEF RangesOK, Filling
  <2>6. n \in Ledgers /\ a <= n + 1 BY <2>4, <2>5, CatchupAssumption DEF Ledgers, CatchupAssumption
  <2>7. ledgerEvents' \subseteq Eventful /\ unread' \subseteq Ledgers
    <3>1. CASE SkipLedger BY <2>4, <2>6, <3>1 DEF SkipLedger, RangesOK
    <3>2. CASE InsertLedger
      <4>1. PICK effects \in GetLedgerEffects(worker.seq) :
              ledgerEvents' = ledgerEvents \cup effects.got /\ unread' = unread \cup effects.missed
        BY <3>2 DEF InsertLedger, InsertEvents
      <4>2. effects.got \subseteq Eventful /\ effects.missed \subseteq {worker.seq}
        BY <4>1 DEF GetLedgerEffects
      <4> QED BY <2>4, <2>6, <4>1, <4>2 DEF RangesOK
    <3> QED BY <1>6, <3>1, <3>2
  <2> QED BY <2>1, <2>2, <2>4, <2>6, <2>7 DEF RangesOK, Filling
<1>7. CASE MarkFilled
  <2>1. /\ worker.pc = "fetch" /\ gapRows' = [gapRows EXCEPT ![worker.row].status = "filled"]
        /\ NextGap /\ UNCHANGED <<ledgerEvents, unread>>
    BY <1>7 DEF MarkFilled
  <2>2. worker.row \in DOMAIN gapRows BY <1>2, <2>1 DEF Filling
  <2>3. SameRanges BY <1>1, <2>1, <2>2, RangesStay
  <2> QED BY <1>1, <2>1, <2>3, NextRanges
<1>8. CASE CountFailure
  <2>1. PICK i, status : i = worker.row
                         /\ status = IF gapRows[worker.row].retry >= RetryLimit - 1 THEN "escalated" ELSE "discovered"
    OBVIOUS
  <2>2. /\ worker.pc \in Filling /\ gapRows' = [gapRows EXCEPT ![i].retry = @ + 1, ![i].status = status]
        /\ worker' = [worker EXCEPT !.pc = "alert"] /\ UNCHANGED <<ledgerEvents, unread>>
    BY <1>8, <2>1 DEF CountFailure, CountRetry, Filling
  <2>3. i \in DOMAIN gapRows BY <1>2, <2>1, <2>2
  <2>4. PICK n : n = gapRows[i].retry + 1 OBVIOUS
  <2>5. gapRows' = [gapRows EXCEPT ![i].retry = n, ![i].status = status] BY <2>2, <2>3, <2>4
  <2>6. SameRanges BY <1>1, <2>3, <2>5, RangesStay
  <2>7. /\ worker'.pc = "alert" /\ worker'.row = worker.row
        /\ worker'.found = worker.found /\ worker'.todo = worker.todo
    BY <1>1, <2>2 DEF CatchupWorkers
  <2> QED BY <2>2, <2>6, <2>7 DEF RangesOK, SameRanges, Filling
<1>9. CASE InsertAlert
  <2>1. NextGap /\ UNCHANGED <<ledgerEvents, gapRows, unread>> BY <1>9 DEF InsertAlert
  <2>2. SameRanges BY <2>1 DEF SameRanges
  <2> QED BY <1>1, <2>1, <2>2, NextRanges
<1>10. CASE CycleEnds
  <2>1. worker' = Idle /\ UNCHANGED <<ledgerEvents, gapRows, unread>> BY <1>10 DEF CycleEnds
  <2>2. Idle.pc = "idle" /\ Idle.found = {} /\ Idle.todo = {} /\ Idle.row = 0 BY DEF Idle
  <2> QED BY <1>1, <2>1, <2>2 DEF RangesOK, Filling
<1>11. ASSUME NEW gap \in worker.found, RecordGap(gap) PROVE RangesOK'
  <2>1. /\ UNCHANGED <<ledgerEvents, unread>> /\ worker.pc = "record"
        /\ worker' = [worker EXCEPT !.found = @ \ {gap}, !.pc = IF worker.found = {gap} THEN "pick" ELSE @]
    BY <1>11 DEF RecordGap
  <2>2. PICK rest, place : /\ rest = worker.found \ {gap}
                           /\ place = (IF worker.found = {gap} THEN "pick" ELSE "record")
    OBVIOUS
  <2>3. worker' = [worker EXCEPT !.found = rest, !.pc = place] BY <1>1, <2>1, <2>2 DEF CatchupWorkers
  <2>4. /\ worker'.pc = place /\ worker'.row = worker.row /\ worker'.found = rest /\ worker'.todo = worker.todo
    BY <1>1, <2>3 DEF CatchupWorkers
  <2>5. place \notin Filling /\ place \notin {"ledger", "nothing"} BY <2>2 DEF Filling
  <2>6. gap \in GapRanges /\ gap.start <= gap.end
    BY <1>1, <1>11 DEF CatchupWorkers, RangesOK
  <2>7. CASE UNCHANGED gapRows BY <2>1, <2>2, <2>4, <2>5, <2>7 DEF RangesOK
  <2>8. CASE gapRows' = Append(gapRows, NewRow(gap))
    <3>0. PICK row : row = NewRow(gap) OBVIOUS
    <3>1. PICK n \in Nat : row = NewRow(gap) /\ n = Len(gapRows) BY <1>1, <3>0
    <3>2. row \in GapRowSet /\ row.start = gap.start /\ row.end = gap.end
      BY <2>6, <3>1 DEF NewRow, GapRowSet, GapRanges
    <3>3. /\ gapRows' \in Seq(GapRowSet) /\ Len(gapRows') = n + 1 /\ gapRows'[n + 1] = row
          /\ \A j \in 1..n : gapRows'[j] = gapRows[j]
      BY <1>1, <2>8, <3>1, <3>2, AppendProperties
    <3>4. DOMAIN gapRows = 1..n /\ DOMAIN gapRows' = 1..(n + 1) BY <1>1, <3>1, <3>3
    <3>5. \A j \in 1..(n + 1) : j \in 1..n \/ j = n + 1 BY <3>1
    <3>6. \A i \in DOMAIN gapRows' : gapRows'[i].start <= gapRows'[i].end
      BY <2>6, <3>2, <3>3, <3>4, <3>5 DEF RangesOK
    <3>7. worker.row \in 0..(n + 1) BY <3>1 DEF RangesOK
    <3> QED BY <2>1, <2>2, <2>4, <2>5, <3>3, <3>6, <3>7 DEF RangesOK
  <2> QED BY <1>11, <2>7, <2>8 DEF RecordGap, InsertRow
<1>12. ASSUME NEW gap \in worker.todo, NEW i \in DOMAIN gapRows, GetGapId(gap, i) PROVE RangesOK'
  <2>1. /\ Same(gapRows[i], gap) /\ gapRows' = [gapRows EXCEPT ![i].status = "filling"]
        /\ worker' = [worker EXCEPT !.pc = "hash", !.todo = @ \ {gap}, !.row = i, !.seq = gap.start]
        /\ UNCHANGED <<ledgerEvents, unread>>
    BY <1>12 DEF GetGapId, RowsOfRange
  <2>2. SameRanges BY <1>1, <2>1, RangesStay
  <2>3. PICK rest, from : rest = worker.todo \ {gap} /\ from = gap.start OBVIOUS
  <2>4. worker' = [worker EXCEPT !.pc = "hash", !.todo = rest, !.row = i, !.seq = from]
    BY <1>1, <2>1, <2>3 DEF CatchupWorkers
  <2>5. /\ worker'.pc = "hash" /\ worker'.row = i /\ worker'.found = worker.found /\ worker'.todo = rest
        /\ worker'.seq = from
    BY <1>1, <2>4 DEF CatchupWorkers
  <2>6. i \in 0..Len(gapRows') BY <1>1, <2>2 DEF SameRanges
  <2>7. gapRows'[i].start = from BY <2>1, <2>2, <2>3 DEF SameRanges, Same
  <2>8. from \in Int BY <1>1, <2>3 DEF CatchupWorkers, GapRanges, Ledgers
  <2>9. from <= from BY <2>8
  <2> QED BY <2>1, <2>2, <2>3, <2>5, <2>6, <2>7, <2>9 DEF RangesOK, SameRanges, Filling
<1>13. ASSUME NEW l \in Ledgers, IngestLedger(l) PROVE RangesOK' BY <1>13 DEF IngestLedger, RangesOK
<1>14. CASE UNCHANGED catchupVars BY <1>14 DEF catchupVars, RangesOK
<1> QED BY <1>4, <1>5, <1>6, <1>7, <1>8, <1>9, <1>10, <1>11, <1>12, <1>13, <1>14 DEF CatchupNext

\* Ledger catch-up: what is stored, walked or passed over are ledgers, and every
\* row a range of them.
LEMMA CatchupTypesHold == CatchupSpec => []CatchupTypeOK
<1>1. CatchupInit => CatchupInv BY CatchupAssumption, CatchupInitInv
<1>2. CatchupInv /\ [CatchupNext]_catchupVars => CatchupInv' BY CatchupAssumption, CatchupStep
<1>3. CatchupInit => RangesOK
  <2> SUFFICES ASSUME CatchupInit PROVE RangesOK OBVIOUS
  <2>1. ledgerEvents \subseteq Eventful /\ unread = {} /\ gapRows = <<>> /\ worker = Idle BY DEF CatchupInit
  <2>2. Idle.pc = "idle" /\ Idle.found = {} /\ Idle.todo = {} /\ Idle.row = 0 BY DEF Idle
  <2>3. DOMAIN gapRows = {} /\ Len(gapRows) = 0 BY <2>1
  <2> QED BY <2>1, <2>2, <2>3 DEF RangesOK, Filling
<1>4. CatchupInv /\ RangesOK /\ [CatchupNext]_catchupVars => RangesOK' BY CatchupAssumption, RangesStep
<1>5. CatchupInv /\ RangesOK => CatchupTypeOK
  <2> SUFFICES ASSUME CatchupInv, RangesOK PROVE CatchupTypeOK OBVIOUS
  <2>1. DOMAIN gapAlerts = DOMAIN gapRows BY DEF CatchupInv, CatchupTypes
  <2>2. ASSUME NEW i \in DOMAIN gapRows
        PROVE  /\ gapRows[i].start \in Ledgers /\ gapRows[i].end \in gapRows[i].start .. LastLedger
               /\ gapRows[i].status \in {"discovered", "filling", "filled", "escalated"}
    <3>1. gapRows[i] \in GapRowSet BY ElementOfSeq DEF CatchupInv, CatchupTypes
    <3>2. gapRows[i].start <= gapRows[i].end BY DEF RangesOK
    <3> QED BY <3>1, <3>2, CatchupAssumption DEF GapRowSet, Ledgers, CatchupAssumption
  <2> QED BY <2>1, <2>2 DEF RangesOK, CatchupTypeOK
<1> QED BY <1>1, <1>2, <1>3, <1>4, <1>5, PTL DEF CatchupSpec

\* profile_store.ts:18-76: a profile is of a device, as old as the clock at most.
ProfileOK(p, time) ==
  /\ p.power \in Powers /\ p.lastSeen \in 1..time
  /\ p.txIntervals \in Seq(1..Horizon) /\ Len(p.txIntervals) <= MaxIntervals
StoreOK(store, time) ==
  /\ DOMAIN store \subseteq Devices /\ IsFiniteSet(DOMAIN store) /\ Cardinality(DOMAIN store) <= MaxProfiles
  /\ \A d \in DOMAIN store : ProfileOK(store[d], time)
BucketsOK ==
  /\ DOMAIN buckets \subseteq LimiterKeys
  /\ \A k \in DOMAIN buckets : buckets[k].tokens <= MaxTokens
ClockOK == clock \in 1..Horizon

\* profile_store.ts:55-60: the newest intervals are no more than a profile keeps.
LEMMA NewestIs ==
  ASSUME NEW S, NEW s \in Seq(S)
  PROVE  Newest(s) \in Seq(S) /\ Len(Newest(s)) <= MaxIntervals
<1>1. MaxIntervals \in Nat BY BoundsAssumption DEF BoundsAssumption
<1>2. Len(s) \in Nat OBVIOUS
<1>3. CASE Len(s) > MaxIntervals
  <2>1. PICK m \in Nat, n \in Nat : m = Len(s) - MaxIntervals + 1 /\ n = Len(s) BY <1>1, <1>2, <1>3
  <2>2. Newest(s) = SubSeq(s, m, n) BY <1>3, <2>1 DEF Newest
  <2>3. m \in 1..(Len(s) + 1) /\ n \in (m - 1)..Len(s) BY <1>1, <1>2, <1>3, <2>1
  <2>4. SubSeq(s, m, n) \in Seq(S) /\ Len(SubSeq(s, m, n)) = IF m <= n THEN n - m + 1 ELSE 0
    BY <2>3, SubSeqProperties
  <2> QED BY <1>1, <1>2, <1>3, <2>1, <2>2, <2>4
<1>4. CASE ~(Len(s) > MaxIntervals) BY <1>1, <1>2, <1>4 DEF Newest
<1> QED BY <1>3, <1>4

\* profile_store.ts:31-53: a profile that is updated is a profile.
LEMMA RecordedIs ==
  ASSUME ClockOK, NEW old, ProfileOK(old, clock), NEW power \in Powers
  PROVE  ProfileOK(Recorded(old, power), clock)
<1>1. PICK spans : spans = 1..Horizon OBVIOUS
<1>2. old.txIntervals \in Seq(spans) BY <1>1 DEF ProfileOK
<1>3. old.txIntervals \o old.txIntervals \in Seq(spans) BY <1>2, ConcatProperties
<1>4. PICK doubled : doubled = Newest(old.txIntervals \o old.txIntervals) OBVIOUS
<1>5. doubled \in Seq(spans) /\ Len(doubled) <= MaxIntervals BY <1>3, <1>4, NewestIs
<1>6. PICK interval : interval = clock - old.lastSeen OBVIOUS
<1>7. interval > 0 => interval \in spans
  BY <1>1, <1>6, BoundsAssumption DEF ProfileOK, ClockOK, BoundsAssumption
<1>8. PICK kept : kept = IF interval > 0 THEN Newest(Append(doubled, interval)) ELSE doubled OBVIOUS
<1>9. kept \in Seq(spans) /\ Len(kept) <= MaxIntervals
  <2>1. CASE interval > 0
    <3>1. Append(doubled, interval) \in Seq(spans) BY <1>5, <1>7, <2>1, AppendProperties
    <3> QED BY <1>8, <2>1, <3>1, NewestIs
  <2>2. CASE ~(interval > 0) BY <1>5, <1>8, <2>2
  <2> QED BY <2>1, <2>2
<1>10. Recorded(old, power) = [power |-> power, lastSeen |-> clock, txIntervals |-> kept]
  BY <1>4, <1>6, <1>8 DEF Recorded
<1>11. clock \in 1..clock BY BoundsAssumption DEF ClockOK, BoundsAssumption
<1> QED BY <1>1, <1>9, <1>10, <1>11 DEF ProfileOK

\* profile_store.ts:31-53: a device that is not in a full store takes the place
\* of another.
LEMMA UpsertKeeps ==
  ASSUME ClockOK, StoreOK(profiles, clock), NEW d \in Devices, NEW power \in Powers, UpsertProfile(d, power)
  PROVE  StoreOK(profiles', clock)
<1>1. MaxProfiles \in Nat BY BoundsAssumption DEF BoundsAssumption
<1>2. CASE d \in DOMAIN profiles
  <2>1. PICK p : p = Recorded(profiles[d], power) OBVIOUS
  <2>2. ProfileOK(p, clock) BY <1>2, <2>1, RecordedIs DEF StoreOK
  <2>3. profiles' = With(profiles, d, p) BY <1>2, <2>1 DEF UpsertProfile
  <2>4. /\ DOMAIN profiles' = DOMAIN profiles
        /\ \A e \in DOMAIN profiles' : profiles'[e] = IF e = d THEN p ELSE profiles[e]
    BY <1>2, <2>3 DEF With
  <2> QED BY <2>2, <2>4 DEF StoreOK
<1>3. CASE d \notin DOMAIN profiles
  <2>0. PICK p : p = [power |-> power, txIntervals |-> <<>>, lastSeen |-> clock] OBVIOUS
  <2>1. PICK kept \in Evictions(profiles) :
          /\ profiles' = With(kept, d, p) /\ p = [power |-> power, txIntervals |-> <<>>, lastSeen |-> clock]
    BY <1>3, <2>0 DEF UpsertProfile
  <2>2. ProfileOK(p, clock)
    <3>1. clock \in 1..clock BY BoundsAssumption DEF ClockOK, BoundsAssumption
    <3>2. <<>> \in Seq(1..Horizon) /\ Len(<<>>) = 0 OBVIOUS
    <3>3. MaxIntervals \in Nat BY BoundsAssumption DEF BoundsAssumption
    <3> QED BY <2>1, <3>1, <3>2, <3>3 DEF ProfileOK
  <2>3. /\ DOMAIN kept \subseteq DOMAIN profiles /\ \A e \in DOMAIN kept : kept[e] = profiles[e]
        /\ IsFiniteSet(DOMAIN kept) /\ Cardinality(DOMAIN kept) + 1 <= MaxProfiles
    <3>1. Cardinality(DOMAIN profiles) \in Nat BY FS_CardinalityType DEF StoreOK
    <3>2. CASE Cardinality(DOMAIN profiles) < MaxProfiles
      <4>1. kept = profiles BY <2>1, <3>2 DEF Evictions
      <4> QED BY <1>1, <3>1, <3>2, <4>1 DEF StoreOK
    <3>3. CASE ~(Cardinality(DOMAIN profiles) < MaxProfiles)
      <4>1. PICK e \in DOMAIN profiles : kept = Without(profiles, {e}) BY <2>1, <3>3 DEF Evictions
      <4>2. DOMAIN kept = DOMAIN profiles \ {e} /\ \A f \in DOMAIN kept : kept[f] = profiles[f]
        BY <4>1 DEF Without
      <4>3. IsFiniteSet(DOMAIN kept) /\ Cardinality(DOMAIN kept) = Cardinality(DOMAIN profiles) - 1
        BY <4>1, <4>2, FS_RemoveElement DEF StoreOK
      <4> QED BY <1>1, <3>1, <4>2, <4>3 DEF StoreOK
    <3> QED BY <3>2, <3>3
  <2>4. /\ DOMAIN profiles' = DOMAIN kept \cup {d}
        /\ \A e \in DOMAIN profiles' : profiles'[e] = IF e = d THEN p ELSE kept[e]
    BY <2>1 DEF With
  <2>5. IsFiniteSet(DOMAIN profiles') /\ Cardinality(DOMAIN profiles') <= MaxProfiles
    <3>1. d \notin DOMAIN kept BY <1>3, <2>3
    <3> QED BY <2>3, <2>4, <3>1, FS_AddElement
  <2> QED BY <2>2, <2>3, <2>4, <2>5 DEF StoreOK
<1> QED BY <1>2, <1>3

\* rate_limit.ts:36-56: what a bucket is left with is never more than its burst.
LEMMA ServeCaps ==
  ASSUME LimiterInv, BucketsOK, NEW key \in LimiterKeys, Serve(key)
  PROVE  BucketsOK'
<1> DEFINE before == IF key \notin DOMAIN buckets THEN NewBucket ELSE buckets[key]
           bucket == Recompute(before, key, profiles')
<1>1. buckets' = With(buckets, key, Consumed(bucket)) BY DEF Serve
<1>2. clock \in Nat /\ MaxTokens \in Nat /\ FullRate \in Nat /\ Token = 1000
  BY BurstAssumption DEF LimiterInv, BucketTypes, MaxTokens, Token, FullRate
<1>3. before \in [tokens : Nat, lastRefill : Nat, refillRate : Nat] /\ before.lastRefill <= clock
  <2>1. CASE key \notin DOMAIN buckets
    <3>1. before = [tokens |-> MaxTokens, lastRefill |-> clock, refillRate |-> FullRate]
      BY <2>1 DEF NewBucket
    <3> HIDE DEF before
    <3> QED BY <1>2, <3>1
  <2>2. CASE key \in DOMAIN buckets BY <2>2 DEF LimiterInv, BucketTypes, TokensArePaidFor
  <2> QED BY <2>1, <2>2
<1> HIDE DEF before
<1>4. bucket \in [tokens : Nat, lastRefill : Nat, refillRate : Nat] /\ bucket.lastRefill <= clock
  <2>1. CASE key \in DOMAIN profiles'
    <3>1. ComputeRefillRate(profiles'[key]) \in Nat BY RateIsBounded DEF FullRate
    <3>2. bucket = [before EXCEPT !.refillRate = ComputeRefillRate(profiles'[key])]
      BY <2>1 DEF Recompute
    <3> QED BY <1>3, <3>1, <3>2
  <2>2. CASE key \notin DOMAIN profiles' BY <1>3, <2>2 DEF Recompute
  <2> QED BY <2>1, <2>2
<1> HIDE DEF bucket
<1>5. PICK credit \in Nat : credit = (clock - bucket.lastRefill) * bucket.refillRate
  <2>1. clock - bucket.lastRefill \in Nat BY <1>2, <1>4
  <2> QED BY <1>4, <2>1
<1>6. PICK cap \in Nat, tokens \in Nat : cap = MaxTokens /\ tokens = bucket.tokens BY <1>2, <1>4
<1>7. PICK full \in Nat : full = MinOf(MaxTokens, bucket.tokens + credit) /\ full <= cap
  <2>1. (IF cap < tokens + credit THEN cap ELSE tokens + credit) \in Nat
        /\ (IF cap < tokens + credit THEN cap ELSE tokens + credit) <= cap
    OBVIOUS
  <2> QED BY <1>6, <2>1 DEF MinOf
<1>8. Refill(bucket) = [bucket EXCEPT !.tokens = full, !.lastRefill = clock] BY <1>5, <1>7 DEF Refill
<1>9. PICK filled : filled = Refill(bucket) OBVIOUS
<1>10. filled \in [tokens : Nat, lastRefill : Nat, refillRate : Nat] /\ filled.tokens = full
  BY <1>2, <1>4, <1>7, <1>8, <1>9
<1>11. Consumed(bucket).tokens <= cap
  <2>1. CASE full >= Token
    <3>1. Consumed(bucket) = [filled EXCEPT !.tokens = @ - Token] BY <1>9, <1>10, <2>1 DEF Consumed
    <3>2. Consumed(bucket).tokens = full - 1000 BY <1>2, <1>10, <3>1
    <3> QED BY <1>7, <3>2
  <2>2. CASE ~(full >= Token)
    <3>1. Consumed(bucket) = filled BY <1>9, <1>10, <2>2 DEF Consumed
    <3> QED BY <1>7, <1>10, <3>1
  <2> QED BY <2>1, <2>2
<1>12. PICK after : after = Consumed(bucket) OBVIOUS
<1>13. DOMAIN buckets' = DOMAIN buckets \cup {key}
       /\ \A k \in DOMAIN buckets' : buckets'[k] = IF k = key THEN after ELSE buckets[k]
  BY <1>1, <1>12 DEF With
<1>14. after.tokens <= MaxTokens BY <1>6, <1>11, <1>12
<1>15. LimiterKeys' = LimiterKeys /\ MaxTokens' = MaxTokens BY DEF LimiterKeys, MaxTokens, Token
<1> QED BY <1>13, <1>14, <1>15 DEF BucketsOK

LEMMA LimiterTypesStep ==
  ASSUME LimiterInv, ClockOK, StoreOK(profiles, clock), BucketsOK, [LimiterNext]_limiterVars
  PROVE  ClockOK' /\ StoreOK(profiles', clock') /\ BucketsOK'
<1>1. ASSUME NEW d \in Devices, NEW power \in Powers, AllowReport(d, power)
      PROVE  ClockOK' /\ StoreOK(profiles', clock') /\ BucketsOK'
  <2>1. UpsertProfile(d, power) /\ Serve(d) /\ clock' = clock /\ d \in LimiterKeys
    BY <1>1 DEF AllowReport, Serve, LimiterKeys
  <2>2. StoreOK(profiles', clock) BY <2>1, UpsertKeeps
  <2>3. BucketsOK' BY <2>1, ServeCaps
  <2> QED BY <2>1, <2>2, <2>3 DEF ClockOK
<1>2. ASSUME NEW key \in LimiterKeys, AllowBare(key)
      PROVE  ClockOK' /\ StoreOK(profiles', clock') /\ BucketsOK'
  <2>1. profiles' = profiles /\ clock' = clock /\ Serve(key) BY <1>2 DEF AllowBare, Serve
  <2>2. BucketsOK' BY <2>1, ServeCaps
  <2> QED BY <2>1, <2>2 DEF ClockOK
<1>3. CASE CleanupCron
  <2>1. PICK gone, old : /\ buckets' = Without(buckets, gone) /\ profiles' = Without(profiles, old)
                         /\ clock' = clock
    BY <1>3 DEF CleanupCron
  <2>2. /\ DOMAIN buckets' \subseteq DOMAIN buckets /\ DOMAIN profiles' \subseteq DOMAIN profiles
        /\ \A k \in DOMAIN buckets' : buckets'[k] = buckets[k]
        /\ \A d \in DOMAIN profiles' : profiles'[d] = profiles[d]
    BY <2>1 DEF Without
  <2>3. IsFiniteSet(DOMAIN profiles) BY DEF StoreOK
  <2>4. IsFiniteSet(DOMAIN profiles') /\ Cardinality(DOMAIN profiles') <= Cardinality(DOMAIN profiles)
    BY <2>2, <2>3, FS_Subset
  <2>5. Cardinality(DOMAIN profiles') \in Nat /\ Cardinality(DOMAIN profiles) \in Nat
    BY <2>3, <2>4, FS_CardinalityType
  <2>6. Cardinality(DOMAIN profiles') <= MaxProfiles
    BY <2>4, <2>5, BoundsAssumption DEF StoreOK, BoundsAssumption
  <2> QED BY <2>1, <2>2, <2>4, <2>6 DEF ClockOK, StoreOK, BucketsOK, LimiterKeys, MaxTokens, Token
<1>4. CASE TickClock
  <2>1. clock < Horizon /\ clock' = clock + 1 /\ profiles' = profiles /\ buckets' = buckets
    BY <1>4 DEF TickClock
  <2>2. ClockOK' /\ 1..clock \subseteq 1..(clock + 1) BY <2>1, BoundsAssumption DEF ClockOK, BoundsAssumption
  <2>3. \A p : ProfileOK(p, clock) => ProfileOK(p, clock') BY <2>1, <2>2 DEF ProfileOK
  <2> QED BY <2>1, <2>2, <2>3 DEF StoreOK, BucketsOK, LimiterKeys, MaxTokens, Token
<1>5. CASE UNCHANGED limiterVars
  BY <1>5 DEF limiterVars, ClockOK, StoreOK, BucketsOK, LimiterKeys, MaxTokens, Token
<1> QED BY <1>1, <1>2, <1>3, <1>4, <1>5 DEF LimiterNext

\* Rate limiter: the profiles of no more devices than the store holds, each with
\* no more intervals than it keeps, and buckets filled up to their burst.
LEMMA LimiterTypesHold == LimiterSpec => []LimiterTypeOK
<1> DEFINE stored == StoreOK(profiles, clock)
<1>1. LimiterInit => ClockOK /\ stored /\ BucketsOK
  <2> SUFFICES ASSUME LimiterInit PROVE ClockOK /\ stored /\ BucketsOK OBVIOUS
  <2>1. profiles = <<>> /\ clock = 1 /\ buckets = <<>> BY DEF LimiterInit
  <2>2. DOMAIN profiles = {} /\ DOMAIN buckets = {} BY <2>1
  <2>3. IsFiniteSet({}) /\ Cardinality({}) = 0 BY FS_EmptySet
  <2> QED BY <2>1, <2>2, <2>3, BoundsAssumption DEF ClockOK, StoreOK, BucketsOK, BoundsAssumption
<1>2. LimiterInv /\ ClockOK /\ stored /\ BucketsOK /\ [LimiterNext]_limiterVars
      => ClockOK' /\ stored' /\ BucketsOK'
  BY LimiterTypesStep
<1>3. LimiterInv /\ ClockOK /\ stored /\ BucketsOK => LimiterTypeOK
  <2> SUFFICES ASSUME LimiterInv, ClockOK, stored, BucketsOK PROVE LimiterTypeOK OBVIOUS
  <2>1. MaxTokens \in Nat BY BurstAssumption DEF MaxTokens, Token
  <2>2. \A k \in DOMAIN buckets : buckets[k].tokens \in 0..MaxTokens /\ buckets[k].lastRefill <= clock
    BY <2>1 DEF LimiterInv, BucketTypes, TokensArePaidFor, BucketsOK
  <2> QED BY <2>2 DEF LimiterInv, BucketTypes, BucketsOK, StoreOK, ProfileOK, LimiterTypeOK
<1> HIDE DEF stored
<1> QED BY LimiterInitInv, LimiterStep, <1>1, <1>2, <1>3, PTL DEF LimiterSpec

\* connection_pool.ts:15-36: a pool has no more clients than its size, and the
\* size routing believes in is one at least and that at most.
Within(q, size) == q.idle + q.inUse <= size /\ 1 <= q.max /\ q.max <= size
PoolsOK == \A p \in Pools : Within(pool[p], PoolMax[p])

LEMMA WithinKept ==
  ASSUME NEW q \in Counters, NEW size \in Nat, Within(q, size)
  PROVE  /\ CanGrant(q, size) => Within(Granted(q), size)
         /\ Within(Returned(OnRelease(q)), size)
         /\ q.idle > 0 => Within(Closed(q), size)
<1>1. q.idle \in Nat /\ q.inUse \in Nat /\ q.max \in Int /\ q.acquired \in Int BY DEF Counters
<1>2. ASSUME CanGrant(q, size) PROVE Within(Granted(q), size)
  <2>1. Granted(q).max = q.max /\ Granted(q).idle + Granted(q).inUse <= size
    <3>1. CASE q.idle > 0
      <4>1. /\ Granted(q).max = q.max /\ Granted(q).idle = q.idle - 1 /\ Granted(q).inUse = q.inUse + 1
        BY <3>1 DEF Granted, OnAcquire, Counters
      <4> QED BY <1>1, <4>1 DEF Within
    <3>2. CASE ~(q.idle > 0)
      <4>1. /\ Granted(q).max = q.max /\ Granted(q).idle = q.idle /\ Granted(q).inUse = q.inUse + 1
        BY <3>2 DEF Granted, OnAcquire, OnConnect, Counters
      <4> QED BY <1>1, <1>2, <3>2, <4>1 DEF CanGrant
    <3> QED BY <3>1, <3>2
  <2> QED BY <2>1 DEF Within
<1>3. Within(Returned(OnRelease(q)), size)
  <2>1. PICK n : n = AtLeast(0, q.acquired - 1) OBVIOUS
  <2>2. PICK g : g = [q EXCEPT !.acquired = n] OBVIOUS
  <2>3. OnRelease(q) = g BY <2>1, <2>2 DEF OnRelease
  <2>4. g.idle = q.idle /\ g.inUse = q.inUse /\ g.max = q.max BY <2>2 DEF Counters
  <2>5. Returned(g).idle = g.idle + 1 /\ Returned(g).inUse = g.inUse - 1 /\ Returned(g).max = g.max
    BY <2>2 DEF Returned, Counters
  <2> QED BY <1>1, <2>3, <2>4, <2>5 DEF Within
<1>4. ASSUME q.idle > 0 PROVE Within(Closed(q), size)
  <2>1. PICK n, m : n = AtLeast(0, q.acquired - 1) /\ m = AtLeast(1, q.max - 1) OBVIOUS
  <2>2. Closed(q).idle = q.idle - 1 /\ Closed(q).inUse = q.inUse /\ Closed(q).max = m
    BY <2>1 DEF Closed, OnRemove, Counters
  <2>3. 1 <= m /\ m <= size BY <1>1, <2>1 DEF AtLeast, Within
  <2> QED BY <1>1, <1>4, <2>2, <2>3 DEF Within
<1> QED BY <1>2, <1>3, <1>4

LEMMA PoolsStep ==
  ASSUME TenantAssumption, TenantInv, PoolsOK, [TenantNext]_tenantVars
  PROVE  PoolsOK'
<1>1. pool \in [Pools -> Counters] /\ request \in [Requests -> [pc : Places, pool : Pools]]
      /\ \A p \in Pools : PoolMax[p] \in Nat
  BY DEF TenantInv, ClientsOK, TenantTypes, TenantAssumption
<1>2. ASSUME NEW p \in Pools, NEW q, pool' = [pool EXCEPT ![p] = q], Within(q, PoolMax[p]) PROVE PoolsOK'
  BY <1>1, <1>2 DEF PoolsOK
<1>3. ASSUME UNCHANGED pool PROVE PoolsOK' BY <1>3 DEF PoolsOK
<1>4. ASSUME NEW p \in Pools
      PROVE  /\ CanGrant(pool[p], PoolMax[p]) => Within(Granted(pool[p]), PoolMax[p])
             /\ Within(Returned(OnRelease(pool[p])), PoolMax[p])
             /\ pool[p].idle > 0 => Within(Closed(pool[p]), PoolMax[p])
  BY <1>1, WithinKept DEF PoolsOK
<1>5. ASSUME NEW r \in Requests, GetConnection(r) \/ ConnectFails(r) \/ Enqueue(r) PROVE PoolsOK'
  BY <1>3, <1>5 DEF GetConnection, ConnectFails, Enqueue
<1>6. ASSUME NEW r \in Requests, ConnectRequest(r) PROVE PoolsOK'
  <2>1. PICK p \in Pools : p = request[r].pool BY <1>1
  <2>2. CanGrant(pool[p], PoolMax[p]) /\ pool' = [pool EXCEPT ![p] = Granted(pool[p])]
    BY <1>6, <2>1 DEF ConnectRequest
  <2> QED BY <1>2, <1>4, <2>2
<1>7. ASSUME NEW r \in Requests, Release(r) PROVE PoolsOK'
  <2>1. PICK p \in Pools : p = request[r].pool BY <1>1
  <2>2. pool' = [pool EXCEPT ![p] = Returned(OnRelease(pool[p]))] BY <1>7, <2>1 DEF Release
  <2> QED BY <1>2, <1>4, <2>2
<1>8. ASSUME NEW d \in Drains, ConnectEntry(d) PROVE PoolsOK'
  <2>1. PICK p : p = drain[d].pool OBVIOUS
  <2>2. /\ drain[d].pc = "ask" /\ CanGrant(pool[p], PoolMax[p])
        /\ pool' = [pool EXCEPT ![p] = Granted(pool[p])]
    BY <1>8, <2>1 DEF ConnectEntry
  <2>3. p \in Pools BY <2>1, <2>2 DEF TenantInv, HeapOK
  <2> QED BY <1>2, <1>4, <2>2, <2>3
<1>9. ASSUME NEW d \in Drains, EntryFails(d) \/ KeepEntry(d) PROVE PoolsOK'
  BY <1>3, <1>9 DEF EntryFails, KeepEntry
<1>10. ASSUME NEW p \in Pools, CloseIdle(p) PROVE PoolsOK'
  <2>1. pool[p].idle > 0 /\ pool' = [pool EXCEPT ![p] = Closed(pool[p])] BY <1>10 DEF CloseIdle
  <2> QED BY <1>2, <1>4, <2>1
<1>11. ASSUME NEW n \in 0..Len(arrivals), CleanupQueue(n) PROVE PoolsOK' BY <1>3, <1>11 DEF CleanupQueue
<1>12. CASE UNCHANGED tenantVars BY <1>3, <1>12 DEF tenantVars
<1> QED BY <1>5, <1>6, <1>7, <1>8, <1>9, <1>10, <1>11, <1>12 DEF TenantNext

\* Tenant routing: no pool has more clients than its size, and every array that
\* the queue or a walk refers to is there.
LEMMA TenantTypesHold == TenantSpec => []TenantTypeOK
<1>1. TenantInit => TenantInv BY TenantAssumption, TenantInitInv
<1>2. TenantInv /\ [TenantNext]_tenantVars => TenantInv' BY TenantAssumption, TenantStep
<1>3. TenantInit => PoolsOK
  <2> SUFFICES ASSUME TenantInit, NEW p \in Pools PROVE Within(pool[p], PoolMax[p]) BY DEF PoolsOK
  <2>1. pool[p] = NewPool(p) /\ PoolMax[p] \in Nat \ {0} BY TenantAssumption DEF TenantInit, TenantAssumption
  <2>2. NewPool(p).idle = 0 /\ NewPool(p).inUse = 0 /\ NewPool(p).max = PoolMax[p] BY DEF NewPool
  <2> QED BY <2>1, <2>2 DEF Within
<1>4. TenantInv /\ PoolsOK /\ [TenantNext]_tenantVars => PoolsOK' BY TenantAssumption, PoolsStep
<1>5. TenantInv /\ PoolsOK => TenantTypeOK
  <2> SUFFICES ASSUME TenantInv, PoolsOK PROVE TenantTypeOK OBVIOUS
  <2>1. ASSUME NEW p \in Pools
        PROVE  pool[p].idle + pool[p].inUse \in 0 .. PoolMax[p] /\ pool[p].max \in 1 .. PoolMax[p]
    <3>1. pool[p] \in Counters /\ PoolMax[p] \in Nat
      BY TenantAssumption DEF TenantInv, ClientsOK, TenantTypes, TenantAssumption
    <3>2. pool[p].idle \in Nat /\ pool[p].inUse \in Nat /\ pool[p].max \in Int BY <3>1 DEF Counters
    <3>3. Within(pool[p], PoolMax[p]) BY DEF PoolsOK
    <3> QED BY <3>1, <3>2, <3>3 DEF Within
  <2>2. \A r \in Requests : request[r].pc \in {"new", "ask", "refused", "queued", "holding", "done", "rejected"}
    BY DEF TenantInv, ClientsOK, TenantTypes, Places
  <2>3. queue \in DOMAIN arrays /\ \A d \in Walking : drain[d].array \in DOMAIN arrays
    BY DEF TenantInv, HeapOK, Walking
  <2> QED BY <2>1, <2>2, <2>3 DEF TenantTypeOK
<1> QED BY <1>1, <1>2, <1>3, <1>4, <1>5, PTL DEF TenantSpec

\* MCServices: for every value of the constants, every service of the composition
\* keeps its state within its types and bounds.
THEOREM EveryTypeHolds == Spec => []TypeOK
<1>1. (GatewayTypeOK /\ LimiterTypeOK /\ TenantTypeOK /\ MintTypeOK /\ AuditTypeOK /\ CatchupTypeOK /\ HealthTypeOK)
      => TypeOK
  BY DEF TypeOK
<1> QED BY <1>1, EachServiceBehaves, GatewayTypes, LimiterTypesHold, TenantTypesHold, MintTypesHold,
           AuditTypesHold, CatchupTypesHold, HealthTypes, PTL
============================================================================
