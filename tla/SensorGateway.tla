---------------------------- MODULE SensorGateway ----------------------------
(* The sensor gateway of src/src/sensors/gateway.ts with the sliding window it  *)
(* fills (buffer_manager.ts) and the backpressure levels (backpressure.ts) it   *)
(* shares with the database pool (database/connection_pool.ts): one level per   *)
(* key, a sensor's address or "connection_pool", and one global flag that is    *)
(* consulted on every chunk.  A key that the map does not hold reads NORMAL, so *)
(* the map is a total function here.  A chunk is handled in one turn of the     *)
(* event loop: it is stored, or, while the flag is up, dropped and its socket   *)
(* paused until an interval finds the flag down.  A chunk that the rate limiter *)
(* throttles changes nothing and is left out.  Frames are numbered as they are  *)
(* written.                                                                     *)
EXTENDS Naturals, Sequences, FiniteSets
CONSTANTS Sensors, ConnectionPool,
          Capacity,        \* frames the window holds
          MaxFrames,       \* bound: frames written
          MaxConnections   \* bound: connections accepted
ASSUME KeysAssumption == ConnectionPool \notin Sensors
ASSUME CapacityAssumption == Capacity \in Nat \ {0}
VARIABLES levels, globalBackpressure,
          window, windowPaused, written, dropped, taken, stalled,
          socket,          \* closed, open or paused, per sensor address
          connection,      \* the number of the address's latest connection
          accepted,        \* connections accepted so far
          intervals        \* the check intervals that are still set

streamVars == <<window, windowPaused, written, dropped, taken, stalled>>
socketVars == <<socket, connection, accepted, intervals>>
gatewayVars == <<levels, globalBackpressure, streamVars, socketVars>>

NORMAL   == 0
WARNING  == 1
CRITICAL == 2
Levels   == NORMAL .. CRITICAL
Keys     == Sensors \cup {ConnectionPool}

BackpressureInit == /\ levels = [k \in Keys |-> NORMAL]
                    /\ globalBackpressure = FALSE

ComputeGlobalCritical(l) == \E k \in Keys : l[k] >= CRITICAL   \* mutant
ComputeGlobal(l) == \E k \in Keys : l[k] >= WARNING

SetBackpressureStale(key, level) ==                            \* mutant
    /\ levels' = [levels EXCEPT ![key] = level]
    /\ globalBackpressure' = (globalBackpressure \/ level # NORMAL)
SetBackpressure(key, level) ==
    /\ levels' = [levels EXCEPT ![key] = level]
    /\ globalBackpressure' = IF levels[key] = level
                             THEN globalBackpressure ELSE ComputeGlobal(levels')

HighWatermark == (Capacity * 8) \div 10
LowWatermark  == (Capacity * 3) \div 10

GatewayInit ==
    /\ BackpressureInit
    /\ window = <<>> /\ windowPaused = FALSE /\ stalled = FALSE
    /\ written = 0 /\ dropped = 0 /\ taken = 0
    /\ socket = [s \in Sensors |-> "closed"]
    /\ connection = [s \in Sensors |-> 0]
    /\ accepted = 0 /\ intervals = {}

Accept(s) ==
    /\ socket[s] = "closed" /\ accepted < MaxConnections
    /\ accepted' = accepted + 1
    /\ connection' = [connection EXCEPT ![s] = accepted']
    /\ socket' = [socket EXCEPT ![s] = "open"]
    /\ UNCHANGED <<levels, globalBackpressure, streamVars, intervals>>

(* A full window loses its oldest frame; a frame is never refused.              *)
WriteDroppingNewest ==                                          \* mutant
    LET full == Len(window) >= Capacity IN
    /\ written' = written + 1
    /\ dropped' = dropped + (IF full THEN 1 ELSE 0)
    /\ window' = Append(IF full THEN SubSeq(window, 1, Len(window) - 1) ELSE window, written')
    /\ windowPaused' = (windowPaused \/ Len(window') >= HighWatermark)
    /\ UNCHANGED <<taken, stalled>>
Write ==
    LET full == Len(window) >= Capacity IN
    /\ written' = written + 1
    /\ dropped' = dropped + (IF full THEN 1 ELSE 0)
    /\ window' = Append(IF full THEN Tail(window) ELSE window, written')
    /\ windowPaused' = (windowPaused \/ Len(window') >= HighWatermark)
    /\ UNCHANGED <<taken, stalled>>

Store(s) ==
    /\ socket[s] = "open" /\ ~globalBackpressure /\ written < MaxFrames
    /\ Write
    /\ SetBackpressure(s, IF windowPaused' THEN WARNING ELSE NORMAL)
    /\ UNCHANGED socketVars

HoldQuietly(s) ==                                               \* mutant
    /\ socket[s] = "open" /\ globalBackpressure
    /\ socket' = [socket EXCEPT ![s] = "paused"]
    /\ intervals' = intervals \cup {[sensor |-> s, connection |-> connection[s]]}
    /\ UNCHANGED <<levels, globalBackpressure, streamVars, connection, accepted>>
Hold(s) ==
    /\ socket[s] = "open" /\ globalBackpressure
    /\ socket' = [socket EXCEPT ![s] = "paused"]
    /\ SetBackpressure(s, CRITICAL)
    /\ intervals' = intervals \cup {[sensor |-> s, connection |-> connection[s]]}
    /\ UNCHANGED <<streamVars, connection, accepted>>

(* Every 50 ms; only a tick that finds the flag down does anything.  resume()   *)
(* reaches the connection the interval was set for, the level the address.      *)
CheckInterval(t) ==
    /\ t \in intervals /\ ~globalBackpressure
    /\ intervals' = intervals \ {t}
    /\ socket' = [socket EXCEPT ![t.sensor] =
                    IF connection[t.sensor] = t.connection /\ @ = "paused" THEN "open" ELSE @]
    /\ SetBackpressure(t.sensor, NORMAL)
    /\ UNCHANGED <<streamVars, connection, accepted>>

(* The close handler does not clear the interval.                               *)
Close(s) ==
    /\ socket[s] # "closed"
    /\ socket' = [socket EXCEPT ![s] = "closed"]
    /\ SetBackpressure(s, NORMAL)
    /\ UNCHANGED <<streamVars, connection, accepted, intervals>>

(* The stream pulls: frames are pushed until push() refuses, at least one when  *)
(* there is one.  A pull that finds nothing pushes nothing, and Node then never *)
(* pulls again.                                                                 *)
ReadResumingEarly(n) ==                                         \* mutant
    /\ ~stalled /\ n \in 0 .. Len(window) /\ (n = 0) = (window = <<>>)
    /\ window' = SubSeq(window, n + 1, Len(window))
    /\ taken' = taken + n
    /\ windowPaused' = (windowPaused /\ n = 0)
    /\ stalled' = (n = 0)
    /\ UNCHANGED <<levels, globalBackpressure, written, dropped, socketVars>>
Read(n) ==
    /\ ~stalled /\ n \in 0 .. Len(window) /\ (n = 0) = (window = <<>>)
    /\ window' = SubSeq(window, n + 1, Len(window))
    /\ taken' = taken + n
    /\ windowPaused' = (windowPaused /\ Len(window') > LowWatermark)
    /\ stalled' = (n = 0)
    /\ UNCHANGED <<levels, globalBackpressure, written, dropped, socketVars>>

(* A pool event (connect, acquire, release, remove) reports the pool's level.   *)
UpdateBackpressure(level) ==
    /\ level \in {NORMAL, CRITICAL} /\ levels[ConnectionPool] # level
    /\ SetBackpressure(ConnectionPool, level)
    /\ UNCHANGED <<streamVars, socketVars>>

GatewayNext ==
    \/ \E s \in Sensors : Accept(s) \/ Store(s) \/ Hold(s) \/ Close(s)
    \/ \E t \in intervals : CheckInterval(t)
    \/ \E n \in 0 .. Capacity : Read(n)
    \/ \E level \in Levels : UpdateBackpressure(level)
GatewaySpec == GatewayInit /\ [][GatewayNext]_gatewayVars
------------------------------------------------------------------------------
GatewayTypeOK ==
    /\ levels \in [Keys -> Levels] /\ globalBackpressure \in BOOLEAN
    /\ window \in Seq(Nat) /\ windowPaused \in BOOLEAN /\ stalled \in BOOLEAN
    /\ written \in Nat /\ dropped \in Nat /\ taken \in Nat /\ accepted \in Nat
    /\ socket \in [Sensors -> {"closed", "open", "paused"}]
    /\ connection \in [Sensors -> Nat]
    /\ intervals \subseteq [sensor : Sensors, connection : Nat]

(* The flag is up exactly while some key is above NORMAL, although it is only   *)
(* recomputed when a level changes (backpressure.ts:14-32).                     *)
GlobalAgrees == globalBackpressure <=> \E k \in Keys : levels[k] # NORMAL

(* A paused socket is CRITICAL and has the interval that alone can resume it    *)
(* (gateway.ts:52-65).                                                          *)
HeldSocketsWait ==
    \A s \in Sensors : socket[s] = "paused" =>
        levels[s] = CRITICAL /\ [sensor |-> s, connection |-> connection[s]] \in intervals

(* The window holds the newest frames in the order they were written, and every *)
(* other frame was read or dropped (buffer_manager.ts:31-58).                   *)
WindowIsNewest ==
    /\ written = dropped + taken + Len(window)
    /\ \A i \in 1 .. Len(window) : window[i] = written - Len(window) + i

(* The window pauses at the high watermark and stays paused down to the low one *)
(* (buffer_manager.ts:41-57).                                                   *)
Hysteresis == IF windowPaused THEN Len(window) > LowWatermark ELSE Len(window) < HighWatermark

(* A paused window still takes a frame, but the sensor that wrote it raises the *)
(* flag against all: after the one that paused it, each frame needs a sensor to *)
(* hang up, so a loss needs more hang-ups than the room above the watermark     *)
(* (gateway.ts:52-76, 89-91).                                                   *)
DropsNeedHangUps ==
    dropped > 0 => dropped + (Capacity - HighWatermark)
                     <= accepted - Cardinality({s \in Sensors : socket[s] # "closed"})

(* The whole of what backpressure holds and loses (backpressure.ts:14-48,       *)
(* gateway.ts:51-91, buffer_manager.ts:31-58): flag, levels, sockets and window *)
(* agree after any history of chunks, hang-ups, reads and pool events.          *)
BackpressureHolds ==
    GlobalAgrees /\ HeldSocketsWait /\ WindowIsNewest /\ Hysteresis /\ DropsNeedHangUps

(* The flag that holds a sensor back is kept up by that sensor's own level: the *)
(* interval's resume (gateway.ts:55-61) never reaches a socket it was meant for.*)
(* Once raised, a sensor's level returns to NORMAL only when it hangs up, and a *)
(* paused socket never reads again.                                             *)
OnlyHangUpsRelease ==
    [][\A s \in Sensors : levels[s] # NORMAL /\ levels'[s] = NORMAL => socket'[s] = "closed"]_gatewayVars
==============================================================================
