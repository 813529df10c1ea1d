--------------------------- MODULE WebSocketDrain ---------------------------
(***************************************************************************)
(* Telemetry connections and their shutdown: the state machine and timers  *)
(* of websocket/drain-controller.ts, the registry and scanner of           *)
(* websocket/connection-manager.ts, the frame queue of                     *)
(* websocket/telemetry-channel.ts and the lifecycle log, a RingBuffer.     *)
(* A handle is one socket; a device that reconnects brings another handle  *)
(* under its old socket id, once the old one has left the registry.  The   *)
(* controller's maps are keyed by socket id, its timers keep the handle.   *)
(* JavaScript runs a method and every listener it calls in one step.       *)
(***************************************************************************)
EXTENDS RingBuffer, FiniteSets, SequencesExt

CONSTANTS Handles, Ids,
          IdOf,            \* the socket id of each handle
          NoHandle,
          MaxPending,      \* MAX_PENDING_FRAMES
          RatioDen,        \* MAX_DRAINING_RATIO is 1 / RatioDen
          MaxFrames        \* bound on the queue of a channel

ASSUME DrainAssumption ==
  /\ IdOf \in [Handles -> Ids]
  /\ NoHandle \notin Handles
  /\ MaxPending \in Nat /\ RatioDen \in Nat \ {0} /\ MaxFrames \in Nat

VARIABLES states,          \* state of the entry of each id; "none": no entry
          pendingFrames,   \* of the entry of each id
          totalActive,
          grace, ack,      \* handles whose grace or ACK timer runs
          connections,     \* the registry: handles in insertion order
          quiet,           \* registered handles silent for QUIESCENCE_TIMEOUT_S
          holder,          \* the handle last registered under each id
          socket,          \* what has become of each handle
          queue,           \* length of each channel's pendingQueue
          handler,         \* channels with a frame handler
          recorded         \* everything ever pushed to the lifecycle log

entryVars == <<states, pendingFrames, totalActive, grace, ack>>
managerVars == <<connections, quiet, holder, socket, ringVars, recorded>>
channelVars == <<queue, handler>>
vars == <<entryVars, managerVars, channelVars>>

TypeOK ==
  /\ states \in [Ids -> {"none", "Active", "Draining", "Closed"}]
  /\ pendingFrames \in [Ids -> Nat]
  /\ totalActive \in Nat
  /\ grace \subseteq Handles /\ ack \subseteq Handles
  /\ connections \in Seq(Handles)
  /\ quiet \subseteq Handles
  /\ holder \in [Ids -> Handles \cup {NoHandle}]
  /\ socket \in [Handles -> {"new", "open", "closed"}]
  /\ queue \in [Handles -> 0..MaxFrames]
  /\ handler \subseteq Handles
  /\ recorded \in Seq(Handles \X {"open", "closed"})

Init ==
  /\ RingInit
  /\ states = [i \in Ids |-> "none"]
  /\ pendingFrames = [i \in Ids |-> 0]
  /\ totalActive = 0
  /\ grace = {} /\ ack = {}
  /\ connections = <<>>
  /\ quiet = {}
  /\ holder = [i \in Ids |-> NoHandle]
  /\ socket = [h \in Handles |-> "new"]
  /\ queue = [h \in Handles |-> 0]
  /\ handler = {}
  /\ recorded = <<>>

Connected == {connections[k] : k \in DOMAIN connections}
Draining == {i \in Ids : states[i] = "Draining"}
Total == totalActive + Cardinality(Draining)

\* The one handle whose owner may call about an id.
Holds(h) == holder[IdOf[h]] = h

Record(h, what) ==
  /\ Push(<<h, what>>)
  /\ recorded' = Append(recorded, <<h, what>>)

(***************************************************************************)
(* Plausible bugs: mutated forms of definitions below.                     *)
(***************************************************************************)
\* The guard is consulted once for all drains of a scan.
CanDrainOnce(ahead) == Cardinality(Draining) * RatioDen < Total

\* The ratio is taken as it will be with the connection draining.
CanDrainStrict(ahead) == (Cardinality(Draining) + ahead + 1) * RatioDen < Total

\* A purge always counts an Active connection less.
PurgeAlwaysCounts(h) ==
  /\ states' = [states EXCEPT ![IdOf[h]] = "none"]
  /\ pendingFrames' = [pendingFrames EXCEPT ![IdOf[h]] = 0]
  /\ totalActive' = totalActive - 1
  /\ grace' = {g \in grace : IdOf[g] # IdOf[h]}
  /\ ack' = {a \in ack : IdOf[a] # IdOf[h]}

\* A purge that leaves the timers of the id running.
PurgeKeepsTimers(h) ==
  /\ states' = [states EXCEPT ![IdOf[h]] = "none"]
  /\ pendingFrames' = [pendingFrames EXCEPT ![IdOf[h]] = 0]
  /\ totalActive' = IF states[IdOf[h]] = "Active" THEN totalActive - 1 ELSE totalActive
  /\ UNCHANGED <<grace, ack>>

\* The end of the grace window waits for the client's ACK, however late.
GraceEndsPatiently(h) ==
  /\ h \in grace
  /\ grace' = grace \ {h}
  /\ UNCHANGED <<states, pendingFrames, totalActive, ack, managerVars, channelVars>>

\* The listener forgets to record, ...
RecordCloseNever(i) == UNCHANGED <<connections, ringVars, recorded>>

\* ... or to take the connection out of the registry.
RecordCloseKeeps(i) ==
  /\ Record(holder[i], "closed")
  /\ UNCHANGED connections

\* A frame that is delivered is not acknowledged.
DeliverPendingUncounted(h, n) ==
  /\ queue' = [queue EXCEPT ![h] = 0]
  /\ UNCHANGED pendingFrames

(***************************************************************************)
(* The transitions of the DrainController.                                 *)
(***************************************************************************)
\* canDrain, when some connections ahead of it have begun to drain in the same
\* step, which does not change the total.
CanDrain(ahead) == (Cardinality(Draining) + ahead) * RatioDen < Total

\* initiateDrain passes its guards for the handles of H.
BeginDrain(H) ==
  /\ states' = [i \in Ids |-> IF \E h \in H : IdOf[h] = i THEN "Draining" ELSE states[i]]
  /\ totalActive' = totalActive - Cardinality(H)
  /\ grace' = grace \cup H
  /\ UNCHANGED ack

\* initiateDrain for one handle; deferred when too many are draining.
InitiateDrain(h) ==
  IF states[IdOf[h]] = "Active" /\ CanDrain(0)
  THEN BeginDrain({h})
  ELSE UNCHANGED <<states, totalActive, grace, ack>>

ClearTimers(i) ==
  /\ grace' = {g \in grace : IdOf[g] # i}
  /\ ack' = {a \in ack : IdOf[a] # i}

\* Where the registry has an id: at one position, or nowhere.
Registered(i) == {k \in DOMAIN connections : IdOf[connections[k]] = i}

\* connections.delete
Delete(i) ==
  IF Registered(i) = {} THEN UNCHANGED connections
  ELSE \E k \in Registered(i) : connections' = RemoveAt(connections, k)

\* recordClose, the listener of `connection_closed`.
RecordClose(i) ==
  IF Registered(i) = {} THEN UNCHANGED <<connections, ringVars, recorded>>
  ELSE Delete(i) /\ \E k \in Registered(i) : Record(connections[k], "closed")

\* transitionClosed for an entry that is there, and its listener.
TransitionClosed(h) ==
  /\ states' = [states EXCEPT ![IdOf[h]] = "Closed"]
  /\ totalActive' = IF states[IdOf[h]] = "Active" THEN totalActive - 1 ELSE totalActive
  /\ ClearTimers(IdOf[h])
  /\ socket' = [socket EXCEPT ![h] = "closed"]
  /\ RecordClose(IdOf[h])
  /\ quiet' = {q \in quiet : IdOf[q] # IdOf[h]}
  /\ UNCHANGED <<pendingFrames, holder, channelVars>>

Purge(h) ==
  /\ states' = [states EXCEPT ![IdOf[h]] = "none"]
  /\ pendingFrames' = [pendingFrames EXCEPT ![IdOf[h]] = 0]
  /\ totalActive' = IF states[IdOf[h]] = "Active" THEN totalActive - 1 ELSE totalActive
  /\ ClearTimers(IdOf[h])
(***************************************************************************)
(* The ConnectionManager.                                                  *)
(***************************************************************************)
\* A socket arrives; its id is not in the registry.
AddConnection(h) ==
  /\ socket[h] = "new" /\ Registered(IdOf[h]) = {}
  /\ states' = [states EXCEPT ![IdOf[h]] = "Active"]
  /\ pendingFrames' = [pendingFrames EXCEPT ![IdOf[h]] = 0]
  /\ totalActive' = totalActive + 1
  /\ connections' = Append(connections, h)
  /\ holder' = [holder EXCEPT ![IdOf[h]] = h]
  /\ socket' = [socket EXCEPT ![h] = "open"]
  /\ Record(h, "open")
  /\ handler' \in {handler, handler \cup {h}}
  /\ UNCHANGED <<grace, ack, quiet, queue>>

\* removeConnection: the entry is forgotten, the socket left to its owner.
RemoveConnection(h) ==
  /\ Holds(h)
  /\ Purge(h)
  /\ Delete(IdOf[h])
  /\ quiet' = {q \in quiet : IdOf[q] # IdOf[h]}
  /\ UNCHANGED <<holder, socket, ringVars, recorded, channelVars>>

\* The clock, and touchConnection.
GoQuiet(h) ==
  /\ h \in Connected \ quiet
  /\ quiet' = quiet \cup {h}
  /\ UNCHANGED <<entryVars, connections, holder, socket, ringVars, recorded, channelVars>>

Touch(h) ==
  /\ h \in Connected \cap quiet
  /\ quiet' = quiet \ {h}
  /\ UNCHANGED <<entryVars, connections, holder, socket, ringVars, recorded, channelVars>>

\* scanQuiescent: the quiet connections in their order, as many as may drain.
Silent == {k \in DOMAIN connections : connections[k] \in quiet /\ states[IdOf[connections[k]]] = "Active"}
Due == {k \in Silent : CanDrain(Cardinality({j \in Silent : j < k}))}

Scan ==
  /\ Due # {}
  /\ BeginDrain({connections[k] : k \in Due})
  /\ UNCHANGED <<pendingFrames, managerVars, channelVars>>

(***************************************************************************)
(* Drains on request, their ends, and closes by force.                     *)
(***************************************************************************)
Drain(h) ==
  /\ Holds(h)
  /\ InitiateDrain(h)
  /\ UNCHANGED <<pendingFrames, managerVars, channelVars>>

AcknowledgeDrain(h) ==
  /\ Holds(h) /\ states[IdOf[h]] = "Draining"
  /\ TransitionClosed(h)

\* The grace timer fires: startAckDeadline.  (A drain that was acknowledged is
\* Closed already, so ackReceived is never found set here.)
GraceEnds(h) ==
  /\ h \in grace
  /\ grace' = grace \ {h}
  /\ ack' = IF states[IdOf[h]] = "Draining" THEN ack \cup {h} ELSE ack
  /\ UNCHANGED <<states, pendingFrames, totalActive, managerVars, channelVars>>

AckDeadline(h) ==
  /\ h \in ack
  /\ TransitionClosed(h)

ForceClose(h) ==
  /\ Holds(h) /\ states[IdOf[h]] # "none"
  /\ TransitionClosed(h)

(***************************************************************************)
(* The TelemetryChannel.                                                   *)
(***************************************************************************)
\* The count p after n calls of ackFrame.
Acked(p, n) == IF p > n THEN p - n ELSE 0

\* deliverPending of n frames: each is shifted and acknowledged.
DeliverPending(h, n) ==
  /\ queue' = [queue EXCEPT ![h] = 0]
  /\ pendingFrames' = [pendingFrames EXCEPT ![IdOf[h]] = Acked(@, n)]

\* checkBackpressure, of an Active entry with p frames pending.
CheckBackpressure(h, p) ==
  IF p > MaxPending THEN InitiateDrain(h)
                    ELSE UNCHANGED <<states, totalActive, grace, ack>>

\* acceptFrame of an Active connection (of any other it does nothing).  Beyond
\* MAX_PENDING_FRAMES the frame is refused, though it has been queued, and a
\* drain is attempted; below, a handler gets the whole queue.
AcceptFrame(h) ==
  /\ Holds(h) /\ states[IdOf[h]] = "Active" /\ queue[h] < MaxFrames
  /\ LET n == queue[h] + 1
     IN  IF n <= MaxPending /\ h \in handler
         THEN /\ queue' = [queue EXCEPT ![h] = 0]
              /\ pendingFrames' = [pendingFrames EXCEPT ![IdOf[h]] = Acked(@ + 1, n)]
              /\ UNCHANGED <<states, totalActive, grace, ack>>
         ELSE /\ queue' = [queue EXCEPT ![h] = n]
              /\ pendingFrames' = [pendingFrames EXCEPT ![IdOf[h]] = @ + 1]
              /\ IF n > MaxPending
                 THEN CheckBackpressure(h, pendingFrames[IdOf[h]] + 1)
                 ELSE UNCHANGED <<states, totalActive, grace, ack>>
  /\ UNCHANGED <<managerVars, handler>>

\* flush(), in the grace window or later.
Flush(h) ==
  /\ Holds(h) /\ queue[h] > 0
  /\ DeliverPending(h, queue[h])
  /\ UNCHANGED <<states, totalActive, grace, ack, managerVars, handler>>

Owner(h) ==
  \/ AddConnection(h) \/ RemoveConnection(h) \/ Touch(h)
  \/ Drain(h) \/ AcknowledgeDrain(h) \/ ForceClose(h)
  \/ AcceptFrame(h) \/ Flush(h)

Clock(h) == GoQuiet(h) \/ GraceEnds(h) \/ AckDeadline(h)

Next == Scan \/ \E h \in Handles : Owner(h) \/ Clock(h)

Spec == Init /\ [][Next]_vars

\* Timers fire, and setInterval goes on scanning.
FairSpec ==
  /\ Spec /\ WF_vars(Scan)
  /\ \A h \in Handles : WF_vars(GraceEnds(h)) /\ WF_vars(AckDeadline(h))

(***************************************************************************)
(* Properties.                                                             *)
(***************************************************************************)
\* The counter behind the herd guard is the number of Active entries, whichever
\* of drain, close, force and purge takes a connection out.
ActiveCounted == totalActive = Cardinality({i \in Ids : states[i] = "Active"})

\* A connection that drains has exactly one timer, and no other has any: none
\* is left without an end, none is ended by a timer of an earlier one.
OneTimerPerDrain ==
  /\ grace \cup ack = {h \in Handles : Holds(h) /\ states[IdOf[h]] = "Draining"}
  /\ grace \cap ack = {}

\* The manager's registry and the controller's states, which meet only through
\* the event of a close, agree on which connections are alive.
RegistriesAgree ==
  Connected = {h \in Handles : Holds(h) /\ states[IdOf[h]] \in {"Active", "Draining"}}

\* The controller counts the frames that wait in the channel.
FramesCounted ==
  \A h \in Handles : Holds(h) /\ states[IdOf[h]] # "none" =>
    pendingFrames[IdOf[h]] = queue[h]

\* drain-controller.ts:67-269, connection-manager.ts:55-105,
\* telemetry-channel.ts:45-66: controller, manager and channels, which tell each
\* other only by events, agree on every connection, its timers and its frames.
ConnectionsAgree ==
  TypeOK /\ ActiveCounted /\ OneTimerPerDrain /\ RegistriesAgree /\ FramesCounted

\* The lifecycle log holds the newest of everything recorded, oldest first.
LogIsNewest ==
  LET n == Len(recorded)
  IN  Entries = IF n <= Capacity THEN recorded ELSE SubSeq(recorded, n - Capacity + 1, n)

\* Every socket the controller has closed is recorded as closed, once, however
\* often and in whatever way it was closed.
ClosedOnce ==
  \A h \in Handles :
    Cardinality({k \in DOMAIN recorded : recorded[k] = <<h, "closed">>}) = IF socket[h] = "closed" THEN 1 ELSE 0

\* connection-manager.ts:55-59, ring-buffer.ts:38-89: the lifecycle log tells
\* the newest history, and of each close once.
LogIsFaithful == LogIsNewest /\ ClosedOnce

\* No stampede: a step that makes connections drain leaves all but the last of
\* them within the ratio, also when a scan finds many quiet at once.
NoStampede ==
  [][Cardinality(Draining') > Cardinality(Draining) =>
       (Cardinality(Draining') - 1) * RatioDen < Total']_vars

\* A drain comes to an end, with the client's ACK or without it.
DrainsEnd ==
  \A h \in Handles :
    (Holds(h) /\ states[IdOf[h]] = "Draining") ~> (states[IdOf[h]] # "Draining")

\* A connection that stays quiet is drained, deferred as often as it may be.
QuietDrained ==
  \A h \in Handles :
    (h \in Connected \cap quiet) ~> (h \notin Connected \cap quiet \/ states[IdOf[h]] # "Active")

\* drain-controller.ts:186-209, connection-manager.ts:127-139: what goes quiet
\* is drained, and what drains ends.
EveryDrainEnds == DrainsEnd /\ QuietDrained
=============================================================================
