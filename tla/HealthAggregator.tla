-------------------------- MODULE HealthAggregator --------------------------
(***************************************************************************)
(* Health evaluations (src/health/aggregator.ts, checker.ts): rounds of    *)
(* checks that overlap, the latest result of each check, the state it      *)
(* gives each service, and the alerts on risky paths.                      *)
(***************************************************************************)
EXTENDS CascadingModel

CONSTANTS Configs,       \* dependency configurations the process may load
          Rounds,        \* evaluations that may overlap
          Reports,       \* what the three checks of a service may report:
                         \* a status, and how long before the round's end
          KeepFor,       \* aggregationWindowSeconds, in ticks
          Cooldown,      \* the five minutes between alerts, in ticks
          MaxNow,        \* bound: ticks
          Effort         \* bound: evaluations and changes of the graph

VARIABLES round,         \* each running evaluation: its start and services
          checkResults,  \* the latest result of each check of a service
          recentAlerts,  \* when each path was last alerted
          now, spent

aggVars == <<round, checkResults, recentAlerts>>
healthVars == <<dependencies, dependents, allServices, serviceStates, round, checkResults, recentAlerts, now, spent>>

Types == {"liveness", "readiness", "depth"}
Off == [start |-> 0, services |-> {}]
Missing == [status |-> "unhealthy", at |-> 0]

ASSUME HealthAssumption ==
  /\ \A config \in Configs : Named(config) \subseteq Services
  /\ \A report \in Reports, t \in Types : report[t].age \in Nat
  /\ KeepFor \in Nat /\ Cooldown \in Nat \ {0}

HealthInit ==
  /\ \E config \in Configs : LoadFromConfig(config)
  /\ serviceStates = <<>>
  /\ round = [r \in Rounds |-> Off]
  /\ checkResults = [s \in Services |-> [t \in Types |-> Missing]]
  /\ recentAlerts = <<>>
  /\ now = 1 /\ spent = 0

(***************************************************************************)
(* Scores.                                                                 *)
(***************************************************************************)
\* The score, in twentieths: 0.3, 0.4 and 0.3 of a value in halves.
StatusToValue(st) == CASE st = "healthy" -> 2 [] st = "degraded" -> 1 [] OTHER -> 0
AggregatedScore(res) ==
  3 * StatusToValue(res["liveness"].status) + 4 * StatusToValue(res["readiness"].status)
  + 3 * StatusToValue(res["depth"].status)

DetermineOverallState(score) ==
  IF score >= 16 THEN "healthy" ELSE IF score >= 8 THEN "degraded" ELSE "unhealthy"

\* The mutant: the result stored last counts as the latest.
LatestStored(old, new) == new

\* Of two results of a check, the one with the later timestamp.
Latest(old, new) == IF new.at > old.at THEN new ELSE old

\* storeCheckResults and cleanupOldResults.  A result that is not the latest
\* of its check is never read, so only the latest is kept.
StoreResults(old, new) ==
  [t \in Types |-> LET kept == Latest(old[t], new[t]) IN IF kept.at >= now - KeepFor THEN kept ELSE Missing]

Spend == spent < Effort /\ spent' = spent + 1

(***************************************************************************)
(* evaluateAll and evaluateService: the checks are awaited, the rest is    *)
(* one turn of the event loop.                                             *)
(***************************************************************************)
StartAll(r) ==
  /\ round[r] = Off /\ allServices # {} /\ Spend
  /\ round' = [round EXCEPT ![r] = [start |-> now, services |-> allServices]]
  /\ UNCHANGED <<graphVars, serviceStates, checkResults, recentAlerts, now>>

StartOne(r) ==
  /\ round[r] = Off /\ Spend
  /\ \E s \in allServices : round' = [round EXCEPT ![r] = [start |-> now, services |-> {s}]]
  /\ UNCHANGED <<graphVars, serviceStates, checkResults, recentAlerts, now>>

\* checkAll: each check answered, failed or timed out some time before the end.
Timed(report, start) ==
  [t \in Types |-> [status |-> report[t].status, at |-> NoLess(now - report[t].age, start)]]

\* The mutant: the states are judged by the results of earlier rounds.
JudgeBefore(services, results) ==
  [s \in services |-> DetermineOverallState(AggregatedScore(checkResults[s]))]

Judge(services, results) == [s \in services |-> DetermineOverallState(AggregatedScore(results[s]))]

\* The mutant: the cooldown holds for a service, whatever the path.
DueByService(p) ==
  \A q \in DOMAIN recentAlerts : Head(q) = Head(p) => now - recentAlerts[q] >= Cooldown

\* createAlerts: a path is alerted again after its cooldown.  Paths are told apart
\* by their names joined with '-', so names are taken to have none.
Due(p) == p \in DOMAIN recentAlerts => now - recentAlerts[p] >= Cooldown

Risky(s, states) == RiskyPaths(s, states)

Finish(r) ==
  /\ round[r] # Off
  /\ \E reports \in [round[r].services -> Reports] :
       LET evaluated == round[r].services
           results == [s \in Services |->
                         IF s \in evaluated THEN StoreResults(checkResults[s], Timed(reports[s], round[r].start))
                         ELSE checkResults[s]]
           judged == Judge(evaluated, results)
           states == [s \in DOMAIN serviceStates \cup evaluated |->
                        IF s \in evaluated THEN judged[s] ELSE serviceStates[s]]
           alerts == {p \in UNION {Risky(s, states) : s \in {e \in evaluated : judged[e] # "unhealthy"}} : Due(p)}
       IN  /\ checkResults' = results
           /\ serviceStates' = states
           /\ recentAlerts' = [p \in DOMAIN recentAlerts \cup alerts |-> IF p \in alerts THEN now ELSE recentAlerts[p]]
  /\ round' = [round EXCEPT ![r] = Off]
  /\ UNCHANGED <<graphVars, now, spent>>

Edit ==
  /\ Spend
  /\ \E from, to \in Services : AddDependency(from, to) \/ RemoveDependency(from, to)
  /\ UNCHANGED <<serviceStates, aggVars, now>>

Tick == now < MaxNow /\ now' = now + 1 /\ UNCHANGED <<graphVars, serviceStates, aggVars, spent>>

HealthNext == Edit \/ Tick \/ \E r \in Rounds : StartAll(r) \/ StartOne(r) \/ Finish(r)

HealthSpec == HealthInit /\ [][HealthNext]_healthVars

(***************************************************************************)
(* Properties.                                                             *)
(***************************************************************************)
HealthTypeOK ==
  /\ DOMAIN serviceStates \subseteq allServices /\ \A s \in DOMAIN serviceStates : serviceStates[s] \in States
  /\ \A s \in Services, t \in Types : checkResults[s][t].at \in 0..now
  /\ \A r \in Rounds : round[r].services \subseteq allServices /\ round[r].start \in 0..now
  /\ \A p \in DOMAIN recentAlerts : recentAlerts[p] \in 1..now
  /\ allServices \subseteq Services /\ Cardinality(allServices) =< MaxServices

\* dependency_graph.ts:16-18, 30-95: the dependents are the dependencies
\* read backwards, and every service of an edge is monitored.
MirrorsAgree ==
  \A s, t \in Services : /\ t \in dependencies[s] <=> s \in dependents[t]
                         /\ t \in dependencies[s] => {s, t} \subseteq allServices

\* aggregator.ts:131-144: however rounds overlap, the state the risks are
\* computed from is the one the stored results of the service give.
StatesFollowResults ==
  \A s \in DOMAIN serviceStates : serviceStates[s] = DetermineOverallState(AggregatedScore(checkResults[s]))

\* aggregator.ts:183-190: a round that was slow to finish does not put an
\* older result in place of a newer one that is still in the window.
ResultsNeverGoBack ==
  [][\A s \in Services, t \in Types : \/ checkResults'[s][t].at >= checkResults[s][t].at
                                      \/ checkResults[s][t].at < now - KeepFor]_healthVars

\* cascading_model.ts:106-134: the rows of the chain of every service are
\* probabilities, whatever is wrong with its dependencies.
RowsAreDistributions ==
  \A s \in allServices :
    LET deps == dependencies[s]
        impact == DependencyImpact(Cardinality(deps), CountIn(deps, serviceStates, "unhealthy"),
                                   CountIn(deps, serviceStates, "degraded"))
    IN  \A from, to \in States : Transitions(impact)[from][to] \in 0..Unit

\* cascading_model.ts:50-56, 160-180: a service is no safer over the window
\* when one of its dependencies gets worse.
RiskRisesWithDependencies ==
  \A s \in allServices, current \in States : \A d \in dependencies[s] :
    LET with(st) == UnhealthyProbability(s, current, [t \in DOMAIN serviceStates \cup {d} |->
                                            IF t = d THEN st ELSE serviceStates[t]])
    IN  with("healthy") =< with("degraded") /\ with("degraded") =< with("unhealthy")

SimplePaths(s) ==
  {p \in UNION {[1..n -> allServices] : n \in 2..Cardinality(allServices)} :
     /\ p[1] = s /\ \A i, j \in DOMAIN p : p[i] = p[j] => i = j
     /\ \A i \in 1..(Len(p) - 1) : p[i + 1] \in dependencies[p[i]]}

\* cascading_model.ts:58-92: the search ends in a cyclic graph, and finds the
\* simple paths that end at a service whose own risk is over the threshold.
PathsAreExact ==
  \A s \in allServices :
    Risky(s, serviceStates) =
      {p \in SimplePaths(s) : UnhealthyProbability(Last(p), StateOf(Last(p), serviceStates), serviceStates) > Threshold}

\* aggregator.ts:233-267: after an evaluation of everything, each risky path
\* of a service that works has been alerted within the cooldown.
RisksAreAlerted ==
  [][\A r \in Rounds : (round[r] # Off /\ round'[r] = Off /\ round[r].services = allServices) =>
       \A s \in allServices : serviceStates'[s] # "unhealthy" =>
         \A p \in Risky(s, serviceStates') : p \in DOMAIN recentAlerts' /\ now - recentAlerts'[p] < Cooldown]_healthVars

\* cascading_model.ts:50-135, aggregator.ts:131-144: whatever the graph and the
\* order of the rounds, the risks are computed from the newest states, and are
\* those of the reference definition.
RisksAreExact ==
  MirrorsAgree /\ StatesFollowResults /\ RowsAreDistributions /\ RiskRisesWithDependencies /\ PathsAreExact

\* aggregator.ts:183-267: a round that finishes late undoes nothing a later one
\* has stored, and leaves no risk without its alert.
RoundsAgree == ResultsNeverGoBack /\ RisksAreAlerted
=============================================================================
