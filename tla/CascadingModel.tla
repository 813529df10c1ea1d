--------------------------- MODULE CascadingModel ---------------------------
(***************************************************************************)
(* The cascading failure model (src/health/cascading_model.ts): a Markov   *)
(* chain over the health of a service whose rates depend on the health of  *)
(* its dependencies, raised to the prediction window, and the search for   *)
(* risky paths.  Probabilities are integers, in units of 1/Unit; a product *)
(* is rounded down, where the code rounds a double.  The graph is that of  *)
(* dependency_graph.ts: the dependencies of each service, the dependents   *)
(* kept beside them, and the services ever named.                          *)
(***************************************************************************)
EXTENDS Integers, Sequences, FiniteSets, SequencesExt

CONSTANTS Services, MaxServices,
          Window,        \* predictionWindowMinutes
          Threshold      \* cascadingFailureThreshold, in units

ASSUME GraphAssumption == IsFiniteSet(Services) /\ MaxServices \in Nat /\ Window \in Nat

VARIABLES dependencies, dependents, allServices,
          serviceStates  \* CascadingModel.serviceStates

graphVars == <<dependencies, dependents, allServices>>

\* normalizeConfig: the services a configuration names, as keys or in lists.
Named(config) == DOMAIN config \cup UNION {config[s] : s \in DOMAIN config}

\* loadFromConfig refuses a configuration that names too many services.
LoadFromConfig(config) ==
  /\ Cardinality(Named(config)) =< MaxServices
  /\ dependencies = [s \in Services |-> IF s \in DOMAIN config THEN config[s] ELSE {}]
  /\ dependents = [s \in Services |-> {t \in DOMAIN config : s \in config[t]}]
  /\ allServices = Named(config)

\* The mutant: the dependents are not told of the new edge.
AddDependencyOneWay(from, to) ==
  /\ Cardinality(allServices \cup {from, to}) =< MaxServices
  /\ allServices' = allServices \cup {from, to}
  /\ dependencies' = [dependencies EXCEPT ![from] = @ \cup {to}]
  /\ dependents' = dependents

AddDependency(from, to) ==
  /\ Cardinality(allServices \cup {from, to}) =< MaxServices
  /\ allServices' = allServices \cup {from, to}
  /\ dependencies' = [dependencies EXCEPT ![from] = @ \cup {to}]
  /\ dependents' = [dependents EXCEPT ![to] = @ \cup {from}]

RemoveDependency(from, to) ==
  /\ dependencies' = [dependencies EXCEPT ![from] = @ \ {to}]
  /\ dependents' = [dependents EXCEPT ![to] = @ \ {from}]
  /\ UNCHANGED allServices

States == {"healthy", "degraded", "unhealthy"}
Unit == 10000

\* baseTransitionProbabilities.
Row(h, d, u) == [healthy |-> h, degraded |-> d, unhealthy |-> u]
Base == [healthy |-> Row(8500, 1300, 200), degraded |-> Row(3000, 5000, 2000), unhealthy |-> Row(1000, 2000, 7000)]
ImpactFactor == 3000

NoMore(x, limit) == IF x > limit THEN limit ELSE x
NoLess(x, limit) == IF x < limit THEN limit ELSE x

\* The mutant: the impact is not capped.
DependencyImpactUncapped(size, unhealthy, degraded) ==
  100 * size + ImpactFactor * unhealthy + (ImpactFactor \div 2) * degraded

\* The mutant: the half weight goes to the unhealthy dependencies.
DependencyImpactSwapped(size, unhealthy, degraded) ==
  NoMore(100 * size + ImpactFactor * degraded + (ImpactFactor \div 2) * unhealthy, 4000)

\* dependencyImpact, of so many dependencies of which so many are not healthy.
DependencyImpact(size, unhealthy, degraded) ==
  NoMore(100 * size + ImpactFactor * unhealthy + (ImpactFactor \div 2) * degraded, 4000)

Transitions(impact) ==
  LET hd == NoMore(Base.healthy.degraded + impact, 9500)
      hu == NoMore(Base.healthy.unhealthy + impact \div 2, 9500)
      du == NoMore(Base.degraded.unhealthy + impact, 9500)
      dd == NoLess(Base.degraded.degraded - impact \div 2, 500)
  IN  [healthy |-> Row(Unit - hd - hu, hd, hu), degraded |-> Row(Unit - dd - du, dd, du), unhealthy |-> Base.unhealthy]

MultiplyMatrices(a, b) ==
  [from \in States |-> [to \in States |->
     (a[from].healthy * b.healthy[to] + a[from].degraded * b.degraded[to] + a[from].unhealthy * b.unhealthy[to]) \div Unit]]

Identity == [from \in States |-> [to \in States |-> IF from = to THEN Unit ELSE 0]]

\* matrixPower, by squaring: one turn of the loop, and so many turns of it.
Turn(s) ==
  IF s.power = 0 THEN s
  ELSE [result |-> IF s.power % 2 = 1 THEN MultiplyMatrices(s.result, s.base) ELSE s.result,
        base |-> MultiplyMatrices(s.base, s.base), power |-> s.power \div 2]

MatrixPower(matrix, power) ==
  LET loop[k \in Nat] == IF k = 0 THEN [result |-> Identity, base |-> matrix, power |-> power] ELSE Turn(loop[k - 1])
  IN  loop[power].result

\* The future of every number of dependencies, unhealthy and degraded ones.
Counts == 0..Cardinality(Services)
Future == [size \in Counts |-> [unhealthy \in Counts |-> [degraded \in Counts |->
             MatrixPower(Transitions(DependencyImpact(size, unhealthy, degraded)), Window)]]]

\* How many of some dependencies are in a state; one never assessed is healthy.
CountIn(deps, states, st) == Cardinality({d \in deps \cap DOMAIN states : states[d] = st})

\* calculateUnhealthyProbability, given the health of the services.
UnhealthyProbability(service, current, states) ==
  LET deps == dependencies[service]
  IN  Future[Cardinality(deps)][CountIn(deps, states, "unhealthy")][CountIn(deps, states, "degraded")][current].unhealthy

StateOf(service, states) == IF service \in DOMAIN states THEN states[service] ELSE "healthy"

\* One call of dfs: the risk of its path, and the probability it hands on.
Visit(path, soFar, states) ==
  LET here == UnhealthyProbability(Last(path), StateOf(Last(path), states), states)
      product == (soFar * here) \div Unit
  IN  [path |-> path, risk |-> NoLess(here, product), soFar |-> NoMore(product, Unit)]

\* The mutant: the search may come back to a service of the path.
OnwardAround(path) == dependencies[Last(path)]

Onward(path) == dependencies[Last(path)] \ ToSet(path)

\* The calls of the search that are nested at most n deep, for every n.
Search(service, states) ==
  LET calls[n \in Nat] ==
        IF n = 0 THEN {Visit(<<service>>, Unit, states)}
        ELSE LET outer == calls[n - 1]
             IN  outer \cup UNION {{Visit(Append(v.path, d), v.soFar, states) : d \in Onward(v.path)} : v \in outer}
  IN  calls

\* findRiskyPaths: a path that never comes back has no more services than there are.
RiskyPaths(service, states) ==
  {v.path : v \in {w \in Search(service, states)[Cardinality(allServices)] : Len(w.path) > 1 /\ w.risk > Threshold}}
=============================================================================
