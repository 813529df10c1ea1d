------------------------------ MODULE MCServices ------------------------------
(* The services that share no state with each other, on small instances: the     *)
(* sensor gateway, the rate limiter, tenant connection routing, certificate      *)
(* minting, the audit log, the ledger catch-up and the health evaluations.  Each *)
(* behaviour is one service's: the others stay at their first state, since       *)
(* interleaving what shares nothing shows nothing more.                          *)
EXTENDS TenantPool, SensorGateway, RateLimiter, MintService, AuditLogger, EventCatchup,
        HealthAggregator
CONSTANTS r1, r2, s1, s2, s3
VARIABLE service
servicesVars == <<gatewayVars, limiterVars, tenantVars, mintVars, auditVars, catchupVars, healthVars, service>>

HealthyPower == [batteryLow |-> FALSE, signalLow |-> FALSE]
TwoPowers == {HealthyPower, [HealthyPower EXCEPT !.batteryLow = TRUE]}
OwnKey == [s \in Subjects |-> s]
SetHashes == <<"a", "b", "c", "d", "e">>
OneEach == [p \in Pools |-> 1]
TwoTiers == [r \in Requests |-> IF r \in {r1, r2} THEN 1 ELSE 2]
(* Services of the health model in a chain with a cycle, or not configured, and    *)
(* two reports of their checks.                                                  *)
Chain == { <<>>, (s1 :> {s2}) @@ (s2 :> {s1, s3}) }
Report(live, ready, deep, age) ==
    [liveness |-> [status |-> live, age |-> age], readiness |-> [status |-> ready, age |-> 0],
     depth |-> [status |-> deep, age |-> 0]]
TwoReports == { Report("healthy", "healthy", "degraded", 1), Report("unhealthy", "unhealthy", "healthy", 0) }
(* Interchangeable members have the same names in every service, so that one     *)
(* small group of permutations serves them all.                                  *)
Alike == Permutations(Sensors) \cup Permutations(Devices) \cup Permutations({r1, r2})

Init ==
    /\ service \in {"gateway", "limiter", "tenants", "mint", "audit", "catchup", "health"}
    /\ GatewayInit /\ LimiterInit /\ TenantInit /\ MintInit
    /\ AuditInit /\ (service # "audit" => \A w \in Writers : writer[w].batch = ListenerBatch)
    /\ CatchupInit /\ (service # "catchup" => ledgerEvents = {1})
    /\ HealthInit /\ (service = "health" <=> allServices # {})

Next ==
    /\ UNCHANGED service
    /\ \/ /\ service = "gateway" /\ GatewayNext
          /\ UNCHANGED <<limiterVars, tenantVars, mintVars, auditVars, catchupVars, healthVars>>
       \/ /\ service = "limiter" /\ LimiterNext
          /\ UNCHANGED <<gatewayVars, tenantVars, mintVars, auditVars, catchupVars, healthVars>>
       \/ /\ service = "tenants" /\ TenantNext
          /\ UNCHANGED <<gatewayVars, limiterVars, mintVars, auditVars, catchupVars, healthVars>>
       \/ /\ service = "mint" /\ MintNext
          /\ UNCHANGED <<gatewayVars, limiterVars, tenantVars, auditVars, catchupVars, healthVars>>
       \/ /\ service = "audit" /\ AuditNext
          /\ UNCHANGED <<gatewayVars, limiterVars, tenantVars, mintVars, catchupVars, healthVars>>
       \/ /\ service = "catchup" /\ CatchupNext
          /\ UNCHANGED <<gatewayVars, limiterVars, tenantVars, mintVars, auditVars, healthVars>>
       \/ /\ service = "health" /\ HealthNext
          /\ UNCHANGED <<gatewayVars, limiterVars, tenantVars, mintVars, auditVars, catchupVars>>
Spec == Init /\ [][Next]_servicesVars

(* Every service's type invariant.                                               *)
TypeOK ==
    /\ GatewayTypeOK /\ LimiterTypeOK /\ TenantTypeOK /\ MintTypeOK /\ AuditTypeOK
    /\ CatchupTypeOK /\ HealthTypeOK
===============================================================================
