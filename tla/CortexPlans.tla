----------------------------- MODULE CortexPlans -----------------------------
(***************************************************************************)
(* What each controller's Reconcile does with a Cortex it has read: the    *)
(* status references it waits for, what it does while they are missing,    *)
(* and the children it reconciles, in order.                               *)
(*                                                                         *)
(*   gate   the references Reconcile requires before it does anything      *)
(*   polls  whether it asks to be requeued while the gate is closed        *)
(*   opens  references set in memory before the first step                 *)
(*   steps  the children in order; each may set a reference of its own     *)
(*          just before it is reconciled                                   *)
(*                                                                         *)
(* A reference is named after the workload it names.  "memcached" is the   *)
(* MemcachedRef struct itself, without which its fields cannot be set.     *)
(***************************************************************************)
EXTENDS CortexResources, Sequences

AllControllers ==
  {"Cortex", "Memcached", "Ingester", "Distributor", "Querier",
   "QueryFrontend", "Compactor", "StoreGateway", "RuntimeConfig", "Ruler",
   "AlertManager"}

Refs == CacheNames \cup DeploymentNames \cup StatefulSetNames
          \cup {"memcached", "ingester", "ruler", "alertmanager"}

Quiet(kind, name)    == [child |-> <<kind, name>>, refs |-> {}]
Recorded(kind, name) == [child |-> <<kind, name>>, refs |-> {name}]

\* Mutant: the status reference is set one step early, with the service.
ServedEarly(kind, name) ==
  <<[child |-> <<"Service", name>>, refs |-> {name}],
    [child |-> <<kind, name>>, refs |-> {}]>>

(* The common shape: a service, then the workload and its reference.       *)
Served(kind, name) == <<Quiet("Service", name), Recorded(kind, name)>>

Plan(gate, polls, opens, steps) ==
  [gate |-> gate, polls |-> polls, opens |-> opens, steps |-> steps]

CortexPlan ==
  Plan({}, FALSE, {},
       <<Quiet("ConfigMap", "config"), Quiet("ServiceAccount", "cortex"),
         Quiet("Service", "gossip-ring")>>)

RuntimeConfigPlan ==
  Plan({}, FALSE, {}, <<Quiet("ConfigMap", "runtime-config")>>)

MemcachedPlan ==
  Plan({}, FALSE, {"memcached"},
       Served("StatefulSet", "memcached-chunks")
         \o Served("StatefulSet", "memcached-index-queries")
         \o Served("StatefulSet", "memcached-index-writes")
         \o Served("StatefulSet", "memcached-results")
         \o Served("StatefulSet", "memcached-metadata"))

IngesterPlan     == Plan({}, FALSE, {}, Served("StatefulSet", "ingester"))
CompactorPlan    == Plan({}, FALSE, {}, Served("StatefulSet", "compactor"))
StoreGatewayPlan == Plan({}, FALSE, {}, Served("StatefulSet", "store-gateway"))
AlertManagerPlan == Plan({}, FALSE, {}, Served("Deployment", "alertmanager"))

\* Mutant: the distributor is deployed without waiting for the ingesters.
DistributorPlanUngated ==
  Plan({}, FALSE, {}, Served("Deployment", "distributor"))

DistributorPlan ==
  Plan({"ingester"}, FALSE, {}, Served("Deployment", "distributor"))

QuerierPlan ==
  Plan({"ingester"}, FALSE, {}, Served("Deployment", "querier"))

\* Mutant: the query-frontend waits for the ingesters, not the queriers.
QueryFrontendPlanWrongGate ==
  Plan({"ingester"}, FALSE, {}, Served("Deployment", "query-frontend"))

QueryFrontendPlan ==
  Plan({"querier"}, FALSE, {}, Served("Deployment", "query-frontend"))

\* Mutant: IsSet with one of its five conjuncts lost.
MemcachedIsSetFour ==
  {"memcached"} \cup (CacheNames \ {"memcached-metadata"})

(* MemcachedReference.IsSet: the struct and its five references.           *)
MemcachedIsSet == {"memcached"} \cup CacheNames

RulerPlan ==
  Plan(MemcachedIsSet, TRUE, {}, Served("Deployment", "ruler"))

PlanOf(c) ==
  CASE c = "Cortex"        -> CortexPlan
    [] c = "Memcached"     -> MemcachedPlan
    [] c = "Ingester"      -> IngesterPlan
    [] c = "Distributor"   -> DistributorPlan
    [] c = "Querier"       -> QuerierPlan
    [] c = "QueryFrontend" -> QueryFrontendPlan
    [] c = "Compactor"     -> CompactorPlan
    [] c = "StoreGateway"  -> StoreGatewayPlan
    [] c = "RuntimeConfig" -> RuntimeConfigPlan
    [] c = "Ruler"         -> RulerPlan
    [] c = "AlertManager"  -> AlertManagerPlan

(* Only NewCortexRuntimeConfigMap can fail, before anything is written.    *)
CannotBuild(c, spec) == c = "RuntimeConfig" /\ RuntimeConfigFails(spec)

ChildrenOf(c) ==
  {PlanOf(c).steps[k].child : k \in 1 .. Len(PlanOf(c).steps)}
=============================================================================
