------------------------ MODULE CortexOperatorProofs ------------------------
(***************************************************************************)
(* Proofs about the operator, for every set of controllers, specs, edits   *)
(* and bounds.                                                             *)
(***************************************************************************)
EXTENDS CortexProperties, TLAPS

----------------------------------------------------------------------------
(* Plans *)

(* A plan is well formed: it has steps, names only references of the       *)
(* status, and its workloads are known ones.                               *)
PlanShape(plan) ==
  /\ plan.gate \subseteq Refs
  /\ plan.opens \subseteq Refs
  /\ Len(plan.steps) \in Nat \ {0}
  /\ \A k \in 1 .. Len(plan.steps) :
       /\ plan.steps[k].refs \subseteq Refs
       /\ Workload(plan.steps[k].child[1])
            => plan.steps[k].child[2] \in Workloads

(* Everything a plan creates or publishes depends only on its gate.        *)
PlanSound(plan) ==
  /\ \A r \in plan.opens : DependsOn(r) \subseteq plan.gate
  /\ \A k \in 1 .. Len(plan.steps) :
       /\ DependsOn(plan.steps[k].child[2]) \subseteq plan.gate
       /\ \A r \in plan.steps[k].refs : DependsOn(r) \subseteq plan.gate

(* A service and its workload are two steps.                               *)
LEMMA ServedSteps ==
  ASSUME NEW kind, NEW name
  PROVE  /\ Len(Served(kind, name)) = 2
         /\ Served(kind, name)[1] = Quiet("Service", name)
         /\ Served(kind, name)[2] = Recorded(kind, name)
BY DEF Served

(* A controller of the common shape has a sound plan when its gate covers  *)
(* what its workload depends on.                                           *)
LEMMA ServedPlan ==
  ASSUME NEW kind, NEW name \in Refs \cap Workloads, NEW gate \in SUBSET Refs,
         NEW polls, DependsOn(name) \subseteq gate
  PROVE  /\ PlanShape(Plan(gate, polls, {}, Served(kind, name)))
         /\ PlanSound(Plan(gate, polls, {}, Served(kind, name)))
<1> DEFINE plan == Plan(gate, polls, {}, Served(kind, name))
<1>1. /\ plan.gate = gate
      /\ plan.opens = {}
      /\ plan.steps = Served(kind, name)
  BY DEF Plan
<1>2. ASSUME NEW k \in 1 .. Len(Served(kind, name))
      PROVE  /\ Served(kind, name)[k].refs \subseteq {name}
             /\ Served(kind, name)[k].child[2] = name
  <2>1. k \in 1 .. 2
    BY ServedSteps
  <2>2. CASE k = 1
    <3>1. Served(kind, name)[k] = [child |-> <<"Service", name>>, refs |-> {}]
      BY <2>2, ServedSteps DEF Quiet
    <3> QED
      BY <3>1
  <2>3. CASE k = 2
    <3>1. Served(kind, name)[k] = [child |-> <<kind, name>>, refs |-> {name}]
      BY <2>3, ServedSteps DEF Recorded
    <3> QED
      BY <3>1
  <2> QED
    BY <2>1, <2>2, <2>3
<1>3. PlanShape(plan)
  BY <1>1, <1>2, ServedSteps DEF PlanShape
<1>4. PlanSound(plan)
  BY <1>1, <1>2 DEF PlanSound
<1> QED
  BY <1>3, <1>4

(* The caches are ten steps that depend on nothing.                        *)
LEMMA MemcachedPlanSound ==
  PlanShape(MemcachedPlan) /\ PlanSound(MemcachedPlan)
<1> DEFINE S == {Quiet("Service", n) : n \in CacheNames}
                  \cup {Recorded("StatefulSet", n) : n \in CacheNames}
           Pair(n) == Served("StatefulSet", n)
<1>1. ASSUME NEW n \in CacheNames
      PROVE  Pair(n) \in Seq(S) /\ Len(Pair(n)) = 2
  <2>1. Quiet("Service", n) \in S /\ Recorded("StatefulSet", n) \in S
    OBVIOUS
  <2> QED
    BY <2>1 DEF Served
<1> HIDE DEF S, Pair
<1>2. /\ MemcachedPlan.gate = {}
      /\ MemcachedPlan.opens = {"memcached"}
      /\ MemcachedPlan.steps =
           Pair("memcached-chunks") \o Pair("memcached-index-queries")
             \o Pair("memcached-index-writes") \o Pair("memcached-results")
             \o Pair("memcached-metadata")
  BY DEF MemcachedPlan, Plan, Pair
<1>3. /\ "memcached-chunks" \in CacheNames
      /\ "memcached-index-queries" \in CacheNames
      /\ "memcached-index-writes" \in CacheNames
      /\ "memcached-results" \in CacheNames
      /\ "memcached-metadata" \in CacheNames
  BY DEF CacheNames
<1>4. MemcachedPlan.steps \in Seq(S) /\ Len(MemcachedPlan.steps) \in Nat \ {0}
  BY <1>1, <1>2, <1>3
<1>5. ASSUME NEW k \in 1 .. Len(MemcachedPlan.steps)
      PROVE  /\ MemcachedPlan.steps[k].refs \subseteq CacheNames
             /\ MemcachedPlan.steps[k].child[2] \in CacheNames
  <2>1. MemcachedPlan.steps[k] \in S
    BY <1>4
  <2> QED
    BY <2>1 DEF S, Quiet, Recorded
<1>6. \A r \in CacheNames \cup {"memcached"} : DependsOn(r) = {}
  BY DEF DependsOn, CacheNames
<1>7. CacheNames \cup {"memcached"} \subseteq Refs
  BY DEF Refs
<1> QED
  BY <1>2, <1>4, <1>5, <1>6, <1>7 DEF PlanShape, PlanSound, Workloads

(* Configuration, account and gossip ring set no reference.                *)
LEMMA ConfigPlansSound ==
  /\ PlanShape(CortexPlan) /\ PlanSound(CortexPlan)
  /\ PlanShape(RuntimeConfigPlan) /\ PlanSound(RuntimeConfigPlan)
<1>1. /\ CortexPlan.gate = {} /\ CortexPlan.opens = {}
      /\ Len(CortexPlan.steps) = 3
      /\ CortexPlan.steps[1] = Quiet("ConfigMap", "config")
      /\ CortexPlan.steps[2] = Quiet("ServiceAccount", "cortex")
      /\ CortexPlan.steps[3] = Quiet("Service", "gossip-ring")
  BY DEF CortexPlan, Plan
<1>2. /\ RuntimeConfigPlan.gate = {} /\ RuntimeConfigPlan.opens = {}
      /\ Len(RuntimeConfigPlan.steps) = 1
      /\ RuntimeConfigPlan.steps[1] = Quiet("ConfigMap", "runtime-config")
  BY DEF RuntimeConfigPlan, Plan
<1>3. /\ DependsOn("config") = {} /\ DependsOn("cortex") = {}
      /\ DependsOn("gossip-ring") = {} /\ DependsOn("runtime-config") = {}
  BY DEF DependsOn
<1>4. ASSUME NEW k \in 1 .. 3
      PROVE  /\ CortexPlan.steps[k].refs = {}
             /\ DependsOn(CortexPlan.steps[k].child[2]) = {}
             /\ ~Workload(CortexPlan.steps[k].child[1])
  <2>1. k = 1 \/ k = 2 \/ k = 3
    OBVIOUS
  <2> QED
    BY <2>1, <1>1, <1>3 DEF Quiet, Workload
<1>5. /\ RuntimeConfigPlan.steps[1].refs = {}
      /\ DependsOn(RuntimeConfigPlan.steps[1].child[2]) = {}
      /\ ~Workload(RuntimeConfigPlan.steps[1].child[1])
  BY <1>2, <1>3 DEF Quiet, Workload
<1>6. PlanShape(CortexPlan) /\ PlanSound(CortexPlan)
  BY <1>1, <1>4 DEF PlanShape, PlanSound
<1>7. PlanShape(RuntimeConfigPlan) /\ PlanSound(RuntimeConfigPlan)
  BY <1>2, <1>5 DEF PlanShape, PlanSound
<1> QED
  BY <1>6, <1>7

(* The plan of every controller is well formed, and waits for whatever its *)
(* children depend on: the gates of the eleven Reconcile methods are the   *)
(* right ones.                                                             *)
LEMMA PlansSound ==
  ASSUME NEW c \in Controllers
  PROVE  PlanShape(PlanOf(c)) /\ PlanSound(PlanOf(c))
<1> USE ServedPlan
<1>1. /\ {"ingester", "distributor", "querier", "query-frontend", "compactor",
          "store-gateway", "ruler", "alertmanager"} \subseteq Refs
      /\ {"ingester", "distributor", "querier", "query-frontend", "compactor",
          "store-gateway", "ruler", "alertmanager"} \subseteq Workloads
      /\ MemcachedIsSet \subseteq Refs
  BY DEF Refs, CacheNames, DeploymentNames, StatefulSetNames, MemcachedIsSet,
         Workloads, Stateful, Stateless
<1>2. /\ DependsOn("ingester") = {} /\ DependsOn("compactor") = {}
      /\ DependsOn("store-gateway") = {} /\ DependsOn("alertmanager") = {}
      /\ DependsOn("distributor") = {"ingester"}
      /\ DependsOn("querier") = {"ingester"}
      /\ DependsOn("query-frontend") = {"querier"}
      /\ DependsOn("ruler") = CacheNames
  BY DEF DependsOn
<1>3. CASE c = "Cortex" \/ c = "RuntimeConfig"
  BY <1>3, ConfigPlansSound DEF PlanOf
<1>4. CASE c = "Memcached"
  BY <1>4, MemcachedPlanSound DEF PlanOf
<1>5. CASE c = "Ingester"
  BY <1>1, <1>2, <1>5 DEF PlanOf, IngesterPlan
<1>6. CASE c = "Compactor"
  BY <1>1, <1>2, <1>6 DEF PlanOf, CompactorPlan
<1>7. CASE c = "StoreGateway"
  BY <1>1, <1>2, <1>7 DEF PlanOf, StoreGatewayPlan
<1>8. CASE c = "AlertManager"
  BY <1>1, <1>2, <1>8 DEF PlanOf, AlertManagerPlan
<1>9. CASE c = "Distributor"
  BY <1>1, <1>2, <1>9 DEF PlanOf, DistributorPlan
<1>10. CASE c = "Querier"
  BY <1>1, <1>2, <1>10 DEF PlanOf, QuerierPlan
<1>11. CASE c = "QueryFrontend"
  BY <1>1, <1>2, <1>11 DEF PlanOf, QueryFrontendPlan
<1>12. CASE c = "Ruler"
  <2>1. DependsOn("ruler") \subseteq MemcachedIsSet
    BY <1>2 DEF MemcachedIsSet
  <2> QED
    BY <1>1, <2>1, <1>12 DEF PlanOf, RulerPlan
<1> QED
  BY ControllersAssumption, <1>3, <1>4, <1>5, <1>6, <1>7, <1>8, <1>9, <1>10,
     <1>11, <1>12 DEF AllControllers

----------------------------------------------------------------------------
(* Type correctness *)

(* An idle worker is at the first step of its plan, which has one.         *)
LEMMA IdleRecord ==
  ASSUME NEW c \in Controllers
  PROVE  WorkRecord(c, Idle)
<1>1. Gone(0, 0) \in Snapshots
  BY DEF Gone, Snapshots
<1>2. Len(Steps(c)) \in Nat \ {0}
  BY PlansSound DEF PlanShape, Steps
<1> QED
  BY <1>1, <1>2 DEF Idle, WorkRecord

(* One worker's record replaced by another for the same controller.        *)
LEMMA SetWork ==
  ASSUME NEW f, WorkMap(f), NEW c \in Controllers, NEW w, WorkRecord(c, w)
  PROVE  WorkMap([f EXCEPT ![c] = w])
BY DEF WorkMap

(* A worker that changes its phase stays at its step.                      *)
LEMMA SetPhase ==
  ASSUME NEW f, WorkMap(f), NEW c \in Controllers,
         NEW phase \in {"idle", "apply", "status"}
  PROVE  WorkMap([f EXCEPT ![c].phase = phase])
<1>1. WorkRecord(c, f[c])
  BY DEF WorkMap
<1>2. WorkRecord(c, [f[c] EXCEPT !.phase = phase])
  BY <1>1 DEF WorkRecord
<1> QED
  BY <1>2, SetWork

(* A child created with an owner, as the API server does for a create.     *)
LEMMA PutChild ==
  ASSUME NEW f, ChildMap(f), NEW i \in Managed, NEW o \in Nat, NEW d
  PROVE  ChildMap(Put(f, i, [owner |-> o, data |-> d]))
BY DEF ChildMap, Put

(* A child copied from another map, as an informer does.                   *)
LEMMA CopyChild ==
  ASSUME NEW f, ChildMap(f), NEW g, ChildMap(g), NEW i \in DOMAIN g
  PROVE  ChildMap(Put(f, i, g[i]))
BY DEF ChildMap, Put

(* A child removed, by the collector or from an informer's cache.          *)
LEMMA DropChild ==
  ASSUME NEW f, ChildMap(f), NEW i
  PROVE  ChildMap(Drop(f, i))
BY DEF ChildMap, Drop

(* A child updated in place: Reconcile's update keeps its owner.           *)
LEMMA SetData ==
  ASSUME NEW f, ChildMap(f), NEW i, NEW d
  PROVE  ChildMap([f EXCEPT ![i].data = d])
<1> DEFINE g == [f EXCEPT ![i].data = d]
<1>1. /\ DOMAIN g = DOMAIN f
      /\ g = [j \in DOMAIN g |-> g[j]]
      /\ \A j \in DOMAIN f : j # i => g[j] = f[j]
  BY DEF ChildMap
<1>2. ASSUME i \in DOMAIN f
      PROVE  g[i] = [owner |-> f[i].owner, data |-> d]
  <2>1. f[i] = [owner |-> f[i].owner, data |-> f[i].data]
    BY <1>2 DEF ChildMap
  <2>2. g[i] = [f[i] EXCEPT !.data = d]
    BY <1>2
  <2> QED
    BY <2>1, <2>2
<1> HIDE DEF g
<1>3. \A j \in DOMAIN g : /\ g[j] = [owner |-> g[j].owner, data |-> g[j].data]
                          /\ g[j].owner \in Nat
  BY <1>1, <1>2 DEF ChildMap
<1>4. ChildMap(g)
  BY <1>1, <1>3 DEF ChildMap
<1> QED
  BY <1>4 DEF g

(* A new version of the Cortex, with another spec or another status.       *)
LEMMA SetSpec ==
  ASSUME NEW s \in Snapshots, NEW spec \in Specs
  PROVE  [s EXCEPT !.spec = spec, !.rv = @ + 1] \in Snapshots
<1>1. s.rv + 1 \in Nat
  BY DEF Snapshots
<1>2. ASSUME NEW n \in Nat
      PROVE  [s EXCEPT !.spec = spec, !.rv = n] \in Snapshots
  BY DEF Snapshots
<1> QED
  BY <1>1, <1>2

(* A status write stores a well-formed version.                            *)
LEMMA SetStatus ==
  ASSUME NEW s \in Snapshots, NEW status \in SUBSET Refs
  PROVE  [s EXCEPT !.status = status, !.rv = @ + 1] \in Snapshots
<1>1. s.rv + 1 \in Nat
  BY DEF Snapshots
<1>2. ASSUME NEW n \in Nat
      PROVE  [s EXCEPT !.status = status, !.rv = n] \in Snapshots
  BY DEF Snapshots
<1> QED
  BY <1>1, <1>2

(* What the step a worker is at may touch.                                 *)
LEMMA StepFacts ==
  ASSUME TypeOK, NEW c \in Controllers
  PROVE  /\ Target(c) \in Managed
         /\ Step(c).refs \subseteq Refs
         /\ Pending(c) \subseteq Refs
         /\ Written(c) \in Snapshots
<1>1. WorkRecord(c, work[c])
  BY DEF TypeOK, WorkMap
<1>2. PlanShape(PlanOf(c))
  BY PlansSound
<1>3. work[c].step \in 1 .. Len(PlanOf(c).steps)
  BY <1>1 DEF WorkRecord, Steps
<1>4. Target(c) \in Managed
  BY <1>3 DEF Target, Step, Steps, Managed, ChildrenOf
<1>5. Step(c).refs \subseteq Refs
  BY <1>2, <1>3 DEF PlanShape, Step, Steps
<1>6. work[c].copy.status \subseteq Refs
  BY <1>1 DEF WorkRecord, Snapshots
<1>7. Pending(c) \subseteq Refs
  BY <1>2, <1>5, <1>6 DEF PlanShape, Pending
<1>8. Written(c) \in Snapshots
  BY <1>7, SetStatus DEF TypeOK, Written
<1> QED
  BY <1>4, <1>5, <1>7, <1>8

(* The variables that describe the API server, and how each group of       *)
(* actions keeps their types.                                              *)
ApiOK ==
  /\ cortex \in Snapshots
  /\ watch \in Seq(Snapshots)
  /\ ChildMap(children)
  /\ stale \subseteq Managed

(* Storing a version keeps the Cortex and its watch well formed.           *)
LEMMA StoreType ==
  ASSUME TypeOK, NEW new \in Snapshots, Store(new)
  PROVE  cortex' \in Snapshots /\ watch' \in Seq(Snapshots)
BY DEF TypeOK, Store

(* A create or an update keeps the API server's state well formed.         *)
LEMMA WriteType ==
  ASSUME TypeOK, NEW c \in Controllers, CreateChild(c) \/ UpdateChild(c)
  PROVE  ApiOK'
<1>1. Target(c) \in Managed
  BY StepFacts
<1>2. CASE CreateChild(c)
  <2>1. work[c].copy.uid \in Nat
    BY DEF TypeOK, WorkMap, WorkRecord, Snapshots
  <2>2. ChildMap(children')
    BY <1>1, <1>2, <2>1, PutChild DEF TypeOK, CreateChild
  <2> QED
    BY <1>1, <1>2, <2>2 DEF TypeOK, ApiOK, CreateChild
<1>3. CASE UpdateChild(c)
  <2>1. children' = [children EXCEPT ![Target(c)].data = Object(c)]
    BY <1>3 DEF UpdateChild
  <2>2. ChildMap(children')
    BY <2>1, SetData DEF TypeOK
  <2> QED
    BY <1>1, <1>3, <2>2 DEF TypeOK, ApiOK, UpdateChild
<1> QED
  BY <1>2, <1>3

(* So does a write of the status.                                          *)
LEMMA PublishType ==
  ASSUME TypeOK, NEW c \in Controllers, PublishStatus(c)
  PROVE  ApiOK'
<1>1. cortex' \in Snapshots /\ watch' \in Seq(Snapshots)
  BY StepFacts, StoreType DEF TypeOK, PublishStatus
<1> QED
  BY <1>1 DEF TypeOK, ApiOK, PublishStatus

(* The type invariant is inductive.                                        *)
LEMMA TypeStep == TypeOK /\ [Next]_vars => TypeOK'
<1> SUFFICES ASSUME TypeOK, [Next]_vars
             PROVE  TypeOK'
  OBVIOUS
<1> USE DEF apiVars, infVars, ctlVars
<1>1. CASE CreateCortex
  <2>1. PICK spec \in Specs :
          /\ Store([alive |-> TRUE, uid |-> cortex.uid + 1,
                    rv |-> cortex.rv + 1, spec |-> spec, status |-> {}])
          /\ UNCHANGED <<children, stale, infVars, ctlVars, used>>
    BY <1>1 DEF CreateCortex
  <2>2. [alive |-> TRUE, uid |-> cortex.uid + 1, rv |-> cortex.rv + 1,
         spec |-> spec, status |-> {}] \in Snapshots
    BY DEF TypeOK, Snapshots
  <2> QED
    BY <2>1, <2>2, StoreType DEF TypeOK
<1>2. CASE EditSpec
  <2>1. PICK spec \in Specs :
          /\ Store([cortex EXCEPT !.spec = spec, !.rv = @ + 1])
          /\ Spend("edits")
          /\ UNCHANGED <<children, stale, infVars, ctlVars>>
    BY <1>2 DEF EditSpec
  <2>2. [cortex EXCEPT !.spec = spec, !.rv = @ + 1] \in Snapshots
    BY SetSpec DEF TypeOK
  <2>3. used' \in [edits : Nat, faults : Nat, crashes : Nat, resyncs : Nat]
    BY <2>1 DEF TypeOK, Spend
  <2> QED
    BY <2>1, <2>2, <2>3, StoreType DEF TypeOK
<1>3. CASE DeleteCortex
  <2>1. PICK orphans \in SUBSET DOMAIN children :
          /\ Store(Gone(cortex.uid, cortex.rv + 1))
          /\ children' = [i \in DOMAIN children |->
                            [children[i] EXCEPT
                               !.owner = IF i \in orphans THEN 0 ELSE @]]
          /\ stale' = stale \cup orphans
          /\ UNCHANGED <<infVars, ctlVars, used>>
    BY <1>3 DEF DeleteCortex
  <2>2. Gone(cortex.uid, cortex.rv + 1) \in Snapshots
    BY DEF TypeOK, Snapshots, Gone
  <2>3. ChildMap(children')
    BY <2>1 DEF TypeOK, ChildMap
  <2>4. stale' \subseteq Managed
    BY <2>1 DEF TypeOK, ChildMap
  <2> QED
    BY <2>1, <2>2, <2>3, <2>4, StoreType DEF TypeOK
<1>4. CASE Deliver
  <2>1. cache' \in Snapshots /\ watch' \in Seq(Snapshots)
    BY <1>4 DEF TypeOK, Deliver
  <2> QED
    BY <1>4, <2>1 DEF TypeOK, Deliver
<1>5. CASE Resync
  <2>1. used' \in [edits : Nat, faults : Nat, crashes : Nat, resyncs : Nat]
    BY <1>5 DEF TypeOK, Resync, Spend
  <2> QED
    BY <1>5, <2>1 DEF TypeOK, Resync
<1>r. ASSUME Restarted
      PROVE  WorkMap(work')
  BY <1>r, IdleRecord DEF Restarted, WorkMap
<1>6. CASE Crash
  <2>1. used' \in [edits : Nat, faults : Nat, crashes : Nat, resyncs : Nat]
    BY <1>6 DEF TypeOK, Crash, Spend
  <2> QED
    BY <1>6, <1>r, <2>1 DEF TypeOK, Restarted, Crash
<1>p. ASSUME NEW c \in Controllers, Panic(c)
      PROVE  TypeOK'
  BY <1>p, <1>r DEF TypeOK, Restarted, Panic
<1>7. ASSUME NEW i \in Managed, Collect(i)
      PROVE  TypeOK'
  <2>1. ChildMap(children')
    BY <1>7, DropChild DEF TypeOK, Collect
  <2> QED
    BY <1>7, <2>1 DEF TypeOK, Collect
<1>8. ASSUME NEW i \in Managed, SyncChild(i)
      PROVE  TypeOK'
  <2>1. ChildMap(childCache')
    BY <1>8, CopyChild, DropChild DEF TypeOK, SyncChild
  <2> QED
    BY <1>8, <2>1 DEF TypeOK, SyncChild
<1>9. ASSUME NEW c \in Controllers, TimerFires(c)
      PROVE  TypeOK'
  BY <1>9 DEF TypeOK, TimerFires
<1>10. ASSUME NEW c \in Controllers,
              StartAbsent(c) \/ StartBlocked(c) \/ StartUnbuildable(c)
       PROVE  TypeOK'
  BY <1>10 DEF TypeOK, StartAbsent, StartBlocked, StartUnbuildable, Takes
<1>11. ASSUME NEW c \in Controllers, Start(c)
       PROVE  TypeOK'
  <2>1. WorkRecord(c, [phase |-> "apply", step |-> 1, copy |-> cache])
    BY PlansSound DEF TypeOK, WorkRecord, PlanShape, Steps
  <2>2. WorkMap(work')
    BY <1>11, <2>1, SetWork DEF TypeOK, Start
  <2> QED
    BY <1>11, <2>2 DEF TypeOK, Start, Takes
<1>12. ASSUME NEW c \in Controllers, GoesOn(c, "status")
       PROVE  WorkMap(work')
  BY <1>12, SetPhase DEF TypeOK, GoesOn
<1>13. ASSUME NEW c \in Controllers, Fails(c)
       PROVE  WorkMap(work') /\ backoff' \subseteq Controllers
  BY <1>13, IdleRecord, SetWork DEF TypeOK, Fails
<1>14. ASSUME NEW c \in Controllers, ApplyUnchanged(c)
       PROVE  TypeOK'
  BY <1>12, <1>14 DEF TypeOK, ApplyUnchanged, GoesOn
<1>15. ASSUME NEW c \in Controllers, ApplyCreate(c) \/ ApplyUpdate(c)
       PROVE  TypeOK'
  BY <1>12, <1>15, WriteType
     DEF TypeOK, ApiOK, ApplyCreate, ApplyUpdate, GoesOn
<1>16. ASSUME NEW c \in Controllers, ApplyRefused(c) \/ StatusRefused(c)
       PROVE  TypeOK'
  BY <1>13, <1>16 DEF TypeOK, ApplyRefused, StatusRefused, Fails
<1>17. ASSUME NEW c \in Controllers, StatusUpdate(c)
       PROVE  TypeOK'
  <2>1. ApiOK'
    BY <1>17, PublishType DEF StatusUpdate
  <2>2. WorkRecord(c, work[c]) /\ Len(Steps(c)) \in Nat
    BY PlansSound DEF TypeOK, WorkMap, PlanShape, Steps
  <2>3. WorkMap(work')
    <3>1. CASE work[c].step = Len(Steps(c))
      BY <1>17, <3>1, IdleRecord, SetWork DEF TypeOK, StatusUpdate
    <3>2. CASE work[c].step # Len(Steps(c))
      <4> DEFINE w == [phase |-> "apply", step |-> work[c].step + 1,
                       copy |-> Written(c)]
      <4>1. WorkRecord(c, w)
        BY <2>2, <3>2, StepFacts DEF WorkRecord
      <4>2. work' = [work EXCEPT ![c] = w]
        BY <1>17, <3>2 DEF StatusUpdate
      <4> QED
        BY <4>1, <4>2, SetWork DEF TypeOK
    <3> QED
      BY <3>1, <3>2
  <2> QED
    BY <1>17, <2>1, <2>3 DEF TypeOK, ApiOK, StatusUpdate
<1>18. ASSUME NEW c \in Controllers, Fault(c)
       PROVE  TypeOK'
  <2>1. used' \in [edits : Nat, faults : Nat, crashes : Nat, resyncs : Nat]
    BY <1>18 DEF TypeOK, Fault, Spend
  <2> QED
    BY <1>13, <1>18, <2>1 DEF TypeOK, Fault, Fails
<1>19. ASSUME NEW c \in Controllers, LostReply(c)
       PROVE  TypeOK'
  <2>1. used' \in [edits : Nat, faults : Nat, crashes : Nat, resyncs : Nat]
    BY <1>19 DEF TypeOK, LostReply, Spend
  <2>2. ApiOK'
    BY <1>19, WriteType, PublishType DEF LostReply
  <2> QED
    BY <1>13, <1>19, <2>1, <2>2 DEF TypeOK, ApiOK, LostReply, Fails
<1>20. CASE UNCHANGED vars
  BY <1>20 DEF TypeOK, vars
<1> QED
  BY <1>1, <1>2, <1>3, <1>4, <1>5, <1>6, <1>7, <1>8, <1>9, <1>10, <1>11,
     <1>14, <1>15, <1>16, <1>17, <1>18, <1>19, <1>20, <1>p
     DEF Next, User, System, Works

(* Nothing exists and nobody is at work.                                   *)
LEMMA InitTypes == Init => TypeOK
<1> SUFFICES ASSUME Init
             PROVE  TypeOK
  OBVIOUS
<1>1. Gone(0, 0) \in Snapshots
  BY DEF Gone, Snapshots
<1>2. WorkMap(work)
  BY IdleRecord DEF Init, WorkMap
<1>3. ChildMap(children) /\ ChildMap(childCache)
  BY DEF Init, ChildMap
<1> QED
  BY <1>1, <1>2, <1>3 DEF Init, TypeOK

(* The model is type correct.                                              *)
THEOREM TypeCorrect == Spec => []TypeOK
BY InitTypes, TypeStep, PTL DEF Spec
=============================================================================
