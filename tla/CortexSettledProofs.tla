------------------------ MODULE CortexSettledProofs ------------------------
(***************************************************************************)
(* What a settled operator has made of the spec, proved from the invariant *)
(* behind convergence: its children are those of the present spec, they    *)
(* fit together, and none went back to an older spec on the way.           *)
(***************************************************************************)
EXTENDS CortexConvergenceProofs

----------------------------------------------------------------------------
(* The children and their content *)

(* What a child can be.                                                    *)
LEMMA ManagedIs ==
  ASSUME NEW i \in Managed
  PROVE  \/ i \in {CortexConfigMap, ServiceAccount, GossipRing,
                   RuntimeConfigMap}
         \/ \E n \in Workloads : i = <<"Service", n>>
         \/ \E n \in CacheNames \cup Stateful : i = <<"StatefulSet", n>>
         \/ \E n \in Stateless : i = <<"Deployment", n>>
<1>1. PICK c \in Controllers : i \in ChildrenOf(c)
  BY DEF Managed
<1>2. c \in AllControllers
  BY ControllersAssumption
<1> USE DEF PlanReads, Workloads, Stateful, Stateless, StatefulSetNames,
            DeploymentNames
<1>3. CASE c \in {"Cortex", "RuntimeConfig"}
  BY <1>1, <1>3, PlanTable
<1>4. CASE c = "Memcached"
  BY <1>1, <1>4, PlanTable
<1>5. CASE c \in {"Ingester", "Compactor", "StoreGateway", "AlertManager"}
  BY <1>1, <1>5, PlanTable
<1>6. CASE c \in {"Distributor", "Querier", "QueryFrontend", "Ruler"}
  BY <1>1, <1>6, PlanTable
<1> QED
  BY <1>2, <1>3, <1>4, <1>5, <1>6 DEF AllControllers

(* What is made of it.                                                     *)
LEMMA ObjectIs ==
  ASSUME NEW spec, NEW old
  PROVE  /\ NewObject(CortexConfigMap, spec, old) = NewCortexConfigMap(spec)
         /\ NewObject(RuntimeConfigMap, spec, old)
              = NewCortexRuntimeConfigMap(spec)
         /\ NewObject(ServiceAccount, spec, old) = NewServiceAccount(spec, old)
         /\ NewObject(GossipRing, spec, old) = NewGossipRingService
BY DEF NewObject, CortexConfigMap, RuntimeConfigMap, ServiceAccount,
       GossipRing, CacheNames, DeploymentNames, StatefulSetNames

LEMMA ServiceIs ==
  ASSUME NEW spec, NEW old
  PROVE  /\ \A n \in CacheNames :
              NewObject(<<"Service", n>>, spec, old) = NewMemcachedService(n)
         /\ NewObject(<<"Service", "ruler">>, spec, old) = NewRulerService
         /\ NewObject(<<"Service", "alertmanager">>, spec, old)
              = NewAlertManagerService
         /\ \A n \in Workloads \ (CacheNames \cup {"ruler", "alertmanager"}) :
              NewObject(<<"Service", n>>, spec, old) = NewService(n)
<1> USE DEF CortexConfigMap, RuntimeConfigMap, ServiceAccount, GossipRing,
            CacheNames, DeploymentNames, StatefulSetNames
<1>1. \A n \in CacheNames :
        NewObject(<<"Service", n>>, spec, old) = NewMemcachedService(n)
  BY DEF NewObject
<1>2. /\ NewObject(<<"Service", "ruler">>, spec, old) = NewRulerService
      /\ NewObject(<<"Service", "alertmanager">>, spec, old)
           = NewAlertManagerService
  BY DEF NewObject
<1>3. ASSUME NEW n \in Workloads \ (CacheNames \cup {"ruler", "alertmanager"})
      PROVE  NewObject(<<"Service", n>>, spec, old) = NewService(n)
  <2>1. /\ n \in DeploymentNames \cup StatefulSetNames \cup {"ingester"}
        /\ n \notin CacheNames /\ n # "ruler" /\ n # "alertmanager"
        /\ n # "gossip-ring"
    BY DEF Workloads, Stateful, Stateless, StatefulSetNames, DeploymentNames
  <2> QED
    BY <2>1 DEF NewObject
<1> QED
  BY <1>1, <1>2, <1>3

LEMMA StatefulSetIs ==
  ASSUME NEW spec, NEW old, NEW n \in CacheNames \cup Stateful
  PROVE  NewObject(<<"StatefulSet", n>>, spec, old) =
           IF n \in CacheNames THEN NewMemcachedStatefulSet(n, spec)
                               ELSE NewStatefulSet(n, spec)
BY DEF NewObject, CortexConfigMap, RuntimeConfigMap, ServiceAccount,
       GossipRing, CacheNames, Stateful, StatefulSetNames, DeploymentNames,
       NewIngesterStatefulSet, NewStatefulSet

LEMMA DeploymentIs ==
  ASSUME NEW spec, NEW old, NEW n \in Stateless
  PROVE  /\ NewObject(<<"Deployment", n>>, spec, old) \in
              {Pod(n, Named(n) \cup Gossiping, spec), Pod(n, Named(n), spec)}
         /\ n \notin {"ruler", "alertmanager"} =>
              NewObject(<<"Deployment", n>>, spec, old)
                = Pod(n, Named(n) \cup Gossiping, spec)
BY DEF NewObject, CortexConfigMap, RuntimeConfigMap, ServiceAccount,
       GossipRing, CacheNames, Stateless, DeploymentNames, StatefulSetNames,
       NewDeployment, NewRulerDeployment, NewAlertManagerDeployment

(* Only the account depends on what was there before.                      *)
LEMMA OthersAreOverwritten ==
  ASSUME NEW i \in Managed, i # ServiceAccount
  PROVE  i \in Overwritten
<1> SUFFICES ASSUME NEW spec, NEW old, NEW none
             PROVE  NewObject(i, spec, old) = NewObject(i, spec, none)
  BY DEF Overwritten, Content
<1>1. CASE i \in {CortexConfigMap, GossipRing, RuntimeConfigMap}
  BY <1>1, ObjectIs
<1>2. ASSUME NEW n \in Workloads, i = <<"Service", n>>
      PROVE  NewObject(i, spec, old) = NewObject(i, spec, none)
  <2>1. CASE n \in CacheNames
    BY <1>2, <2>1, ServiceIs
  <2>2. CASE n \in {"ruler", "alertmanager"}
    BY <1>2, <2>2, ServiceIs
  <2>3. CASE n \notin CacheNames \cup {"ruler", "alertmanager"}
    <3>1. \A o : NewObject(<<"Service", n>>, spec, o) = NewService(n)
      BY <2>3, ServiceIs
    <3> QED
      BY <1>2, <3>1
  <2> QED
    BY <2>1, <2>2, <2>3
<1>3. ASSUME NEW n \in CacheNames \cup Stateful, i = <<"StatefulSet", n>>
      PROVE  NewObject(i, spec, old) = NewObject(i, spec, none)
  BY <1>3, StatefulSetIs
<1>4. ASSUME NEW n \in Stateless, i = <<"Deployment", n>>
      PROVE  NewObject(i, spec, old) = NewObject(i, spec, none)
  BY <1>4 DEF NewObject, CortexConfigMap, RuntimeConfigMap, ServiceAccount,
              GossipRing, CacheNames, Stateless, DeploymentNames,
              StatefulSetNames
<1> QED
  BY <1>1, <1>2, <1>3, <1>4, ManagedIs

(* A section of an admitted spec has its number of replicas.               *)
LEMMA AdmittedHasReplicas ==
  ASSUME AdmittedSpecs, NEW spec \in Specs, NEW n \in Workloads
  PROVE  "replicas" \in DOMAIN spec.sections[n]
<1>1. DOMAIN spec = SpecFields /\ Default(spec) = spec
  BY DEF AdmittedSpecs
<1>2. Default(spec).sections =
        [name \in Workloads |-> SectionDefault(name, Given(spec, name))]
  BY <1>1 DEF Default, SpecFields
<1>3. spec.sections[n] = SectionDefault(n, Given(spec, n))
  BY <1>1, <1>2
<1>4. ASSUME NEW section
      PROVE  "replicas" \in DOMAIN SectionDefault(n, section)
  BY DEF SectionDefault, Workloads, Over, DeploymentDefault,
         StatefulSetDefault, MemcachedStatefulSetDefault
<1> QED
  BY <1>3, <1>4

(* The child of an admitted spec is what the spec asks for.                *)
LEMMA ContentReflects ==
  ASSUME AdmittedSpecs, NEW spec \in Specs, NEW i \in Managed,
         children[i].data = Content(i, spec)
  PROVE  Reflects(i, spec)
<1> DEFINE data == children[i].data
<1>1. CASE i = CortexConfigMap
  <2>1. data = [content |-> Over(DefaultCortexConfig, spec.config)]
    BY <1>1, ObjectIs
       DEF Content, NewCortexConfigMap, AsYAML, AdmittedSpecs, Validate
  <2>2. ASSUME NEW key \in DOMAIN spec.config \ DOMAIN DefaultCortexConfig
        PROVE  /\ key \in DOMAIN data.content
               /\ data.content[key] = spec.config[key]
    BY <2>1, <2>2 DEF Over
  <2> QED
    BY <1>1, <2>2 DEF Reflects, Workload, CortexConfigMap, RuntimeConfigMap,
                      ServiceAccount
<1>2. CASE i = RuntimeConfigMap
  <2>1. data.content = spec.runtime
    BY <1>2, ObjectIs DEF Content, NewCortexRuntimeConfigMap
  <2> QED
    BY <1>2, <2>1 DEF Reflects, Workload, CortexConfigMap, RuntimeConfigMap,
                      ServiceAccount
<1>3. CASE i = ServiceAccount
  <2>1. data = NewServiceAccount(spec, EmptyAccount)
    BY <1>3, ObjectIs DEF Content
  <2>2. data = [annotations |-> spec.account.annotations,
                secrets |-> spec.account.secrets]
    BY <2>1 DEF NewServiceAccount, EmptyAccount, AdmittedSpecs
  <2> QED
    BY <1>3, <2>2 DEF Reflects, Workload, CortexConfigMap, RuntimeConfigMap,
                      ServiceAccount
<1>4. CASE i = GossipRing \/ \E n \in Workloads : i = <<"Service", n>>
  BY <1>4 DEF Reflects, Workload, CortexConfigMap, RuntimeConfigMap,
              ServiceAccount, GossipRing
<1>5. ASSUME NEW n \in CacheNames, i = <<"StatefulSet", n>>
      PROVE  Reflects(i, spec)
  <2>1. data = NewMemcachedStatefulSet(n, spec)
    BY <1>5, StatefulSetIs DEF Content
  <2>2. data.sizing = {spec.sections[n]} /\ data.image = spec.cacheImage
    BY <2>1 DEF NewMemcachedStatefulSet
  <2>3. n \notin Stateful
    BY DEF CacheNames, Stateful, StatefulSetNames
  <2> QED
    BY <1>5, <2>2, <2>3 DEF Reflects, Workload, CortexConfigMap,
                            RuntimeConfigMap, ServiceAccount
<1>6. ASSUME NEW n \in Stateful, i = <<"StatefulSet", n>>
      PROVE  Reflects(i, spec)
  <2>1. n \notin CacheNames /\ n \in Workloads
    BY DEF CacheNames, Stateful, StatefulSetNames, Workloads
  <2>2. data = NewStatefulSet(n, spec)
    BY <1>6, <2>1, StatefulSetIs DEF Content
  <2>3. Optional(spec.sections[n], "replicas")
          = {spec.sections[n].replicas}
    BY <2>1, AdmittedHasReplicas DEF Optional
  <2> DEFINE claim == [size  |-> spec.sections[n].datadir_size,
                       class |-> Optional(spec.sections[n],
                                          "storage_class_name")]
             pod == Pod(n, Named(n), spec)
  <2>4. data = [pod EXCEPT !.claims = {claim}]
    BY <2>2 DEF NewStatefulSet, WithDatadir
  <2> HIDE DEF claim
  <2>5. /\ data.sizing = {spec.sections[n].replicas}
        /\ data.image = spec.image
        /\ data.sha = {spec.config}
        /\ data.claims = {claim}
    BY <2>3, <2>4 DEF Pod, ConfigSHA
  <2>6. claim.size = spec.sections[n].datadir_size
    BY DEF claim
  <2> QED
    BY <1>6, <2>1, <2>5, <2>6 DEF Reflects, Workload, CortexConfigMap,
                            RuntimeConfigMap, ServiceAccount
<1>7. ASSUME NEW n \in Stateless, i = <<"Deployment", n>>
      PROVE  Reflects(i, spec)
  <2>1. n \notin CacheNames /\ n \notin Stateful /\ n \in Workloads
    BY DEF CacheNames, Stateful, Stateless, StatefulSetNames, DeploymentNames,
           Workloads
  <2>2. PICK labels : data = Pod(n, labels, spec)
    BY <1>7, DeploymentIs DEF Content
  <2>3. Optional(spec.sections[n], "replicas")
          = {spec.sections[n].replicas}
    BY <2>1, AdmittedHasReplicas DEF Optional
  <2>4. /\ data.sizing = {spec.sections[n].replicas}
        /\ data.image = spec.image
        /\ data.sha = {spec.config}
    BY <2>2, <2>3 DEF Pod, ConfigSHA
  <2> QED
    BY <1>7, <2>1, <2>4 DEF Reflects, Workload, CortexConfigMap,
                            RuntimeConfigMap, ServiceAccount
<1> QED
  BY <1>1, <1>2, <1>3, <1>4, <1>5, <1>6, <1>7, ManagedIs

----------------------------------------------------------------------------
(* A settled operator has converged *)

(* Nobody has anything left to do: then all gates are open, every child is *)
(* there, and every reference is noted.                                    *)
LEMMA SettledHasAll ==
  ASSUME ClosedControllers, ConvergenceInvariant, Undeleted, Settled,
         cortex.alive, NEW c \in Controllers
  PROVE  /\ Publishes(c) \subseteq cortex.status
         /\ \A k \in 1 .. Len(Steps(c)) : Current(c, k) /\ Noted(c, k)
<1>1. ASSUME NEW d \in Controllers, PlanOf(d).gate \subseteq cortex.status
      PROVE  \A k \in 1 .. Len(Steps(d)) : Current(d, k) /\ Noted(d, k)
  <2>1. NotForgotten(d)
    BY DEF ConvergenceInvariant, NothingForgotten
  <2> QED
    BY <1>1, <2>1 DEF NotForgotten, Settled
<1>2. ASSUME NEW d \in Controllers, PlanOf(d).gate \subseteq cortex.status
      PROVE  Publishes(d) \subseteq cortex.status
  <2>1. 1 \in 1 .. Len(Steps(d))
    BY StepsOf
  <2>2. PlanOf(d).opens \subseteq cortex.status
    BY <1>1, <1>2, <2>1 DEF Noted
  <2>3. \A k \in 1 .. Len(Steps(d)) : Steps(d)[k].refs \subseteq cortex.status
    BY <1>1, <1>2 DEF Noted
  <2> QED
    BY <2>2, <2>3 DEF Publishes
<1>3. PlanOf(c).gate \subseteq cortex.status
  BY <1>2, GatesOpen
<1> QED
  BY <1>1, <1>2, <1>3

(* When no edit leaves traces, a settled operator has every child right.   *)
LEMMA SettledConverges ==
  ASSUME AdmittedSpecs, ClosedControllers, Exact = Managed,
         TypeOK, ConvergenceInvariant, Undeleted
  PROVE  SettledIsConverged
<1> SUFFICES ASSUME Settled, cortex.alive, NEW i \in Managed
             PROVE  /\ Deployed(i)
                    /\ Workload(i[1]) => i[2] \in cortex.status
  BY DEF SettledIsConverged, Converged
<1>1. cortex.spec \in Specs
  BY DEF ConvergenceInvariant, SpecsInOrder, Precedes, Later
<1>2. PICK c \in Controllers : i \in ChildrenOf(c)
  BY DEF Managed
<1>3. PICK k \in 1 .. Len(Steps(c)) : Steps(c)[k].child = i
  BY <1>2 DEF ChildrenOf, Steps
<1>4. Current(c, k) /\ Noted(c, k)
  BY SettledHasAll
<1>5. i \in DOMAIN children /\ children[i].data = Content(i, cortex.spec)
  BY <1>3, <1>4 DEF Current
<1>6. Deployed(i)
  BY <1>1, <1>5, ContentReflects DEF Deployed
<1>7. Workload(i[1]) => i[2] \in Steps(c)[k].refs
  BY <1>3, StepsOf DEF ServedFirst
<1> QED
  BY <1>4, <1>6, <1>7 DEF Noted

(* Whatever happened on the way: once nothing is left to do, a Cortex that *)
(* was never deleted runs as its present spec says, all of it, if the      *)
(* specs came through the webhooks, the controllers wait for nobody else   *)
(* and no edit takes something away or back.                               *)
THEOREM SettledIsConvergedHolds ==
  ASSUME AdmittedSpecs, ClosedControllers, Exact = Managed
  PROVE  Spec => [](Undeleted => SettledIsConverged)
<1>1. TypeOK /\ ConvergenceInvariant => (Undeleted => SettledIsConverged)
  BY SettledConverges
<1> QED
  BY <1>1, ConvergenceInvariantHolds, TypeCorrect, PTL

----------------------------------------------------------------------------
(* A settled operator is wired *)

(* With all eleven controllers every child is managed.                     *)
LEMMA AllAreManaged ==
  ASSUME Controllers = AllControllers
  PROVE  /\ {CortexConfigMap, ServiceAccount, GossipRing, RuntimeConfigMap}
              \subseteq Managed
         /\ \A n \in Workloads : <<"Service", n>> \in Managed
         /\ \A n \in CacheNames \cup Stateful :
              <<"StatefulSet", n>> \in Managed
         /\ \A n \in Stateless : <<"Deployment", n>> \in Managed
<1>1. \A c \in AllControllers : ChildrenOf(c) \subseteq Managed
  BY DEF Managed
<1>2. {CortexConfigMap, ServiceAccount, GossipRing, RuntimeConfigMap}
        \subseteq Managed
  BY <1>1, PlanTable DEF AllControllers, PlanReads
<1>3. \A n \in CacheNames : /\ <<"Service", n>> \in Managed
                            /\ <<"StatefulSet", n>> \in Managed
  BY <1>1, PlanTable DEF AllControllers, PlanReads
<1>4. \A n \in Stateful : /\ <<"Service", n>> \in Managed
                          /\ <<"StatefulSet", n>> \in Managed
  BY <1>1, PlanTable DEF AllControllers, PlanReads, Stateful, StatefulSetNames
<1>5. \A n \in Stateless : /\ <<"Service", n>> \in Managed
                           /\ <<"Deployment", n>> \in Managed
  BY <1>1, PlanTable DEF AllControllers, PlanReads, Stateless, DeploymentNames
<1> QED
  BY <1>2, <1>3, <1>4, <1>5 DEF Workloads

(* What the pods of a workload carry, mount and run as.                    *)
LEMMA PodHas ==
  ASSUME NEW n, NEW labels, NEW spec
  PROVE  LET pod == Pod(n, labels, spec)
         IN  /\ pod.labels = labels
             /\ pod.mounts = {CortexConfigMap, RuntimeConfigMap}
             /\ pod.account = {ServiceAccount}
BY DEF Pod

LEMMA StatefulSetHas ==
  ASSUME NEW n \in CacheNames \cup Stateful, NEW spec, NEW old
  PROVE  LET pod == NewObject(<<"StatefulSet", n>>, spec, old)
         IN  /\ pod.labels = Named(n)
             /\ pod.mounts \subseteq {CortexConfigMap, RuntimeConfigMap}
             /\ pod.account \subseteq {ServiceAccount}
<1> DEFINE pod == NewObject(<<"StatefulSet", n>>, spec, old)
<1>1. CASE n \in CacheNames
  <2>1. pod = NewMemcachedStatefulSet(n, spec)
    BY <1>1, StatefulSetIs
  <2> QED
    BY <2>1 DEF NewMemcachedStatefulSet
<1>2. CASE n \notin CacheNames
  <2>1. pod = NewStatefulSet(n, spec)
    BY <1>2, StatefulSetIs
  <2> QED
    BY <2>1 DEF NewStatefulSet, WithDatadir, Pod
<1> QED
  BY <1>1, <1>2

LEMMA DeploymentHas ==
  ASSUME NEW n \in Stateless, NEW spec, NEW old
  PROVE  LET pod == NewObject(<<"Deployment", n>>, spec, old)
         IN  /\ Named(n) \subseteq pod.labels
             /\ n = "distributor" => Gossiping \subseteq pod.labels
             /\ pod.mounts = {CortexConfigMap, RuntimeConfigMap}
             /\ pod.account = {ServiceAccount}
<1> DEFINE pod == NewObject(<<"Deployment", n>>, spec, old)
<1>1. CASE n \notin {"ruler", "alertmanager"}
  <2>1. pod = Pod(n, Named(n) \cup Gossiping, spec)
    BY <1>1, DeploymentIs
  <2> QED
    BY <2>1, PodHas
<1>2. CASE n \in {"ruler", "alertmanager"}
  <2>1. PICK labels \in {Named(n) \cup Gossiping, Named(n)} :
          pod = Pod(n, labels, spec)
    BY DeploymentIs
  <2> QED
    BY <1>2, <2>1, PodHas
<1> QED
  BY <1>1, <1>2

(* What a pod needs of the operator is made by the operator.               *)
LEMMA PodsNeed ==
  ASSUME NEW i \in Managed, Workload(i[1]), NEW spec, NEW old
  PROVE  LET pod == NewObject(i, spec, old)
         IN  pod.mounts \cup pod.account
               \subseteq {CortexConfigMap, RuntimeConfigMap, ServiceAccount}
<1>1. \/ \E n \in CacheNames \cup Stateful : i = <<"StatefulSet", n>>
      \/ \E n \in Stateless : i = <<"Deployment", n>>
  BY ManagedIs DEF Workload, CortexConfigMap, RuntimeConfigMap, ServiceAccount,
                   GossipRing
<1>2. ASSUME NEW n \in CacheNames \cup Stateful, i = <<"StatefulSet", n>>
      PROVE  LET pod == NewObject(i, spec, old)
             IN  /\ pod.mounts \subseteq {CortexConfigMap, RuntimeConfigMap}
                 /\ pod.account \subseteq {ServiceAccount}
  BY <1>2, StatefulSetHas
<1>3. ASSUME NEW n \in Stateless, i = <<"Deployment", n>>
      PROVE  LET pod == NewObject(i, spec, old)
             IN  /\ pod.mounts \subseteq {CortexConfigMap, RuntimeConfigMap}
                 /\ pod.account \subseteq {ServiceAccount}
  BY <1>3, DeploymentHas
<1> QED
  BY <1>1, <1>2, <1>3

LEMMA SettledWires ==
  ASSUME Controllers = AllControllers, AdmittedSpecs,
         TypeOK, ConvergenceInvariant, Undeleted
  PROVE  SettledIsWired
<1> SUFFICES ASSUME Settled, cortex.alive
             PROVE  /\ \A key \in DOMAIN DefaultCortexConfig :
                         Resolves(children[CortexConfigMap].data.content[key])
                    /\ \A i \in DOMAIN children :
                         LET data == children[i].data
                         IN  Workload(i[1]) => data.mounts \cup data.account
                                                 \subseteq DOMAIN children
  BY DEF SettledIsWired
<1>1. Managed \subseteq DOMAIN children
  <2> SUFFICES ASSUME NEW i \in Managed
               PROVE  i \in DOMAIN children
    OBVIOUS
  <2>1. PICK c \in Controllers : i \in ChildrenOf(c)
    BY DEF Managed
  <2>2. PICK k \in 1 .. Len(Steps(c)) : Steps(c)[k].child = i
    BY <2>1 DEF ChildrenOf, Steps
  <2>3. Current(c, k)
    BY AllAreClosed, SettledHasAll
  <2> QED
    BY <2>2, <2>3 DEF Current
<1>2. ASSUME NEW i \in Managed, i # ServiceAccount
      PROVE  \E b \in Specs : children[i].data = Content(i, b)
  <2>1. PICK c \in Controllers : i \in ChildrenOf(c)
    BY DEF Managed
  <2>2. i \in ChildrenOf(c) \cap Overwritten \cap DOMAIN children
    BY <1>1, <1>2, <2>1, OthersAreOverwritten
  <2> QED
    BY <2>2 DEF ConvergenceInvariant, ChildrenInOrder, MadeInOrder
<1>3. ASSUME NEW n \in Workloads
      PROVE  \E i \in DOMAIN children :
               Workload(i[1]) /\ Named(n) \subseteq children[i].data.labels
  <2>1. CASE n \in CacheNames \cup Stateful
    <3> DEFINE i == <<"StatefulSet", n>>
    <3>1. i \in DOMAIN children /\ i # ServiceAccount /\ i \in Managed
      BY <1>1, <2>1, AllAreManaged DEF ServiceAccount
    <3>2. Workload(i[1])
      BY DEF Workload
    <3>3. Named(n) \subseteq children[i].data.labels
      BY <1>2, <2>1, <3>1, StatefulSetHas DEF Content
    <3> QED
      BY <3>1, <3>2, <3>3
  <2>2. CASE n \in Stateless
    <3> DEFINE i == <<"Deployment", n>>
    <3>1. i \in DOMAIN children /\ i # ServiceAccount /\ i \in Managed
      BY <1>1, <2>2, AllAreManaged DEF ServiceAccount
    <3>2. Workload(i[1])
      BY DEF Workload
    <3>3. Named(n) \subseteq children[i].data.labels
      BY <1>2, <2>2, <3>1, DeploymentHas DEF Content
    <3> QED
      BY <3>1, <3>2, <3>3
  <2> QED
    BY <2>1, <2>2 DEF Workloads
<1>4. \E i \in DOMAIN children :
        Workload(i[1]) /\ Gossiping \subseteq children[i].data.labels
  <2> DEFINE i == <<"Deployment", "distributor">>
  <2>1. "distributor" \in Stateless
    BY DEF Stateless, DeploymentNames
  <2>2. i \in DOMAIN children /\ i # ServiceAccount /\ i \in Managed
    BY <1>1, <2>1, AllAreManaged DEF ServiceAccount
  <2>3. Workload(i[1]) /\ Gossiping \subseteq children[i].data.labels
    BY <1>2, <2>1, <2>2, DeploymentHas DEF Content, Workload
  <2> QED
    BY <2>2, <2>3
<1>5. ASSUME NEW n \in Workloads
      PROVE  LET svc == children[<<"Service", n>>].data
             IN  /\ svc.selects = Named(n)
                 /\ n \in CacheNames => svc.ports = {11211}
                 /\ n = "alertmanager" => svc.ports = {80, 9094}
                 /\ n \in {"store-gateway", "query-frontend"} =>
                      svc.ports = {80, 9095}
  <2> DEFINE i == <<"Service", n>>
  <2>1. i \in Managed /\ i # ServiceAccount
    BY AllAreManaged DEF ServiceAccount
  <2>2. PICK b \in Specs : children[i].data = NewObject(i, b, EmptyAccount)
    BY <1>2, <2>1 DEF Content
  <2>3. CASE n \in CacheNames
    <3>1. children[i].data = NewMemcachedService(n)
      BY <2>2, <2>3, ServiceIs
    <3> QED
      BY <2>3, <3>1 DEF NewMemcachedService, CacheNames
  <2>4. CASE n = "ruler"
    <3>1. children[i].data = NewRulerService
      BY <2>2, <2>4, ServiceIs
    <3> QED
      BY <2>4, <3>1 DEF NewRulerService, CacheNames
  <2>5. CASE n = "alertmanager"
    <3>1. children[i].data = NewAlertManagerService
      BY <2>2, <2>5, ServiceIs
    <3> QED
      BY <2>5, <3>1 DEF NewAlertManagerService, CacheNames
  <2>6. CASE n \notin CacheNames \cup {"ruler", "alertmanager"}
    <3>1. children[i].data = NewService(n)
      BY <2>2, <2>6, ServiceIs
    <3> QED
      BY <2>6, <3>1 DEF NewService
  <2> QED
    BY <2>3, <2>4, <2>5, <2>6
<1>6. ASSUME NEW n \in Workloads, NEW port,
             port \in children[<<"Service", n>>].data.ports
      PROVE  Resolves(Address(n, port))
  BY <1>3, <1>5, <1>6 DEF Resolves, Address
<1>7. Resolves(Address("gossip-ring", 7946))
  <2>1. GossipRing \in Managed /\ GossipRing # ServiceAccount
    BY AllAreManaged DEF GossipRing, ServiceAccount
  <2>2. children[<<"Service", "gossip-ring">>].data = NewGossipRingService
    BY <1>2, <2>1, ObjectIs DEF Content, GossipRing
  <2> QED
    BY <1>4, <2>2 DEF NewGossipRingService, Resolves, Address
<1>8. ASSUME NEW key \in DOMAIN DefaultCortexConfig
      PROVE  Resolves(DefaultCortexConfig[key])
  <2>1. /\ CacheNames \subseteq Workloads
        /\ {"alertmanager", "store-gateway", "query-frontend"}
             \subseteq Workloads
    BY DEF Workloads, Stateful, Stateless, StatefulSetNames, DeploymentNames
  <2>2. ASSUME NEW n \in CacheNames
        PROVE  Resolves(Address(n, 11211))
    <3>1. n \in Workloads /\ 11211 \in children[<<"Service", n>>].data.ports
      BY <1>5, <2>1
    <3> QED
      BY <1>6, <3>1
  <2>3. /\ Resolves(Address("alertmanager", 80))
        /\ Resolves(Address("alertmanager", 9094))
        /\ Resolves(Address("store-gateway", 9095))
        /\ Resolves(Address("query-frontend", 9095))
    <3>1. /\ 80 \in children[<<"Service", "alertmanager">>].data.ports
          /\ 9094 \in children[<<"Service", "alertmanager">>].data.ports
          /\ 9095 \in children[<<"Service", "store-gateway">>].data.ports
          /\ 9095 \in children[<<"Service", "query-frontend">>].data.ports
      BY <1>5, <2>1
    <3> QED
      BY <1>6, <2>1, <3>1
  <2>4. DefaultCortexConfig[key]
          \in {Address("gossip-ring", 7946), Address("alertmanager", 80),
               Address("alertmanager", 9094), Address("store-gateway", 9095),
               Address("query-frontend", 9095)}
             \cup {Address(n, 11211) : n \in CacheNames}
    BY DEF DefaultCortexConfig, CacheNames
  <2> QED
    BY <1>7, <2>2, <2>3, <2>4
<1>9. ASSUME NEW key \in DOMAIN DefaultCortexConfig
      PROVE  Resolves(children[CortexConfigMap].data.content[key])
  <2>1. CortexConfigMap \in Managed /\ CortexConfigMap # ServiceAccount
    BY AllAreManaged DEF CortexConfigMap, ServiceAccount
  <2>2. PICK b \in Specs :
          children[CortexConfigMap].data = NewCortexConfigMap(b)
    BY <1>2, <2>1, ObjectIs DEF Content
  <2>3. children[CortexConfigMap].data.content
          = Over(DefaultCortexConfig, b.config)
    BY <2>2 DEF NewCortexConfigMap, AsYAML, AdmittedSpecs, Validate
  <2>4. children[CortexConfigMap].data.content[key] = DefaultCortexConfig[key]
    BY <2>3 DEF Over
  <2> QED
    BY <1>8, <2>4
<1>10. ASSUME NEW i \in DOMAIN children, Workload(i[1])
       PROVE  LET data == children[i].data
              IN  data.mounts \cup data.account \subseteq DOMAIN children
  <2>1. i \in Managed /\ i # ServiceAccount
    BY <1>10 DEF TypeOK, ChildMap, Workload, ServiceAccount
  <2>2. PICK b \in Specs : children[i].data = NewObject(i, b, EmptyAccount)
    BY <1>2, <2>1 DEF Content
  <2>3. {CortexConfigMap, RuntimeConfigMap, ServiceAccount}
          \subseteq DOMAIN children
    BY <1>1, AllAreManaged
  <2> QED
    BY <1>10, <2>1, <2>2, <2>3, PodsNeed
<1> QED
  BY <1>9, <1>10

(* Once all eleven controllers have nothing left to do the parts fit       *)
(* together: every address of the config leads to pods, and what a pod     *)
(* mounts or runs as exists, whichever edits led there.                    *)
THEOREM SettledIsWiredHolds ==
  ASSUME AdmittedSpecs, Controllers = AllControllers
  PROVE  Spec => [](Undeleted => SettledIsWired)
<1>1. TypeOK /\ ConvergenceInvariant => (Undeleted => SettledIsWired)
  BY SettledWires
<1> QED
  BY <1>1, ConvergenceInvariantHolds, TypeCorrect, PTL

----------------------------------------------------------------------------
(* No child goes back to an older spec *)

(* What no edit lowers, no sequence of edits lowers.                       *)
LEMMA LaterRises ==
  ASSUME EditsGoUp, NEW a, NEW b, <<a, b>> \in Later
  PROVE  /\ a.image \in Nat /\ b.image \in Nat /\ a.image <= b.image
         /\ a.cacheImage \in Nat /\ b.cacheImage \in Nat
         /\ a.cacheImage <= b.cacheImage
         /\ a.runtime \in Nat /\ b.runtime \in Nat /\ a.runtime <= b.runtime
<1> DEFINE S == {x \in Specs : /\ a.image <= x.image
                               /\ a.cacheImage <= x.cacheImage
                               /\ a.runtime <= x.runtime}
<1>1. a \in Specs /\ b \in Specs
  BY DEF Later
<1>2. \A x \in Specs : /\ x.image \in Nat
                       /\ x.cacheImage \in Nat
                       /\ x.runtime \in Nat
  BY DEF EditsGoUp
<1>3. a \in S
  BY <1>1, <1>2
<1>4. ASSUME NEW e \in Edits, e[1] \in S
      PROVE  e[2] \in S
  <2>1. e[1] \in Specs /\ e[2] \in Specs
    BY SpecsAssumption
  <2>2. /\ e[1].image <= e[2].image
        /\ e[1].cacheImage <= e[2].cacheImage
        /\ e[1].runtime <= e[2].runtime
    BY DEF EditsGoUp
  <2> QED
    BY <1>1, <1>2, <1>4, <2>1, <2>2
<1>5. b \in S
  <2>1. S \in SUBSET Specs
    OBVIOUS
  <2> HIDE DEF S
  <2> QED
    BY <1>3, <1>4, <2>1, LaterKeeps
<1> QED
  BY <1>1, <1>2, <1>5

(* The child of a later spec has no older image or runtime config.         *)
LEMMA ContentRises ==
  ASSUME EditsGoUp, NEW i \in Managed, NEW a, NEW b, <<a, b>> \in Later
  PROVE  /\ Workload(i[1]) => Content(i, b).image >= Content(i, a).image
         /\ i = RuntimeConfigMap =>
              Content(i, b).content >= Content(i, a).content
<1>1. /\ a.image \in Nat /\ b.image \in Nat /\ a.image <= b.image
      /\ a.cacheImage \in Nat /\ b.cacheImage \in Nat
      /\ a.cacheImage <= b.cacheImage
      /\ a.runtime \in Nat /\ b.runtime \in Nat /\ a.runtime <= b.runtime
  BY LaterRises
<1>2. CASE i = RuntimeConfigMap
  <2>1. ASSUME NEW spec
        PROVE  Content(i, spec).content = spec.runtime
    BY <1>2, ObjectIs DEF Content, NewCortexRuntimeConfigMap
  <2> QED
    BY <1>1, <1>2, <2>1 DEF Workload, RuntimeConfigMap
<1>3. ASSUME NEW n \in CacheNames \cup Stateful, i = <<"StatefulSet", n>>
      PROVE  Content(i, b).image >= Content(i, a).image
  <2>1. ASSUME NEW spec
        PROVE  Content(i, spec).image = IF n \in CacheNames
                                          THEN spec.cacheImage ELSE spec.image
    <3>1. CASE n \in CacheNames
      <4>1. Content(i, spec) = NewMemcachedStatefulSet(n, spec)
        BY <1>3, <3>1, StatefulSetIs DEF Content
      <4> QED
        BY <3>1, <4>1 DEF NewMemcachedStatefulSet
    <3>2. CASE n \notin CacheNames
      <4>1. Content(i, spec) = NewStatefulSet(n, spec)
        BY <1>3, <3>2, StatefulSetIs DEF Content
      <4> QED
        BY <3>2, <4>1 DEF NewStatefulSet, WithDatadir, Pod
    <3> QED
      BY <3>1, <3>2
  <2> QED
    BY <1>1, <2>1
<1>4. ASSUME NEW n \in Stateless, i = <<"Deployment", n>>
      PROVE  Content(i, b).image >= Content(i, a).image
  <2>1. ASSUME NEW spec
        PROVE  Content(i, spec).image = spec.image
    <3>1. PICK labels : Content(i, spec) = Pod(n, labels, spec)
      BY <1>4, DeploymentIs DEF Content
    <3> QED
      BY <3>1 DEF Pod
  <2> QED
    BY <1>1, <2>1
<1>5. CASE ~Workload(i[1]) /\ i # RuntimeConfigMap
  BY <1>5
<1>6. Workload(i[1]) =>
        \/ \E n \in CacheNames \cup Stateful : i = <<"StatefulSet", n>>
        \/ \E n \in Stateless : i = <<"Deployment", n>>
  BY ManagedIs DEF Workload, CortexConfigMap, RuntimeConfigMap, ServiceAccount,
                   GossipRing
<1>7. CASE Workload(i[1]) /\ i # RuntimeConfigMap
  BY <1>3, <1>4, <1>6, <1>7
<1> QED
  BY <1>2, <1>5, <1>7

(* A step replaces the child of a spec by that of a later one, if at all.  *)
LEMMA ChildGoesOn ==
  ASSUME TypeOK, RolloutInvariant, ConvergenceInvariant, Undeleted, KindOfStep,
         NEW i \in DOMAIN children, i # ServiceAccount
  PROVE  \E a \in Specs, b \in Specs : /\ children[i].data = Content(i, a)
                                       /\ children'[i].data = Content(i, b)
                                       /\ <<a, b>> \in Later
<1>1. /\ WorkIsThere /\ SpecsInOrder /\ ChildrenInOrder
      /\ i \in Managed
  BY DEF ConvergenceInvariant, TypeOK, ChildMap
<1>2. PICK c \in Controllers : i \in ChildrenOf(c)
  BY <1>1 DEF Managed
<1>3. PICK a \in Specs : /\ children[i].data = Content(i, a)
                         /\ Busy(c) => <<a, work[c].copy.spec>> \in Later
  BY <1>1, <1>2, OthersAreOverwritten DEF ChildrenInOrder, MadeInOrder
<1>4. CASE children'[i].data = children[i].data
  BY <1>3, <1>4, LaterIsReflexive
<1>5. ASSUME NEW d \in Controllers, ApplyStep(d), i = Target(d)
      PROVE  \E b \in Specs : /\ children'[i].data = Content(i, b)
                              /\ <<a, b>> \in Later
  <2>1. d = c /\ Busy(c)
    BY <1>2, <1>5, OneController DEF ApplyStep, At, Busy
  <2>2. CASE UNCHANGED children
    BY <1>3, <2>2, LaterIsReflexive
  <2>3. CASE children'[i].data = Object(c)
    <3>1. children'[i].data = Content(i, work[c].copy.spec)
      BY <1>1, <1>5, <2>1, <2>3, ObjectIsContent, OthersAreOverwritten
    <3> QED
      BY <1>1, <1>3, <2>1, <3>1, CopyIsKnown
  <2> QED
    BY <1>1, <1>5, <2>1, <2>2, <2>3, ApplyEffect
<1>6. i \in DOMAIN children'
  BY <1>1, ChildrenStay
<1> QED
  BY <1>1, <1>3, <1>4, <1>5, <1>6, ChildEffect

(* A worker that holds an old copy of the Cortex, or reads an old copy of  *)
(* a child, never overwrites newer work: when the user only ever raises    *)
(* the image and the runtime config, and the Cortex is not deleted, no     *)
(* child goes back to an older one.                                        *)
THEOREM NeverRollsBackHolds ==
  ASSUME EditsGoUp, Policies = {}
  PROVE  Spec => NeverRollsBack
<1> DEFINE Rises ==
      \A i \in DOMAIN children :
        i \in DOMAIN children' =>
          /\ Workload(i[1]) =>
               children'[i].data.image >= children[i].data.image
          /\ i = RuntimeConfigMap =>
               children'[i].data.content >= children[i].data.content
<1>1. /\ TypeOK /\ RolloutInvariant /\ ConvergenceInvariant /\ Undeleted
      /\ [Next]_vars
      => [Rises]_vars
  <2> SUFFICES ASSUME TypeOK, RolloutInvariant, ConvergenceInvariant,
                      Undeleted, [Next]_vars, NEW i \in DOMAIN children,
                      Workload(i[1]) \/ i = RuntimeConfigMap
               PROVE  /\ Workload(i[1]) =>
                           children'[i].data.image >= children[i].data.image
                      /\ i = RuntimeConfigMap =>
                           children'[i].data.content
                             >= children[i].data.content
    OBVIOUS
  <2>1. KindOfStep
    BY EveryKind DEF DeleteCortex
  <2>2. i \in Managed /\ i # ServiceAccount
    BY DEF TypeOK, ChildMap, Workload, RuntimeConfigMap, ServiceAccount
  <2>3. PICK a \in Specs, b \in Specs :
          /\ children[i].data = Content(i, a)
          /\ children'[i].data = Content(i, b)
          /\ <<a, b>> \in Later
    BY <2>1, <2>2, ChildGoesOn
  <2> QED
    BY <2>2, <2>3, ContentRises
<1>2. Spec => [][Rises]_vars
  BY <1>1, TypeCorrect, RolloutInvariantHolds, ConvergenceInvariantHolds,
     NeverDeleted, PTL DEF Spec
<1> QED
  BY <1>2 DEF NeverRollsBack
=============================================================================
