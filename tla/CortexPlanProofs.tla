-------------------------- MODULE CortexPlanProofs --------------------------
(***************************************************************************)
(* What the proofs of convergence need of the plans: in which order each   *)
(* names its children, which children are whose, and who publishes what.   *)
(***************************************************************************)
EXTENDS CortexConvergence, CortexRolloutProofs

ChildrenIn(s) == {s[k].child : k \in 1 .. Len(s)}

RefsIn(s) == UNION {s[k].refs : k \in 1 .. Len(s)}

(* A reference is set with the workload it names, after its service, and   *)
(* every workload has one.                                                 *)
ServedFirst(s) ==
  \A k \in 1 .. Len(s) :
    /\ Workload(s[k].child[1]) => s[k].child[2] \in s[k].refs
    /\ \A r \in s[k].refs :
         /\ s[k].child \in {<<"Deployment", r>>, <<"StatefulSet", r>>}
         /\ \E j \in 1 .. k - 1 : s[j].child = <<"Service", r>>

(* The controller a child is named for.                                    *)
Responsible(i) ==
  CASE i \in {CortexConfigMap, ServiceAccount, GossipRing} -> "Cortex"
    [] i = RuntimeConfigMap         -> "RuntimeConfig"
    [] i[2] \in CacheNames          -> "Memcached"
    [] i[2] = "ingester"            -> "Ingester"
    [] i[2] = "distributor"         -> "Distributor"
    [] i[2] = "querier"             -> "Querier"
    [] i[2] = "query-frontend"      -> "QueryFrontend"
    [] i[2] = "compactor"           -> "Compactor"
    [] i[2] = "store-gateway"       -> "StoreGateway"
    [] i[2] = "ruler"               -> "Ruler"
    [] i[2] = "alertmanager"        -> "AlertManager"

(* The two steps of the common shape.                                      *)
LEMMA ServedInOrder ==
  ASSUME NEW kind \in {"Deployment", "StatefulSet"}, NEW name
  PROVE  /\ ServedFirst(Served(kind, name))
         /\ ChildrenIn(Served(kind, name))
              = {<<"Service", name>>, <<kind, name>>}
         /\ RefsIn(Served(kind, name)) = {name}
<1> DEFINE s == Served(kind, name)
<1>1. Len(s) = 2
  BY ServedSteps
<1>2. s[1].child = <<"Service", name>> /\ s[1].refs = {}
  <2>1. s[1] = [child |-> <<"Service", name>>, refs |-> {}]
    BY ServedSteps DEF Quiet
  <2> QED
    BY <2>1
<1>3. s[2].child = <<kind, name>> /\ s[2].refs = {name}
  <2>1. s[2] = [child |-> <<kind, name>>, refs |-> {name}]
    BY ServedSteps DEF Recorded
  <2> QED
    BY <2>1
<1> HIDE DEF s
<1>4. 1 .. Len(s) = {1, 2} /\ 1 \in 1 .. 2 - 1
  BY <1>1
<1>5. ServedFirst(s)
  <2> SUFFICES ASSUME NEW k \in 1 .. Len(s)
               PROVE  /\ Workload(s[k].child[1]) => s[k].child[2] \in s[k].refs
                      /\ \A r \in s[k].refs :
                           /\ s[k].child \in {<<"Deployment", r>>,
                                              <<"StatefulSet", r>>}
                           /\ \E j \in 1 .. k - 1 :
                                s[j].child = <<"Service", r>>
    BY DEF ServedFirst
  <2>1. CASE k = 1
    BY <1>2, <2>1 DEF Workload
  <2>2. CASE k = 2
    <3>1. s[k].child[2] = name
      BY <1>3, <2>2
    <3>2. s[k].child \in {<<"Deployment", name>>, <<"StatefulSet", name>>}
      BY <1>3, <2>2
    <3> QED
      BY <1>2, <1>3, <1>4, <2>2, <3>1, <3>2
  <2> QED
    BY <1>4, <2>1, <2>2
<1>6. ChildrenIn(s) = {<<"Service", name>>, <<kind, name>>}
  BY <1>2, <1>3, <1>4 DEF ChildrenIn
<1>7. RefsIn(s) = {name}
  BY <1>2, <1>3, <1>4 DEF RefsIn
<1> QED
  BY <1>5, <1>6, <1>7 DEF s

(* One list of steps after another.                                        *)
LEMMA JoinedInOrder ==
  ASSUME NEW S, NEW s \in Seq(S), NEW t \in Seq(S),
         ServedFirst(s), ServedFirst(t)
  PROVE  /\ s \o t \in Seq(S)
         /\ ServedFirst(s \o t)
         /\ ChildrenIn(s \o t) = ChildrenIn(s) \cup ChildrenIn(t)
         /\ RefsIn(s \o t) = RefsIn(s) \cup RefsIn(t)
<1> DEFINE u == s \o t
<1>1. u \in Seq(S) /\ Len(u) = Len(s) + Len(t)
  OBVIOUS
<1>2. \A k \in 1 .. Len(s) : k \in 1 .. Len(u) /\ u[k] = s[k]
  OBVIOUS
<1>3. \A k \in 1 .. Len(t) : /\ Len(s) + k \in 1 .. Len(u)
                             /\ u[Len(s) + k] = t[k]
  OBVIOUS
<1>4. \A k \in 1 .. Len(u) : \/ k \in 1 .. Len(s)
                             \/ \E m \in 1 .. Len(t) : k = Len(s) + m
  <2> SUFFICES ASSUME NEW k \in 1 .. Len(u), k \notin 1 .. Len(s)
               PROVE  \E m \in 1 .. Len(t) : k = Len(s) + m
    OBVIOUS
  <2>1. k - Len(s) \in 1 .. Len(t) /\ k = Len(s) + (k - Len(s))
    BY <1>1
  <2> QED
    BY <2>1
<1> HIDE DEF u
<1>5. ServedFirst(u)
  <2> SUFFICES ASSUME NEW k \in 1 .. Len(u)
               PROVE  /\ Workload(u[k].child[1]) => u[k].child[2] \in u[k].refs
                      /\ \A r \in u[k].refs :
                           /\ u[k].child \in {<<"Deployment", r>>,
                                              <<"StatefulSet", r>>}
                           /\ \E j \in 1 .. k - 1 :
                                u[j].child = <<"Service", r>>
    BY DEF ServedFirst
  <2>1. CASE k \in 1 .. Len(s)
    <3>1. u[k] = s[k]
      BY <1>2, <2>1
    <3>2. ASSUME NEW r \in s[k].refs
          PROVE  \E j \in 1 .. k - 1 : u[j].child = <<"Service", r>>
      <4>1. PICK j \in 1 .. k - 1 : s[j].child = <<"Service", r>>
        BY <2>1 DEF ServedFirst
      <4>2. j \in 1 .. Len(s)
        BY <2>1
      <4> QED
        BY <1>2, <4>1, <4>2
    <3> QED
      BY <2>1, <3>1, <3>2 DEF ServedFirst
  <2>2. ASSUME NEW m \in 1 .. Len(t), k = Len(s) + m
        PROVE  /\ Workload(u[k].child[1]) => u[k].child[2] \in u[k].refs
               /\ \A r \in u[k].refs :
                    /\ u[k].child \in {<<"Deployment", r>>,
                                       <<"StatefulSet", r>>}
                    /\ \E j \in 1 .. k - 1 : u[j].child = <<"Service", r>>
    <3>1. u[k] = t[m]
      BY <1>3, <2>2
    <3>2. ASSUME NEW r \in t[m].refs
          PROVE  \E j \in 1 .. k - 1 : u[j].child = <<"Service", r>>
      <4>1. PICK j \in 1 .. m - 1 : t[j].child = <<"Service", r>>
        BY DEF ServedFirst
      <4>2. j \in 1 .. Len(t) /\ Len(s) + j \in 1 .. k - 1
        BY <2>2
      <4> QED
        BY <1>3, <4>1, <4>2
    <3> QED
      BY <3>1, <3>2 DEF ServedFirst
  <2> QED
    BY <1>4, <2>1, <2>2
<1>6. ChildrenIn(u) = ChildrenIn(s) \cup ChildrenIn(t)
  <2>1. ASSUME NEW i \in ChildrenIn(u)
        PROVE  i \in ChildrenIn(s) \cup ChildrenIn(t)
    <3>1. PICK k \in 1 .. Len(u) : i = u[k].child
      BY DEF ChildrenIn
    <3>2. CASE k \in 1 .. Len(s)
      BY <1>2, <3>1, <3>2 DEF ChildrenIn
    <3>3. ASSUME NEW m \in 1 .. Len(t), k = Len(s) + m
          PROVE  i \in ChildrenIn(t)
      <4>1. u[k] = t[m]
        BY <1>3, <3>3
      <4> QED
        BY <3>1, <4>1 DEF ChildrenIn
    <3> QED
      BY <1>4, <3>2, <3>3
  <2>2. ASSUME NEW i \in ChildrenIn(s)
        PROVE  i \in ChildrenIn(u)
    BY <1>2 DEF ChildrenIn
  <2>3. ASSUME NEW i \in ChildrenIn(t)
        PROVE  i \in ChildrenIn(u)
    BY <1>3 DEF ChildrenIn
  <2> QED
    BY <2>1, <2>2, <2>3
<1>7. RefsIn(u) = RefsIn(s) \cup RefsIn(t)
  <2>1. ASSUME NEW r \in RefsIn(u)
        PROVE  r \in RefsIn(s) \cup RefsIn(t)
    <3>1. PICK k \in 1 .. Len(u) : r \in u[k].refs
      BY DEF RefsIn
    <3>2. CASE k \in 1 .. Len(s)
      BY <1>2, <3>1, <3>2 DEF RefsIn
    <3>3. ASSUME NEW m \in 1 .. Len(t), k = Len(s) + m
          PROVE  r \in RefsIn(t)
      <4>1. u[k] = t[m]
        BY <1>3, <3>3
      <4> QED
        BY <3>1, <4>1 DEF RefsIn
    <3> QED
      BY <1>4, <3>2, <3>3
  <2>2. ASSUME NEW r \in RefsIn(s)
        PROVE  r \in RefsIn(u)
    <3>1. PICK k \in 1 .. Len(s) : r \in s[k].refs
      BY DEF RefsIn
    <3> QED
      BY <1>2, <3>1 DEF RefsIn
  <2>3. ASSUME NEW r \in RefsIn(t)
        PROVE  r \in RefsIn(u)
    <3>1. PICK k \in 1 .. Len(t) : r \in t[k].refs
      BY DEF RefsIn
    <3> QED
      BY <1>3, <3>1 DEF RefsIn
  <2> QED
    BY <2>1, <2>2, <2>3
<1> QED
  BY <1>1, <1>5, <1>6, <1>7 DEF u

(* The memcached plan: a service and a workload for each cache, in order.  *)
LEMMA MemcachedInOrder ==
  /\ ServedFirst(MemcachedPlan.steps)
  /\ ChildrenIn(MemcachedPlan.steps)
       = {<<"Service", n>> : n \in CacheNames}
           \cup {<<"StatefulSet", n>> : n \in CacheNames}
  /\ RefsIn(MemcachedPlan.steps) = CacheNames
<1> DEFINE S == {Quiet("Service", n) : n \in CacheNames}
                  \cup {Recorded("StatefulSet", n) : n \in CacheNames}
           Pair(n) == Served("StatefulSet", n)
           Two(n) == {<<"Service", n>>, <<"StatefulSet", n>>}
<1>1. ASSUME NEW n \in CacheNames
      PROVE  /\ Pair(n) \in Seq(S)
             /\ ServedFirst(Pair(n))
             /\ ChildrenIn(Pair(n)) = Two(n)
             /\ RefsIn(Pair(n)) = {n}
  <2>1. Quiet("Service", n) \in S /\ Recorded("StatefulSet", n) \in S
    OBVIOUS
  <2>2. Pair(n) \in Seq(S)
    BY <2>1 DEF Served
  <2> QED
    BY <2>2, ServedInOrder
<1> HIDE DEF S, Pair, Two
<1> DEFINE s2 == Pair("memcached-chunks") \o Pair("memcached-index-queries")
           s3 == s2 \o Pair("memcached-index-writes")
           s4 == s3 \o Pair("memcached-results")
           s5 == s4 \o Pair("memcached-metadata")
<1>2. MemcachedPlan.steps = s5
  BY DEF MemcachedPlan, Plan, Pair
<1>3. CacheNames = {"memcached-chunks", "memcached-index-queries",
                    "memcached-index-writes", "memcached-results",
                    "memcached-metadata"}
  BY DEF CacheNames
<1>join. ASSUME NEW s \in Seq(S), ServedFirst(s), NEW n \in CacheNames
      PROVE  /\ s \o Pair(n) \in Seq(S)
             /\ ServedFirst(s \o Pair(n))
             /\ ChildrenIn(s \o Pair(n)) = ChildrenIn(s) \cup Two(n)
             /\ RefsIn(s \o Pair(n)) = RefsIn(s) \cup {n}
  <2>1. /\ Pair(n) \in Seq(S) /\ ServedFirst(Pair(n))
        /\ ChildrenIn(Pair(n)) = Two(n) /\ RefsIn(Pair(n)) = {n}
    BY <1>1
  <2>2. /\ s \o Pair(n) \in Seq(S)
        /\ ServedFirst(s \o Pair(n))
        /\ ChildrenIn(s \o Pair(n)) = ChildrenIn(s) \cup ChildrenIn(Pair(n))
        /\ RefsIn(s \o Pair(n)) = RefsIn(s) \cup RefsIn(Pair(n))
    BY <1>join, <2>1, JoinedInOrder
  <2> QED
    BY <2>1, <2>2
<1>4. /\ s2 \in Seq(S) /\ ServedFirst(s2)
      /\ ChildrenIn(s2) = Two("memcached-chunks")
                             \cup Two("memcached-index-queries")
      /\ RefsIn(s2) = {"memcached-chunks", "memcached-index-queries"}
  BY <1>1, <1>3, <1>join
<1> HIDE DEF s2
<1>5. /\ s3 \in Seq(S) /\ ServedFirst(s3)
      /\ ChildrenIn(s3) = ChildrenIn(s2) \cup Two("memcached-index-writes")
      /\ RefsIn(s3) = RefsIn(s2) \cup {"memcached-index-writes"}
  BY <1>3, <1>4, <1>join
<1> HIDE DEF s3
<1>6. /\ s4 \in Seq(S) /\ ServedFirst(s4)
      /\ ChildrenIn(s4) = ChildrenIn(s3) \cup Two("memcached-results")
      /\ RefsIn(s4) = RefsIn(s3) \cup {"memcached-results"}
  BY <1>3, <1>5, <1>join
<1> HIDE DEF s4
<1>7. /\ s5 \in Seq(S) /\ ServedFirst(s5)
      /\ ChildrenIn(s5) = ChildrenIn(s4) \cup Two("memcached-metadata")
      /\ RefsIn(s5) = RefsIn(s4) \cup {"memcached-metadata"}
  BY <1>3, <1>6, <1>join
<1> HIDE DEF s5
<1>8. RefsIn(s5) = CacheNames
  BY <1>3, <1>4, <1>5, <1>6, <1>7
<1>9. ChildrenIn(s5) = UNION {Two(n) : n \in CacheNames}
  BY <1>3, <1>4, <1>5, <1>6, <1>7
<1>10. UNION {Two(n) : n \in CacheNames}
         = {<<"Service", n>> : n \in CacheNames}
             \cup {<<"StatefulSet", n>> : n \in CacheNames}
  BY DEF Two
<1> QED
  BY <1>2, <1>7, <1>8, <1>9, <1>10

(* The plans without a reference.                                          *)
LEMMA ConfigInOrder ==
  /\ ServedFirst(CortexPlan.steps)
  /\ ChildrenIn(CortexPlan.steps)
       = {CortexConfigMap, ServiceAccount, GossipRing}
  /\ RefsIn(CortexPlan.steps) = {}
  /\ ServedFirst(RuntimeConfigPlan.steps)
  /\ ChildrenIn(RuntimeConfigPlan.steps) = {RuntimeConfigMap}
  /\ RefsIn(RuntimeConfigPlan.steps) = {}
<1>1. /\ Len(CortexPlan.steps) = 3
      /\ CortexPlan.steps[1] = [child |-> CortexConfigMap, refs |-> {}]
      /\ CortexPlan.steps[2] = [child |-> ServiceAccount, refs |-> {}]
      /\ CortexPlan.steps[3] = [child |-> GossipRing, refs |-> {}]
  BY DEF CortexPlan, Plan, Quiet, CortexConfigMap, ServiceAccount, GossipRing
<1>2. /\ Len(RuntimeConfigPlan.steps) = 1
      /\ RuntimeConfigPlan.steps[1]
           = [child |-> RuntimeConfigMap, refs |-> {}]
  BY DEF RuntimeConfigPlan, Plan, Quiet, RuntimeConfigMap
<1> DEFINE s == CortexPlan.steps
           t == RuntimeConfigPlan.steps
<1> HIDE DEF s, t
<1>3. 1 .. Len(s) = {1, 2, 3} /\ 1 .. Len(t) = {1}
  BY <1>1, <1>2 DEF s, t
<1>4. /\ s[1].child = CortexConfigMap /\ s[1].refs = {}
      /\ s[2].child = ServiceAccount /\ s[2].refs = {}
      /\ s[3].child = GossipRing /\ s[3].refs = {}
      /\ t[1].child = RuntimeConfigMap /\ t[1].refs = {}
  BY <1>1, <1>2 DEF s, t
<1>5. /\ ~Workload(CortexConfigMap[1]) /\ ~Workload(ServiceAccount[1])
      /\ ~Workload(GossipRing[1]) /\ ~Workload(RuntimeConfigMap[1])
  BY DEF Workload, CortexConfigMap, ServiceAccount, GossipRing,
         RuntimeConfigMap
<1>6. ServedFirst(s) /\ ServedFirst(t)
  <2>1. \A k \in 1 .. Len(s) : s[k].refs = {} /\ ~Workload(s[k].child[1])
    BY <1>3, <1>4, <1>5
  <2>2. \A k \in 1 .. Len(t) : t[k].refs = {} /\ ~Workload(t[k].child[1])
    BY <1>3, <1>4, <1>5
  <2> QED
    BY <2>1, <2>2 DEF ServedFirst
<1>7. /\ ChildrenIn(s) = {CortexConfigMap, ServiceAccount, GossipRing}
      /\ ChildrenIn(t) = {RuntimeConfigMap}
  BY <1>3, <1>4 DEF ChildrenIn
<1>8. RefsIn(s) = {} /\ RefsIn(t) = {}
  BY <1>3, <1>4 DEF RefsIn
<1> QED
  BY <1>6, <1>7, <1>8 DEF s, t

(* The plan of c, in other words.                                          *)
PlanReads(c, created, refs) ==
  /\ ServedFirst(Steps(c))
  /\ PlanOf(c).opens \subseteq {"memcached"}
  /\ ChildrenOf(c) = created
  /\ Publishes(c) = refs

(* So for the common shape.                                                *)
LEMMA PlanReadsServed ==
  ASSUME NEW c, NEW kind \in {"Deployment", "StatefulSet"}, NEW name,
         Steps(c) = Served(kind, name), PlanOf(c).opens = {}
  PROVE  PlanReads(c, {<<"Service", name>>, <<kind, name>>}, {name})
<1>1. /\ ChildrenOf(c) = ChildrenIn(Steps(c))
      /\ Publishes(c) = RefsIn(Steps(c))
  BY DEF ChildrenOf, ChildrenIn, Publishes, RefsIn, Steps
<1> QED
  BY <1>1, ServedInOrder DEF PlanReads

(* The children and the references of the eleven controllers.              *)
LEMMA PlanTable ==
  /\ PlanReads("Cortex", {CortexConfigMap, ServiceAccount, GossipRing}, {})
  /\ PlanReads("RuntimeConfig", {RuntimeConfigMap}, {})
  /\ PlanReads("Memcached", {<<"Service", n>> : n \in CacheNames}
                              \cup {<<"StatefulSet", n>> : n \in CacheNames},
               {"memcached"} \cup CacheNames)
  /\ PlanReads("Ingester", {<<"Service", "ingester">>,
                  <<"StatefulSet", "ingester">>}, {"ingester"})
  /\ PlanReads("Compactor", {<<"Service", "compactor">>,
                  <<"StatefulSet", "compactor">>}, {"compactor"})
  /\ PlanReads("StoreGateway", {<<"Service", "store-gateway">>,
                  <<"StatefulSet", "store-gateway">>}, {"store-gateway"})
  /\ PlanReads("AlertManager", {<<"Service", "alertmanager">>,
                  <<"Deployment", "alertmanager">>}, {"alertmanager"})
  /\ PlanReads("Distributor", {<<"Service", "distributor">>,
                  <<"Deployment", "distributor">>}, {"distributor"})
  /\ PlanReads("Querier", {<<"Service", "querier">>,
                  <<"Deployment", "querier">>}, {"querier"})
  /\ PlanReads("QueryFrontend", {<<"Service", "query-frontend">>,
                  <<"Deployment", "query-frontend">>}, {"query-frontend"})
  /\ PlanReads("Ruler", {<<"Service", "ruler">>,
                  <<"Deployment", "ruler">>}, {"ruler"})
<1> USE DEF PlanOf, Steps, Plan
<1>1. PlanReads("Cortex", {CortexConfigMap, ServiceAccount, GossipRing}, {})
  <2>1. Steps("Cortex") = CortexPlan.steps /\ PlanOf("Cortex").opens = {}
    BY DEF CortexPlan
  <2>2. /\ ChildrenOf("Cortex") = ChildrenIn(CortexPlan.steps)
        /\ Publishes("Cortex") = RefsIn(CortexPlan.steps)
    BY <2>1 DEF ChildrenOf, ChildrenIn, Publishes, RefsIn
  <2> QED
    BY <2>1, <2>2, ConfigInOrder DEF PlanReads
<1>2. PlanReads("RuntimeConfig", {RuntimeConfigMap}, {})
  <2>1. /\ Steps("RuntimeConfig") = RuntimeConfigPlan.steps
        /\ PlanOf("RuntimeConfig").opens = {}
    BY DEF RuntimeConfigPlan
  <2>2. /\ ChildrenOf("RuntimeConfig") = ChildrenIn(RuntimeConfigPlan.steps)
        /\ Publishes("RuntimeConfig") = RefsIn(RuntimeConfigPlan.steps)
    BY <2>1 DEF ChildrenOf, ChildrenIn, Publishes, RefsIn
  <2> QED
    BY <2>1, <2>2, ConfigInOrder DEF PlanReads
<1>3. PlanReads("Memcached", {<<"Service", n>> : n \in CacheNames}
                              \cup {<<"StatefulSet", n>> : n \in CacheNames},
                {"memcached"} \cup CacheNames)
  <2>1. /\ Steps("Memcached") = MemcachedPlan.steps
        /\ PlanOf("Memcached").opens = {"memcached"}
    BY DEF MemcachedPlan
  <2>2. /\ ChildrenOf("Memcached") = ChildrenIn(MemcachedPlan.steps)
        /\ Publishes("Memcached")
             = {"memcached"} \cup RefsIn(MemcachedPlan.steps)
    BY <2>1 DEF ChildrenOf, ChildrenIn, Publishes, RefsIn
  <2> QED
    BY <2>1, <2>2, MemcachedInOrder DEF PlanReads
<1>4. /\ Steps("Ingester") = Served("StatefulSet", "ingester")
      /\ PlanOf("Ingester").opens = {}
  BY DEF IngesterPlan
<1>5. /\ Steps("Compactor") = Served("StatefulSet", "compactor")
      /\ PlanOf("Compactor").opens = {}
  BY DEF CompactorPlan
<1>6. /\ Steps("StoreGateway") = Served("StatefulSet", "store-gateway")
      /\ PlanOf("StoreGateway").opens = {}
  BY DEF StoreGatewayPlan
<1>7. /\ Steps("AlertManager") = Served("Deployment", "alertmanager")
      /\ PlanOf("AlertManager").opens = {}
  BY DEF AlertManagerPlan
<1>8. /\ Steps("Distributor") = Served("Deployment", "distributor")
      /\ PlanOf("Distributor").opens = {}
  BY DEF DistributorPlan
<1>9. /\ Steps("Querier") = Served("Deployment", "querier")
      /\ PlanOf("Querier").opens = {}
  BY DEF QuerierPlan
<1>10. /\ Steps("QueryFrontend") = Served("Deployment", "query-frontend")
      /\ PlanOf("QueryFrontend").opens = {}
  BY DEF QueryFrontendPlan
<1>11. /\ Steps("Ruler") = Served("Deployment", "ruler")
      /\ PlanOf("Ruler").opens = {}
  BY DEF RulerPlan
<1> QED
  BY <1>1, <1>2, <1>3, <1>4, <1>5, <1>6, <1>7, <1>8, <1>9, <1>10, <1>11,
     PlanReadsServed

(* Every plan has steps, in that order, and every child one controller.    *)
LEMMA StepsOf ==
  ASSUME NEW c \in Controllers
  PROVE  /\ Len(Steps(c)) \in Nat \ {0}
         /\ ServedFirst(Steps(c))
         /\ PlanOf(c).opens \subseteq {"memcached"}
         /\ \A i \in ChildrenOf(c) : Responsible(i) = c
<1>1. Len(Steps(c)) \in Nat \ {0}
  BY PlansSound DEF PlanShape, Steps
<1>2. ServedFirst(Steps(c)) /\ PlanOf(c).opens \subseteq {"memcached"}
  BY PlanTable, ControllersAssumption DEF PlanReads, AllControllers
<1> SUFFICES ASSUME NEW i \in ChildrenOf(c)
             PROVE  Responsible(i) = c
  BY <1>1, <1>2
<1> USE DEF Responsible, CortexConfigMap, ServiceAccount, GossipRing,
            RuntimeConfigMap, CacheNames
<1>3. CASE c = "Cortex"
  <2>1. i \in {CortexConfigMap, ServiceAccount, GossipRing}
    BY <1>3, PlanTable DEF PlanReads
  <2> QED
    BY <1>3, <2>1
<1>4. CASE c = "RuntimeConfig"
  <2>1. i = RuntimeConfigMap
    BY <1>4, PlanTable DEF PlanReads
  <2> QED
    BY <1>4, <2>1
<1>5. CASE c = "Memcached"
  <2>1. PICK n \in CacheNames :
          i = <<"Service", n>> \/ i = <<"StatefulSet", n>>
    BY <1>5, PlanTable DEF PlanReads
  <2> QED
    BY <1>5, <2>1
<1>s. ASSUME NEW kind \in {"Deployment", "StatefulSet"}, NEW name,
             ChildrenOf(c) = {<<"Service", name>>, <<kind, name>>}
      PROVE  /\ i[2] = name
             /\ i[1] \in {"Service", "Deployment", "StatefulSet"}
  BY <1>s
<1>6. CASE c = "Ingester"
  <2>1. ChildrenOf(c) = {<<"Service", "ingester">>,
                         <<"StatefulSet", "ingester">>}
    BY <1>6, PlanTable DEF PlanReads
  <2>2. /\ i[2] = "ingester"
        /\ i[1] \in {"Service", "Deployment", "StatefulSet"}
    BY <1>s, <2>1
  <2> QED
    BY <1>6, <2>2
<1>7. CASE c = "Compactor"
  <2>1. ChildrenOf(c) = {<<"Service", "compactor">>,
                         <<"StatefulSet", "compactor">>}
    BY <1>7, PlanTable DEF PlanReads
  <2>2. /\ i[2] = "compactor"
        /\ i[1] \in {"Service", "Deployment", "StatefulSet"}
    BY <1>s, <2>1
  <2> QED
    BY <1>7, <2>2
<1>8. CASE c = "StoreGateway"
  <2>1. ChildrenOf(c) = {<<"Service", "store-gateway">>,
                         <<"StatefulSet", "store-gateway">>}
    BY <1>8, PlanTable DEF PlanReads
  <2>2. /\ i[2] = "store-gateway"
        /\ i[1] \in {"Service", "Deployment", "StatefulSet"}
    BY <1>s, <2>1
  <2> QED
    BY <1>8, <2>2
<1>9. CASE c = "AlertManager"
  <2>1. ChildrenOf(c) = {<<"Service", "alertmanager">>,
                         <<"Deployment", "alertmanager">>}
    BY <1>9, PlanTable DEF PlanReads
  <2>2. /\ i[2] = "alertmanager"
        /\ i[1] \in {"Service", "Deployment", "StatefulSet"}
    BY <1>s, <2>1
  <2> QED
    BY <1>9, <2>2
<1>10. CASE c = "Distributor"
  <2>1. ChildrenOf(c) = {<<"Service", "distributor">>,
                         <<"Deployment", "distributor">>}
    BY <1>10, PlanTable DEF PlanReads
  <2>2. /\ i[2] = "distributor"
        /\ i[1] \in {"Service", "Deployment", "StatefulSet"}
    BY <1>s, <2>1
  <2> QED
    BY <1>10, <2>2
<1>11. CASE c = "Querier"
  <2>1. ChildrenOf(c) = {<<"Service", "querier">>,
                         <<"Deployment", "querier">>}
    BY <1>11, PlanTable DEF PlanReads
  <2>2. /\ i[2] = "querier"
        /\ i[1] \in {"Service", "Deployment", "StatefulSet"}
    BY <1>s, <2>1
  <2> QED
    BY <1>11, <2>2
<1>12. CASE c = "QueryFrontend"
  <2>1. ChildrenOf(c) = {<<"Service", "query-frontend">>,
                         <<"Deployment", "query-frontend">>}
    BY <1>12, PlanTable DEF PlanReads
  <2>2. /\ i[2] = "query-frontend"
        /\ i[1] \in {"Service", "Deployment", "StatefulSet"}
    BY <1>s, <2>1
  <2> QED
    BY <1>12, <2>2
<1>13. CASE c = "Ruler"
  <2>1. ChildrenOf(c) = {<<"Service", "ruler">>,
                         <<"Deployment", "ruler">>}
    BY <1>13, PlanTable DEF PlanReads
  <2>2. /\ i[2] = "ruler"
        /\ i[1] \in {"Service", "Deployment", "StatefulSet"}
    BY <1>s, <2>1
  <2> QED
    BY <1>13, <2>2
<1> QED
  BY ControllersAssumption, <1>3, <1>4, <1>5, <1>6, <1>7, <1>8, <1>9, <1>10,
     <1>11, <1>12, <1>13 DEF AllControllers

(* Who publishes a reference: the controller named for it.                 *)
LEMMA Publishers ==
  ASSUME NEW d \in Controllers
  PROVE  /\ "ingester" \in Publishes(d) => d = "Ingester"
         /\ "querier" \in Publishes(d) => d = "Querier"
         /\ \A r \in MemcachedIsSet : r \in Publishes(d) => d = "Memcached"
<1> USE PlanTable DEF PlanReads, CacheNames, MemcachedIsSet
<1>1. CASE d \in {"Cortex", "RuntimeConfig", "Memcached", "Ingester"}
  BY <1>1
<1>2. CASE d \in {"Compactor", "StoreGateway", "AlertManager"}
  BY <1>2
<1>3. CASE d \in {"Distributor", "Querier", "QueryFrontend", "Ruler"}
  BY <1>3
<1> QED
  BY ControllersAssumption, <1>1, <1>2, <1>3 DEF AllControllers

(* The gates are in no circle: when every controller whose gate is open    *)
(* has published what it publishes, all gates are open.                    *)
THEOREM GatesOpen ==
  ASSUME ClosedControllers, NEW status,
         \A c \in Controllers :
           PlanOf(c).gate \subseteq status => Publishes(c) \subseteq status,
         NEW c \in Controllers
  PROVE  PlanOf(c).gate \subseteq status
<1>1. \A d \in Controllers :
        PlanOf(d).gate = {} => Publishes(d) \subseteq status
  OBVIOUS
<1>2. /\ PlanOf("Ingester").gate = {}
      /\ PlanOf("Memcached").gate = {}
      /\ PlanOf("Querier").gate = {"ingester"}
  BY DEF PlanOf, IngesterPlan, MemcachedPlan, QuerierPlan, Plan
<1>3. ASSUME NEW d \in Controllers, PlanOf(d).gate = {"ingester"}
      PROVE  PlanOf(d).gate \subseteq status
  BY <1>1, <1>2, <1>3, Publishers DEF ClosedControllers
<1>4. ASSUME NEW d \in Controllers, PlanOf(d).gate = {"querier"}
      PROVE  PlanOf(d).gate \subseteq status
  BY <1>2, <1>3, <1>4, Publishers DEF ClosedControllers
<1>5. ASSUME NEW d \in Controllers, PlanOf(d).gate = MemcachedIsSet
      PROVE  PlanOf(d).gate \subseteq status
  <2>1. ASSUME NEW r \in MemcachedIsSet
        PROVE  r \in status
    <3>1. PICK e \in Controllers : r \in Publishes(e)
      BY <1>5 DEF ClosedControllers
    <3> QED
      BY <1>1, <1>2, <3>1, Publishers
  <2> QED
    BY <1>5, <2>1
<1>6. PlanOf(c).gate \in {{}, {"ingester"}, {"querier"}, MemcachedIsSet}
  BY ControllersAssumption
     DEF AllControllers, PlanOf, Plan, CortexPlan, RuntimeConfigPlan,
         MemcachedPlan, IngesterPlan, CompactorPlan, StoreGatewayPlan,
         AlertManagerPlan, DistributorPlan, QuerierPlan, QueryFrontendPlan,
         RulerPlan
<1> QED
  BY <1>3, <1>4, <1>5, <1>6

(* The eleven controllers together wait for nothing else.                  *)
LEMMA AllAreClosed == Controllers = AllControllers => ClosedControllers
<1> SUFFICES ASSUME Controllers = AllControllers, NEW c \in Controllers,
                    NEW r \in PlanOf(c).gate
             PROVE  \E d \in Controllers : r \in Publishes(d)
  BY DEF ClosedControllers
<1>1. PlanOf(c).gate \in {{}, {"ingester"}, {"querier"}, MemcachedIsSet}
  BY DEF AllControllers, PlanOf, Plan, CortexPlan, RuntimeConfigPlan,
         MemcachedPlan, IngesterPlan, CompactorPlan, StoreGatewayPlan,
         AlertManagerPlan, DistributorPlan, QuerierPlan, QueryFrontendPlan,
         RulerPlan
<1>2. {"Ingester", "Querier", "Memcached"} \subseteq Controllers
  BY DEF AllControllers
<1>3. /\ "ingester" \in Publishes("Ingester")
      /\ "querier" \in Publishes("Querier")
      /\ MemcachedIsSet = Publishes("Memcached")
  BY PlanTable DEF PlanReads, MemcachedIsSet
<1> QED
  BY <1>1, <1>2, <1>3
=============================================================================
