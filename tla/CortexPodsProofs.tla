-------------------------- MODULE CortexPodsProofs --------------------------
(***************************************************************************)
(* The safety of pods, proved: pods are never newer than their workloads,  *)
(* whose images and configs only go on, so a pod is replaced once for each *)
(* release at most; and what a pod reads when it starts is no older than   *)
(* what its template was made from, so the last template brings the last   *)
(* config with it, unless the node was late.                               *)
(***************************************************************************)
EXTENDS CortexPods, CortexSettledProofs, FiniteSetTheorems

----------------------------------------------------------------------------
(* Templates *)

(* The template of a workload is a function of the release, and tells it.  *)
LEMMA WorkloadIs ==
  ASSUME NEW i \in CortexWorkloads, NEW spec
  PROVE  /\ i # ServiceAccount
         /\ \/ \E n \in Stateful :
                 /\ i = <<"StatefulSet", n>>
                 /\ Content(i, spec)
                      = WithDatadir(Pod(n, Named(n), spec), n, spec)
            \/ \E n \in {"ruler", "alertmanager"} :
                 /\ i = <<"Deployment", n>>
                 /\ Content(i, spec) = Pod(n, Named(n), spec)
            \/ \E n \in Stateless \ {"ruler", "alertmanager"} :
                 /\ i = <<"Deployment", n>>
                 /\ Content(i, spec) = Pod(n, Named(n) \cup Gossiping, spec)
<1>1. /\ i \in Managed
      /\ i[1] \in {"Deployment", "StatefulSet"}
      /\ i[2] \notin CacheNames
  BY DEF CortexWorkloads, Workload
<1>2. i # ServiceAccount
  BY <1>1 DEF ServiceAccount
<1>3. \/ \E n \in Stateful : i = <<"StatefulSet", n>>
      \/ \E n \in Stateless : i = <<"Deployment", n>>
  BY <1>1, ManagedIs
     DEF CortexConfigMap, RuntimeConfigMap, ServiceAccount, GossipRing
<1>4. ASSUME NEW n \in Stateful, i = <<"StatefulSet", n>>
      PROVE  Content(i, spec) = WithDatadir(Pod(n, Named(n), spec), n, spec)
  <2>1. n \notin CacheNames
    BY <1>1, <1>4
  <2> QED
    BY <1>4, <2>1, StatefulSetIs DEF Content, NewStatefulSet
<1>5. ASSUME NEW n \in {"ruler", "alertmanager"}, i = <<"Deployment", n>>
      PROVE  Content(i, spec) = Pod(n, Named(n), spec)
  BY <1>5 DEF Content, NewObject, CortexConfigMap, RuntimeConfigMap,
              ServiceAccount, GossipRing, CacheNames, DeploymentNames,
              NewRulerDeployment, NewAlertManagerDeployment
<1>6. ASSUME NEW n \in Stateless \ {"ruler", "alertmanager"},
             i = <<"Deployment", n>>
      PROVE  Content(i, spec) = Pod(n, Named(n) \cup Gossiping, spec)
  BY <1>6, DeploymentIs DEF Content
<1> QED
  BY <1>2, <1>3, <1>4, <1>5, <1>6

LEMMA WorkloadHas ==
  ASSUME NEW i \in CortexWorkloads
  PROVE  \E labels : \A spec :
           /\ Content(i, spec).labels = labels
           /\ Content(i, spec).image = spec.image
           /\ Content(i, spec).sha = {spec.config}
           /\ Content(i, spec).mounts = {CortexConfigMap, RuntimeConfigMap}
           /\ Content(i, spec).account = {ServiceAccount}
<1> DEFINE Has(pod, labels, spec) ==
             /\ pod.labels = labels
             /\ pod.image = spec.image
             /\ pod.sha = {spec.config}
             /\ pod.mounts = {CortexConfigMap, RuntimeConfigMap}
             /\ pod.account = {ServiceAccount}
<1>1. \A n, labels, spec : Has(Pod(n, labels, spec), labels, spec)
  BY DEF Pod, ConfigSHA
<1>2. \A n, labels, spec :
        Has(WithDatadir(Pod(n, labels, spec), n, spec), labels, spec)
  BY DEF Pod, WithDatadir, ConfigSHA
<1>3. CASE \E n \in Stateful : i = <<"StatefulSet", n>>
  <2>1. PICK n \in Stateful : i = <<"StatefulSet", n>>
    BY <1>3
  <2>2. \A spec : Content(i, spec)
                    = WithDatadir(Pod(n, Named(n), spec), n, spec)
    BY <2>1, WorkloadIs
  <2>3. \A spec : Has(Content(i, spec), Named(n), spec)
    BY <1>2, <2>2
  <2> QED
    BY <2>3
<1>4. CASE \E n \in {"ruler", "alertmanager"} : i = <<"Deployment", n>>
  <2>1. PICK n \in {"ruler", "alertmanager"} : i = <<"Deployment", n>>
    BY <1>4
  <2>2. \A spec : Content(i, spec) = Pod(n, Named(n), spec)
    BY <2>1, WorkloadIs
  <2>3. \A spec : Has(Content(i, spec), Named(n), spec)
    BY <1>1, <2>2
  <2> QED
    BY <2>3
<1>5. CASE \E n \in Stateless \ {"ruler", "alertmanager"} :
             i = <<"Deployment", n>>
  <2>1. PICK n \in Stateless \ {"ruler", "alertmanager"} :
               i = <<"Deployment", n>>
    BY <1>5
  <2>2. \A spec : Content(i, spec) = Pod(n, Named(n) \cup Gossiping, spec)
    BY <2>1, WorkloadIs
  <2>3. \A spec : Has(Content(i, spec), Named(n) \cup Gossiping, spec)
    BY <1>1, <2>2
  <2> QED
    BY <2>3
<1> QED
  BY <1>3, <1>4, <1>5, WorkloadIs

(* Two specs of one release make the same template, and no others do.      *)
LEMMA TemplateTells ==
  ASSUME NEW i \in CortexWorkloads, NEW a, NEW b
  PROVE  TemplateOf(Content(i, a)) = TemplateOf(Content(i, b))
           <=> Release(a) = Release(b)
<1>1. PICK labels : \A spec :
        /\ Content(i, spec).labels = labels
        /\ Content(i, spec).image = spec.image
        /\ Content(i, spec).sha = {spec.config}
        /\ Content(i, spec).mounts = {CortexConfigMap, RuntimeConfigMap}
        /\ Content(i, spec).account = {ServiceAccount}
  BY WorkloadHas
<1>2. ASSUME Release(a) = Release(b)
      PROVE  TemplateOf(Content(i, a)) = TemplateOf(Content(i, b))
  <2>1. a.image = b.image /\ a.config = b.config
    BY <1>2 DEF Release
  <2>2. \A f \in {"labels", "image", "sha", "mounts", "account"} :
          Content(i, a)[f] = Content(i, b)[f]
    BY <1>1, <2>1
  <2> QED
    BY <2>2 DEF TemplateOf
<1>3. ASSUME TemplateOf(Content(i, a)) = TemplateOf(Content(i, b))
      PROVE  Release(a) = Release(b)
  <2>1. \A spec : /\ TemplateOf(Content(i, spec)).image = spec.image
                  /\ TemplateOf(Content(i, spec)).sha = {spec.config}
    BY <1>1 DEF TemplateOf
  <2>2. a.image = b.image /\ {a.config} = {b.config}
    BY <1>3, <2>1
  <2> QED
    BY <2>2 DEF Release
<1> QED
  BY <1>2, <1>3

----------------------------------------------------------------------------
(* Steps of the operator among those of Kubernetes *)

(* A step is the operator's, or leaves it alone.                           *)
LEMMA PodsStepIs ==
  ASSUME [PodsNext]_allVars
  PROVE  OperatorSteps \/ UNCHANGED vars
BY DEF PodsNext, StartPod, RestartContainer, Refresh, allVars

LEMMA PodsStepIsNext == [PodsNext]_allVars => [Next]_vars
BY PodsStepIs DEF OperatorSteps, Next, User

LEMMA PodsImplementOperator == PodsSpec => Spec
BY PodsStepIsNext, PTL DEF PodsSpec, PodsInit, Spec

(* Nothing here deletes the Cortex.                                        *)
LEMMA PodsKeepCortex ==
  TypeOK /\ RolloutInvariant /\ Undeleted /\ [PodsNext]_allVars => Undeleted'
<1> SUFFICES ASSUME TypeOK, RolloutInvariant, Undeleted, [PodsNext]_allVars
             PROVE  Undeleted'
  OBVIOUS
<1> USE DEF apiVars, infVars, ctlVars
<1>1. cortex.uid = 0 => ~cortex.alive
  BY DEF RolloutInvariant, OwnersAreKnown
<1>2. CASE UNCHANGED vars
  BY <1>2 DEF vars, Undeleted
<1>3. CASE CreateCortex
  BY <1>1, <1>3 DEF CreateCortex, Store, Undeleted
<1>4. CASE EditSpec
  <2>1. cortex \in Snapshots
    BY DEF TypeOK
  <2>2. cortex'.uid = cortex.uid /\ cortex'.alive = cortex.alive
    BY <1>4, <2>1 DEF EditSpec, Store, Snapshots
  <2> QED
    BY <2>2 DEF Undeleted
<1>5. CASE System
  <2>1. ASSUME NEW c \in Controllers, PublishStatus(c)
        PROVE  cortex'.uid = cortex.uid /\ cortex'.alive = cortex.alive
    BY <2>1, AcceptedWrite DEF PublishStatus, Store, RolloutInvariant
  <2>2. \/ cortex' = cortex
        \/ \E c \in Controllers : PublishStatus(c)
    BY <1>5 DEF System, Deliver, Resync, Crash, Restarted, Collect, SyncChild,
         TimerFires, Works, StartAbsent, StartBlocked, StartUnbuildable, Start,
         ApplyUnchanged, ApplyCreate, ApplyUpdate, ApplyRefused, Panic,
         StatusUpdate, StatusRefused, Fault, LostReply, CreateChild,
         UpdateChild
  <2> QED
    BY <2>1, <2>2 DEF Undeleted
<1> QED
  BY <1>2, <1>3, <1>4, <1>5, PodsStepIs DEF OperatorSteps

OperatorInvariant ==
  TypeOK /\ RolloutInvariant /\ ConvergenceInvariant /\ Undeleted

LEMMA OperatorInvariantHolds == PodsSpec => []OperatorInvariant
<1>1. PodsInit => Undeleted
  BY DEF PodsInit, Init, Gone, Undeleted
<1> QED
  BY <1>1, PodsKeepCortex, PodsImplementOperator, TypeCorrect,
     RolloutInvariantHolds, ConvergenceInvariantHolds, PTL
     DEF PodsSpec, OperatorInvariant

(* The operator's step is then one of those that do not delete.            *)
LEMMA OperatorKind ==
  ASSUME OperatorInvariant, OperatorInvariant', OperatorSteps
  PROVE  KindOfStep
<1>1. [Next]_vars
  BY DEF OperatorSteps, Next, User
<1> QED
  BY <1>1, StillUndeleted, EveryKind DEF OperatorInvariant

----------------------------------------------------------------------------
(* Releases are known *)

(* What the operator's step adds is the release of the present spec.       *)
LEMMA ReleasedGrows ==
  ASSUME OperatorSteps
  PROVE  /\ released \subseteq released'
         /\ IsFiniteSet(released) => IsFiniteSet(released')
         /\ cortex'.alive => Release(cortex'.spec) \in released'
<1>1. released' = IF cortex'.alive
                    THEN released \cup {Release(cortex'.spec)}
                    ELSE released
  BY DEF OperatorSteps
<1>2. IsFiniteSet(released)
        => IsFiniteSet(released \cup {Release(cortex'.spec)})
  BY FS_AddElement
<1> QED
  BY <1>1, <1>2

(* Copies are made of copies and of the present version.                   *)
LEMMA CopiesStayKnown ==
  ASSUME OperatorInvariant, KindOfStep, ReleasesAreKnown, OperatorSteps
  PROVE  /\ (cortex'.alive => Release(cortex'.spec) \in released')
         /\ (cache'.alive => Release(cache'.spec) \in released')
         /\ \A k \in 1 .. Len(watch') :
              watch'[k].alive => Release(watch'[k].spec) \in released'
         /\ \A c \in Controllers :
              work'[c].copy.alive
                => Release(work'[c].copy.spec) \in released'
<1> DEFINE Knows(s) == s.alive => Release(s.spec) \in released'
<1>1. TypeOK /\ RolloutInvariant
  BY DEF OperatorInvariant
<1>2. Knows(cortex')
  BY ReleasedGrows
<1>3. /\ Knows(cortex) /\ Knows(cache)
      /\ \A k \in 1 .. Len(watch) : Knows(watch[k])
      /\ \A c \in Controllers : Knows(work[c].copy)
  BY ReleasedGrows DEF ReleasesAreKnown
<1>4. watch \in Seq(Snapshots)
  BY <1>1 DEF TypeOK
<1>5. Knows(cache') /\ \A k \in 1 .. Len(watch') : Knows(watch'[k])
  <2>1. CASE UNCHANGED <<cache, watch>>
    BY <1>3, <2>1
  <2>2. CASE UNCHANGED cache /\ watch' = Append(watch, cortex')
    <3>1. ASSUME NEW k \in 1 .. Len(watch')
          PROVE  watch'[k] = cortex' \/ (k \in 1 .. Len(watch)
                                          /\ watch'[k] = watch[k])
      BY <1>4, <2>2
    <3> QED
      BY <1>2, <1>3, <2>2, <3>1
  <2>3. CASE watch # <<>> /\ cache' = Head(watch) /\ watch' = Tail(watch)
    <3>1. 1 \in 1 .. Len(watch) /\ cache' = watch[1]
      BY <1>4, <2>3
    <3>2. ASSUME NEW k \in 1 .. Len(watch')
          PROVE  k + 1 \in 1 .. Len(watch) /\ watch'[k] = watch[k + 1]
      BY <1>4, <2>3
    <3> QED
      BY <1>3, <3>1, <3>2
  <2>4. CASE cache' = cortex /\ watch' = <<>>
    BY <1>3, <2>4
  <2> QED
    BY <1>1, <2>1, <2>2, <2>3, <2>4, FeedEffect
<1>6. ASSUME NEW c \in Controllers
      PROVE  Knows(work'[c].copy)
  <2>1. CASE ~Busy(c)'
    BY <1>1, <1>3, <2>1, IdleAfter DEF Idle, Gone
  <2>2. CASE Busy(c)'
    <3>1. CASE StatusStep(c) /\ work'[c].copy = Written(c)
      BY <1>1, <1>2, <3>1, StatusEffect
    <3>2. CASE work'[c].copy \in {work[c].copy, cache}
      BY <1>3, <3>2
    <3>3. BusyAfter(c)
      BY <1>1, <2>2, WorkerEffect
    <3>4. \/ work'[c].copy \in {work[c].copy, cache}
          \/ StatusStep(c) /\ work'[c].copy = Written(c)
      BY <3>3 DEF BusyAfter
    <3> QED
      BY <3>1, <3>2, <3>4
  <2> QED
    BY <2>1, <2>2
<1> QED
  BY <1>2, <1>5, <1>6

(* A workload is made from a spec some worker holds.                       *)
LEMMA WorkloadEffect ==
  ASSUME OperatorInvariant, KindOfStep, NEW c \in Controllers,
         NEW i \in ChildrenOf(c) \cap CortexWorkloads, i \in DOMAIN children'
  PROVE  \/ i \in DOMAIN children /\ children'[i].data = children[i].data
         \/ /\ Busy(c) /\ UNCHANGED cache
            /\ children'[i].data = Content(i, work[c].copy.spec)
<1>1. /\ TypeOK /\ RolloutInvariant
      /\ WorkIsThere /\ SpecsInOrder /\ ChildrenInOrder
  BY DEF OperatorInvariant, ConvergenceInvariant
<1>2. i \in Overwritten
  BY WorkloadIs, OthersAreOverwritten DEF CortexWorkloads
<1>3. CASE i \in DOMAIN children /\ children'[i] = children[i]
  BY <1>3
<1>4. ASSUME NEW d \in Controllers, ApplyStep(d), i = Target(d)
      PROVE  \/ i \in DOMAIN children /\ children'[i].data = children[i].data
             \/ /\ Busy(c) /\ UNCHANGED cache
                /\ children'[i].data = Content(i, work[c].copy.spec)
  <2>1. d = c
    BY <1>1, <1>4, OneController
  <2>2. Busy(c) /\ UNCHANGED cache
    BY <1>4, <2>1 DEF ApplyStep, At, Busy, infVars
  <2>3. CASE UNCHANGED children
    BY <2>3
  <2>4. CASE children'[i].data = Object(c)
    BY <1>1, <1>2, <1>4, <2>1, <2>2, <2>4, ObjectIsContent
  <2> QED
    BY <1>1, <1>4, <2>1, <2>3, <2>4, ApplyEffect
<1> QED
  BY <1>1, <1>3, <1>4, ChildEffect

LEMMA WorkloadHasController ==
  ASSUME NEW i \in CortexWorkloads
  PROVE  \E c \in Controllers : i \in ChildrenOf(c)
BY DEF CortexWorkloads, Managed

LEMMA ReleasesStayKnown ==
  ASSUME OperatorInvariant, KindOfStep, ReleasesAreKnown, OperatorSteps
  PROVE  ReleasesAreKnown'
<1>1. /\ TypeOK /\ RolloutInvariant /\ SpecsInOrder
  BY DEF OperatorInvariant, ConvergenceInvariant
<1>2. ASSUME NEW i \in CortexWorkloads \cap DOMAIN children'
      PROVE  \E b \in Specs : /\ Release(b) \in released'
                              /\ children'[i].data = Content(i, b)
  <2>1. PICK c \in Controllers : i \in ChildrenOf(c)
    BY <1>2, WorkloadHasController
  <2>2. CASE i \in DOMAIN children /\ children'[i].data = children[i].data
    BY <2>2, ReleasedGrows DEF ReleasesAreKnown
  <2>3. CASE Busy(c) /\ children'[i].data = Content(i, work[c].copy.spec)
    <3>1. work[c].copy.alive /\ work[c].copy.spec \in Specs
      BY <1>1, <2>3, CopyIsKnown
    <3>2. Release(work[c].copy.spec) \in released'
      BY <3>1, ReleasedGrows DEF ReleasesAreKnown
    <3> QED
      BY <2>3, <3>1, <3>2
  <2> QED
    BY <1>2, <2>1, <2>2, <2>3, WorkloadEffect
<1>3. IsFiniteSet(released')
  BY ReleasedGrows DEF ReleasesAreKnown
<1> QED
  BY <1>2, <1>3, CopiesStayKnown DEF ReleasesAreKnown, CortexWorkloads

----------------------------------------------------------------------------
(* Pods are in order *)

(* The operator does not touch the pods; their workloads only go on.       *)
LEMMA OperatorKeepsOrder ==
  ASSUME OperatorInvariant, KindOfStep, OperatorSteps,
         NEW c \in Controllers,
         NEW i \in ChildrenOf(c) \cap CortexWorkloads,
         i \in DOMAIN children', RolledInOrder(c, i)
  PROVE  RolledInOrder(c, i)'
<1>1. /\ TypeOK /\ RolloutInvariant /\ SpecsInOrder
  BY DEF OperatorInvariant, ConvergenceInvariant
<1>2. pods' = pods /\ released \subseteq released'
  BY ReleasedGrows DEF OperatorSteps
<1>3. PICK a \in Specs, b \in Specs :
        /\ pods[i].template = TemplateOf(Content(i, a))
        /\ <<a, b>> \in Later
        /\ children[i].data = Content(i, b)
        /\ Busy(c) => <<b, work[c].copy.spec>> \in Later
        /\ cache.alive /\ <<b, cache.spec>> \in Later
        /\ ReleasesGoOn => \E R \in SUBSET released :
             /\ pods[i].starts = Cardinality(R)
             /\ \A r \in R :
                  \E x \in Specs : Release(x) = r /\ <<x, a>> \in Later
        /\ \/ pods[i].late
           \/ \E s \in Specs : /\ pods[i].config = AsYAML(s)
                               /\ <<a, s>> \in Later
                               /\ <<s, cortex.spec>> \in Later
  BY DEF RolledInOrder
<1>4. Precedes(cache, cortex) /\ Precedes(cortex, cortex')
  BY <1>1, CortexGoesOn DEF SpecsInOrder
<1>5. /\ cortex.alive
      /\ <<cortex.spec, cortex'.spec>> \in Later
  BY <1>3, <1>4 DEF Precedes
<1>6. ReleasesGoOn => \E R \in SUBSET released' :
        /\ pods'[i].starts = Cardinality(R)
        /\ \A r \in R : \E x \in Specs : Release(x) = r /\ <<x, a>> \in Later
  BY <1>2, <1>3
<1>7. \/ pods'[i].late
      \/ \E s \in Specs : /\ pods'[i].config = AsYAML(s)
                          /\ <<a, s>> \in Later
                          /\ <<s, cortex'.spec>> \in Later
  BY <1>2, <1>3, <1>5, LaterIsTransitive
<1>8. PICK d \in Specs :
        /\ <<a, d>> \in Later
        /\ children'[i].data = Content(i, d)
        /\ cache'.alive /\ <<d, cache'.spec>> \in Later
        /\ Busy(c)' => <<d, work'[c].copy.spec>> \in Later
  <2>1. CASE children'[i].data = children[i].data
    BY <1>1, <1>3, <2>1, BoundGoesOn
  <2>2. CASE Busy(c) /\ children'[i].data = Content(i, work[c].copy.spec)
    <3> DEFINE d == work[c].copy.spec
    <3>1. d \in Specs /\ cache.alive /\ <<d, cache.spec>> \in Later
      BY <1>1, <2>2, CopyIsKnown
    <3>2. <<d, d>> \in Later /\ <<a, d>> \in Later
      BY <1>3, <2>2, <3>1, LaterIsReflexive, LaterIsTransitive
    <3>3. /\ cache'.alive /\ <<d, cache'.spec>> \in Later
          /\ Busy(c)' => <<d, work'[c].copy.spec>> \in Later
      BY <1>1, <3>1, <3>2, BoundGoesOn
    <3> QED
      BY <2>2, <3>1, <3>2, <3>3
  <2> QED
    BY <2>1, <2>2, WorkloadEffect
<1> QED
  BY <1>2, <1>3, <1>6, <1>7, <1>8 DEF RolledInOrder, ReleasesGoOn, Busy

(* A container that starts now reads the present config, or is late.       *)
LEMMA LoadedIs ==
  ASSUME OperatorInvariant, NEW a \in Specs, NEW pod,
         cache.alive, <<a, cache.spec>> \in Later,
         pod.config = Loaded.config, pod.late = Loaded.late
  PROVE  \/ pod.late
         \/ \E s \in Specs : /\ pod.config = AsYAML(s)
                             /\ <<a, s>> \in Later
                             /\ <<s, cortex.spec>> \in Later
<1>1. Precedes(cache, cortex)
  BY DEF OperatorInvariant, ConvergenceInvariant, SpecsInOrder
<1>2. cortex.alive /\ <<cache.spec, cortex.spec>> \in Later
  BY <1>1 DEF Precedes
<1>3. cortex.spec \in Specs
  BY <1>2 DEF Later
<1>4. <<a, cortex.spec>> \in Later /\ <<cortex.spec, cortex.spec>> \in Later
  BY <1>2, <1>3, LaterIsTransitive, LaterIsReflexive
<1>5. ~pod.late => pod.config = AsYAML(cortex.spec)
  BY DEF Loaded
<1> QED
  BY <1>3, <1>4, <1>5

(* A pod whose entry has not changed stays in order, the rest being equal. *)
LEMMA PodKeepsOrder ==
  ASSUME NEW c \in Controllers, NEW i, RolledInOrder(c, i),
         UNCHANGED <<vars, released>>, pods'[i] = pods[i]
  PROVE  RolledInOrder(c, i)'
BY DEF RolledInOrder, ReleasesGoOn, vars, apiVars, infVars, ctlVars, Busy

(* Each start of a pod is for a release it has not been started for.       *)
LEMMA StartKeepsOrder ==
  ASSUME OperatorInvariant, PodsInvariant, NEW c \in Controllers,
         NEW i \in ChildrenOf(c) \cap CortexWorkloads, StartPod(i)
  PROVE  RolledInOrder(c, i)'
<1>1. /\ ChildrenInOrder /\ i \in Overwritten
  BY WorkloadIs, OthersAreOverwritten
     DEF OperatorInvariant, ConvergenceInvariant, CortexWorkloads
<1>2. /\ i \in DOMAIN children /\ Outdated(i)
      /\ UNCHANGED <<vars, released>>
  BY DEF StartPod
<1>3. pods'[i] = Over([starts   |-> IF i \in DOMAIN pods
                                      THEN pods[i].starts + 1 ELSE 1,
                       template |-> Template(i)], Loaded)
  BY DEF StartPod, Put
<1>4. /\ pods'[i].starts = IF i \in DOMAIN pods THEN pods[i].starts + 1
                                                ELSE 1
      /\ pods'[i].template = Template(i)
      /\ pods'[i].config = Loaded.config
      /\ pods'[i].late = Loaded.late
  BY <1>3 DEF Over, Loaded
<1>5. \A b \in Specs : cache.alive /\ <<b, cache.spec>> \in Later =>
        \/ pods'[i].late
        \/ \E s \in Specs : /\ pods'[i].config = AsYAML(s)
                            /\ <<b, s>> \in Later
                            /\ <<s, cortex.spec>> \in Later
  BY <1>4, LoadedIs
<1> DEFINE Made(b) ==
      /\ children[i].data = Content(i, b)
      /\ Busy(c) => <<b, work[c].copy.spec>> \in Later
      /\ cache.alive /\ <<b, cache.spec>> \in Later
      Once(b) ==
      ReleasesGoOn => \E R \in SUBSET released :
         /\ pods'[i].starts = Cardinality(R)
         /\ \A r \in R : \E x \in Specs : Release(x) = r /\ <<x, b>> \in Later
<1>6. ASSUME NEW b \in Specs, Made(b)
      PROVE  Release(b) \in released
  <2>1. PICK d \in Specs : /\ Release(d) \in released
                           /\ children[i].data = Content(i, d)
    BY <1>2 DEF PodsInvariant, ReleasesAreKnown
  <2> QED
    BY <1>6, <2>1, TemplateTells
<1>7. CASE i \notin DOMAIN pods
  <2>1. PICK b \in Specs : Made(b)
    BY <1>1, <1>2 DEF ChildrenInOrder, MadeInOrder
  <2>2. <<b, b>> \in Later
    BY LaterIsReflexive
  <2>3. {Release(b)} \in SUBSET released
    BY <1>6, <2>1
  <2>4. pods'[i].starts = Cardinality({Release(b)})
    BY <1>4, <1>7, FS_Singleton
  <2>5. Once(b)
    BY <2>2, <2>3, <2>4
  <2> QED
    BY <1>2, <1>4, <1>5, <2>1, <2>2, <2>5
       DEF RolledInOrder, ReleasesGoOn, Template, vars, apiVars, infVars,
           ctlVars, Busy
<1>8. CASE i \in DOMAIN pods
  <2>1. RolledInOrder(c, i)
    BY <1>8 DEF PodsInvariant
  <2>2. PICK a \in Specs, b \in Specs :
          /\ pods[i].template = TemplateOf(Content(i, a))
          /\ <<a, b>> \in Later
          /\ Made(b)
          /\ ReleasesGoOn => \E R \in SUBSET released :
               /\ pods[i].starts = Cardinality(R)
               /\ \A r \in R :
                    \E x \in Specs : Release(x) = r /\ <<x, a>> \in Later
    BY <2>1 DEF RolledInOrder
  <2>3. <<b, b>> \in Later
    BY LaterIsReflexive
  <2>4. Release(a) # Release(b)
    BY <1>2, <1>8, <2>2, TemplateTells DEF Outdated, Template
  <2>5. Once(b)
    <3> SUFFICES ASSUME ReleasesGoOn
                 PROVE  \E R \in SUBSET released :
                          /\ pods'[i].starts = Cardinality(R)
                          /\ \A r \in R : \E x \in Specs :
                               Release(x) = r /\ <<x, b>> \in Later
      OBVIOUS
    <3>1. PICK R \in SUBSET released :
            /\ pods[i].starts = Cardinality(R)
            /\ \A r \in R :
                 \E x \in Specs : Release(x) = r /\ <<x, a>> \in Later
      BY <2>2
    <3>2. Release(b) \notin R
      <4> SUFFICES ASSUME NEW x \in Specs, <<x, a>> \in Later,
                          Release(x) = Release(b)
                   PROVE  FALSE
        BY <3>1
      <4>1. \A p, q \in Later :
              p[2] = q[1] /\ Release(p[1]) = Release(q[2])
                => Release(p[2]) = Release(q[2])
        BY DEF ReleasesGoOn
      <4> QED
        BY <2>2, <2>4, <4>1
    <3>3. IsFiniteSet(R)
      BY FS_Subset DEF PodsInvariant, ReleasesAreKnown
    <3>4. Cardinality(R \cup {Release(b)}) = Cardinality(R) + 1
      BY <3>2, <3>3, FS_AddElement
    <3>5. R \cup {Release(b)} \in SUBSET released
      BY <1>6, <2>2
    <3>6. \A r \in R \cup {Release(b)} :
            \E x \in Specs : Release(x) = r /\ <<x, b>> \in Later
      BY <2>2, <2>3, <3>1, LaterIsTransitive
    <3> QED
      BY <1>4, <1>8, <3>1, <3>4, <3>5, <3>6
  <2> QED
    BY <1>2, <1>4, <1>5, <2>2, <2>3, <2>5
       DEF RolledInOrder, ReleasesGoOn, Template, vars, apiVars, infVars,
           ctlVars, Busy
<1> QED
  BY <1>7, <1>8

(* A container that restarts keeps its template.                           *)
LEMMA RestartKeepsOrder ==
  ASSUME OperatorInvariant, PodsInvariant, NEW c \in Controllers,
         NEW i \in ChildrenOf(c) \cap CortexWorkloads, RestartContainer(i)
  PROVE  RolledInOrder(c, i)'
<1>1. /\ i \in DOMAIN pods
      /\ UNCHANGED <<vars, released>>
      /\ pods'[i] = Over(Loaded, pods[i])
  BY DEF RestartContainer
<1>2. DOMAIN pods[i] = {"starts", "template", "config", "late"}
  BY <1>1 DEF PodsInvariant
<1>3. /\ pods'[i].starts = pods[i].starts
      /\ pods'[i].template = pods[i].template
      /\ pods'[i].config = Loaded.config
      /\ pods'[i].late = Loaded.late
  BY <1>1, <1>2 DEF Over, Loaded
<1>4. PICK a \in Specs, b \in Specs :
        /\ pods[i].template = TemplateOf(Content(i, a))
        /\ <<a, b>> \in Later
        /\ children[i].data = Content(i, b)
        /\ Busy(c) => <<b, work[c].copy.spec>> \in Later
        /\ cache.alive /\ <<b, cache.spec>> \in Later
        /\ ReleasesGoOn => \E R \in SUBSET released :
             /\ pods[i].starts = Cardinality(R)
             /\ \A r \in R :
                  \E x \in Specs : Release(x) = r /\ <<x, a>> \in Later
  BY <1>1 DEF PodsInvariant, RolledInOrder
<1>5. <<a, cache.spec>> \in Later
  BY <1>4, LaterIsTransitive
<1>6. \/ pods'[i].late
      \/ \E s \in Specs : /\ pods'[i].config = AsYAML(s)
                          /\ <<a, s>> \in Later
                          /\ <<s, cortex.spec>> \in Later
  BY <1>3, <1>4, <1>5, LoadedIs
<1> QED
  BY <1>1, <1>3, <1>4, <1>6
     DEF RolledInOrder, ReleasesGoOn, vars, apiVars, infVars, ctlVars, Busy

(* Only pods of workloads that are there.                                  *)
LEMMA PodsStayPods ==
  ASSUME OperatorInvariant, OperatorInvariant', PodsInvariant,
         [PodsNext]_allVars
  PROVE  /\ DOMAIN pods' \subseteq CortexWorkloads \cap DOMAIN children'
         /\ \A i \in DOMAIN pods' :
              DOMAIN pods'[i] = {"starts", "template", "config", "late"}
<1> DEFINE Fields == {"starts", "template", "config", "late"}
<1>1. /\ DOMAIN pods \subseteq CortexWorkloads \cap DOMAIN children
      /\ \A i \in DOMAIN pods : DOMAIN pods[i] = Fields
  BY DEF PodsInvariant
<1>2. CASE pods' = pods /\ DOMAIN children \subseteq DOMAIN children'
  BY <1>1, <1>2
<1>3. ASSUME NEW i \in CortexWorkloads, StartPod(i)
      PROVE  /\ DOMAIN pods' \subseteq CortexWorkloads \cap DOMAIN children'
             /\ \A j \in DOMAIN pods' : DOMAIN pods'[j] = Fields
  <2> DEFINE new == Over([starts   |-> IF i \in DOMAIN pods
                                         THEN pods[i].starts + 1 ELSE 1,
                          template |-> Template(i)], Loaded)
  <2>1. DOMAIN new = Fields
    BY DEF Over, Loaded
  <2>2. /\ DOMAIN pods' = DOMAIN pods \cup {i}
        /\ \A j \in DOMAIN pods' :
             pods'[j] = IF j = i THEN new ELSE pods[j]
    BY <1>3 DEF StartPod, Put
  <2>3. i \in DOMAIN children /\ UNCHANGED children
    BY <1>3 DEF StartPod, vars, apiVars
  <2> QED
    BY <1>1, <2>1, <2>2, <2>3
<1>4. ASSUME NEW i \in CortexWorkloads, RestartContainer(i)
      PROVE  /\ DOMAIN pods' \subseteq CortexWorkloads \cap DOMAIN children'
             /\ \A j \in DOMAIN pods' : DOMAIN pods'[j] = Fields
  <2>1. i \in DOMAIN pods
    BY <1>4 DEF RestartContainer
  <2>2. DOMAIN Over(Loaded, pods[i]) = Fields
    BY <1>1, <2>1 DEF Over, Loaded
  <2>3. /\ DOMAIN pods' = DOMAIN pods
        /\ \A j \in DOMAIN pods' :
             pods'[j] = IF j = i THEN Over(Loaded, pods[i]) ELSE pods[j]
    BY <1>4 DEF RestartContainer
  <2>4. UNCHANGED children
    BY <1>4 DEF RestartContainer, vars, apiVars
  <2> QED
    BY <1>1, <2>2, <2>3, <2>4
<1>5. ASSUME OperatorSteps
      PROVE  pods' = pods /\ DOMAIN children \subseteq DOMAIN children'
  <2>1. KindOfStep
    BY <1>5, OperatorKind
  <2> QED
    BY <1>5, <2>1, ChildrenStay
       DEF OperatorSteps, OperatorInvariant, ConvergenceInvariant
<1>6. ASSUME NEW i, Refresh(i)
      PROVE  UNCHANGED <<pods, children>>
  BY <1>6 DEF Refresh, vars, apiVars
<1>7. CASE UNCHANGED allVars
  BY <1>2, <1>7 DEF allVars, podVars, vars, apiVars
<1> QED
  BY <1>2, <1>3, <1>4, <1>5, <1>6, <1>7 DEF PodsNext

LEMMA PodsStep ==
  OperatorInvariant /\ OperatorInvariant' /\ PodsInvariant
    /\ [PodsNext]_allVars => PodsInvariant'
<1> SUFFICES ASSUME OperatorInvariant, OperatorInvariant', PodsInvariant,
                    [PodsNext]_allVars
             PROVE  PodsInvariant'
  OBVIOUS
<1>1. ReleasesAreKnown'
  <2>1. CASE OperatorSteps
    BY <2>1, OperatorKind, ReleasesStayKnown DEF PodsInvariant
  <2>2. CASE UNCHANGED <<vars, released>>
    BY <2>2 DEF PodsInvariant, ReleasesAreKnown, vars, apiVars, infVars,
                ctlVars
  <2> QED
    BY <2>1, <2>2 DEF PodsNext, StartPod, RestartContainer, Refresh, allVars,
                      podVars
<1>2. ASSUME NEW c \in Controllers, NEW i \in ChildrenOf(c) \cap DOMAIN pods'
      PROVE  RolledInOrder(c, i)'
  <2>1. i \in CortexWorkloads /\ i \in DOMAIN children'
    BY PodsStayPods
  <2>2. CASE OperatorSteps
    <3>1. i \in DOMAIN pods
      BY <2>2 DEF OperatorSteps
    <3>2. RolledInOrder(c, i)
      BY <3>1 DEF PodsInvariant
    <3> QED
      BY <2>1, <2>2, <3>2, OperatorKind, OperatorKeepsOrder
  <2>3. ASSUME NEW j \in CortexWorkloads, StartPod(j)
        PROVE  RolledInOrder(c, i)'
    <3>1. CASE j = i
      BY <2>1, <2>3, <3>1, StartKeepsOrder
    <3>2. CASE j # i
      <4>1. /\ i \in DOMAIN pods /\ pods'[i] = pods[i]
            /\ UNCHANGED <<vars, released>>
        BY <2>3, <3>2 DEF StartPod, Put
      <4> QED
        BY <4>1, PodKeepsOrder DEF PodsInvariant
    <3> QED
      BY <3>1, <3>2
  <2>4. ASSUME NEW j \in CortexWorkloads, RestartContainer(j)
        PROVE  RolledInOrder(c, i)'
    <3>1. CASE j = i
      BY <2>1, <2>4, <3>1, RestartKeepsOrder
    <3>2. CASE j # i
      <4>1. /\ i \in DOMAIN pods /\ pods'[i] = pods[i]
            /\ UNCHANGED <<vars, released>>
        BY <2>4, <3>2 DEF RestartContainer
      <4> QED
        BY <4>1, PodKeepsOrder DEF PodsInvariant
    <3> QED
      BY <3>1, <3>2
  <2>5. CASE UNCHANGED <<vars, released, pods>>
    BY <2>5, PodKeepsOrder DEF PodsInvariant
  <2> QED
    BY <2>2, <2>3, <2>4, <2>5 DEF PodsNext, Refresh, allVars, podVars
<1> QED
  BY <1>1, <1>2, PodsStayPods DEF PodsInvariant

LEMMA PodsInitially == PodsInit => PodsInvariant
<1> SUFFICES ASSUME PodsInit
             PROVE  PodsInvariant
  OBVIOUS
<1>1. /\ pods = <<>> /\ children = <<>> /\ released = {} /\ watch = <<>>
      /\ ~cortex.alive /\ ~cache.alive
      /\ \A c \in Controllers : ~work[c].copy.alive
  BY DEF PodsInit, Init, Gone, Idle
<1>2. DOMAIN pods = {} /\ DOMAIN children = {}
  BY <1>1
<1>3. IsFiniteSet(released)
  BY <1>1, FS_EmptySet
<1>4. Len(watch) = 0
  BY <1>1
<1>5. ReleasesAreKnown
  BY <1>1, <1>2, <1>3, <1>4 DEF ReleasesAreKnown
<1> QED
  BY <1>2, <1>5 DEF PodsInvariant

(* Pods are made from specs no newer than their workloads, once for each   *)
(* release, and read no config older than what their template was made     *)
(* from, unless they were late: however the operator, the node's copies of *)
(* the config maps and the restarts of containers interleave.              *)
THEOREM PodsInvariantHolds == PodsSpec => []PodsInvariant
BY PodsInitially, PodsStep, OperatorInvariantHolds, PTL DEF PodsSpec

(* If no edits lead back to an earlier release, the pods of a workload are *)
(* started at most once for each image and config the user asked for:      *)
(* neither an edit of anything else nor a worker with an old copy of the   *)
(* spec replaces them.                                                     *)
THEOREM RollsOncePerReleaseHolds ==
  ASSUME ReleasesGoOn
  PROVE  PodsSpec => []RollsOncePerRelease
<1>1. PodsInvariant => RollsOncePerRelease
  <2> SUFFICES ASSUME PodsInvariant, NEW i \in DOMAIN pods
               PROVE  pods[i].starts <= Cardinality(released)
    BY DEF RollsOncePerRelease
  <2>1. PICK c \in Controllers : i \in ChildrenOf(c)
    BY WorkloadHasController DEF PodsInvariant
  <2>2. RolledInOrder(c, i)
    BY <2>1 DEF PodsInvariant
  <2>3. PICK R \in SUBSET released : pods[i].starts = Cardinality(R)
    BY <2>2 DEF RolledInOrder
  <2> QED
    BY <2>3, FS_Subset DEF PodsInvariant, ReleasesAreKnown
<1> QED
  BY <1>1, PodsInvariantHolds, PTL

(* When the operator has settled, each workload is as the present spec     *)
(* asks, and so is its pod's template once it is not outdated.             *)
LEMMA RolledOutIs ==
  ASSUME ClosedControllers, OperatorInvariant, Settled, cortex.alive,
         NEW i \in CortexWorkloads, i \in DOMAIN children, ~Outdated(i)
  PROVE  /\ i \in DOMAIN pods
         /\ pods[i].template = TemplateOf(Content(i, cortex.spec))
<1>1. i \in DOMAIN pods /\ pods[i].template = Template(i)
  BY DEF Outdated
<1>2. PICK c \in Controllers : i \in ChildrenOf(c)
  BY WorkloadHasController
<1>3. PICK k \in 1 .. Len(Steps(c)) : i = Steps(c)[k].child
  BY <1>2 DEF ChildrenOf, Steps
<1>4. i \in Exact
  <2>1. i \in Overwritten /\ i \in Managed
    BY WorkloadIs, OthersAreOverwritten DEF CortexWorkloads
  <2>2. ~ComparesEqual(i)
    BY DEF CortexWorkloads, Workload, ComparesEqual
  <2> QED
    BY <2>1, <2>2 DEF Exact, Unreverted
<1>5. Current(c, k)
  BY <1>3, SettledHasAll DEF OperatorInvariant
<1>6. children[i].data = Content(i, cortex.spec)
  BY <1>3, <1>4, <1>5 DEF Current
<1> QED
  BY <1>1, <1>6 DEF Template

(* The config a container reads follows from that of its spec.             *)
LEMMA ConfigIs ==
  ASSUME NEW a, NEW b
  PROVE  /\ Release(a) = Release(b) => AsYAML(a) = AsYAML(b)
         /\ AsYAML(a) = AsYAML(b)
              <=> Content(CortexConfigMap, a) = Content(CortexConfigMap, b)
<1>1. \A spec : Content(CortexConfigMap, spec) = [content |-> AsYAML(spec)]
  BY ObjectIs DEF Content, NewCortexConfigMap
<1>2. AsYAML(a) = AsYAML(b)
        <=> Content(CortexConfigMap, a) = Content(CortexConfigMap, b)
  <2>1. \A spec : Content(CortexConfigMap, spec).content = AsYAML(spec)
    BY <1>1
  <2> QED
    BY <1>1, <2>1
<1> QED
  BY <1>2 DEF Release, AsYAML

(* If no edits bring an earlier config back, then once everything has come *)
(* to rest a pod runs the config the user asked for last, or it started in *)
(* the gap between an edit and its arrival on the node.                    *)
THEOREM PodsRunTheConfigHolds ==
  ASSUME ClosedControllers, CortexConfigMap \in Unreverted
  PROVE  PodsSpec => []PodsRunTheConfig
<1>1. OperatorInvariant /\ PodsInvariant => PodsRunTheConfig
  <2> SUFFICES ASSUME OperatorInvariant, PodsInvariant,
                      Settled, cortex.alive, RolledOut,
                      NEW i \in CortexWorkloads, ~pods[i].late
               PROVE  pods[i].config = AsYAML(cortex.spec)
    BY DEF PodsRunTheConfig
  <2>1. /\ i \in DOMAIN pods
        /\ pods[i].template = TemplateOf(Content(i, cortex.spec))
    BY RolledOutIs DEF RolledOut
  <2>2. PICK c \in Controllers : i \in ChildrenOf(c)
    BY WorkloadHasController
  <2>3. PICK a \in Specs, s \in Specs :
          /\ pods[i].template = TemplateOf(Content(i, a))
          /\ pods[i].config = AsYAML(s)
          /\ <<a, s>> \in Later
          /\ <<s, cortex.spec>> \in Later
    BY <2>1, <2>2 DEF PodsInvariant, RolledInOrder
  <2>4. AsYAML(a) = AsYAML(cortex.spec)
    <3>1. Release(a) = Release(cortex.spec)
      <4>1. TemplateOf(Content(i, a)) = TemplateOf(Content(i, cortex.spec))
        BY <2>1, <2>3, Zenon
      <4>2. ASSUME NEW spec, TemplateOf(Content(i, a))
                               = TemplateOf(Content(i, spec))
            PROVE  Release(a) = Release(spec)
        BY ONLY <4>2, TemplateTells, i \in CortexWorkloads, Zenon
      <4> QED
        BY <4>1, <4>2, Zenon
    <3> QED
      BY <3>1, ConfigIs
  <2>5. ComparesEqual(CortexConfigMap)
    BY DEF ComparesEqual, CortexConfigMap
  <2>6. \A p, q \in Later :
          /\ p[2] = q[1]
          /\ Content(CortexConfigMap, p[1]) = Content(CortexConfigMap, q[2])
          => Content(CortexConfigMap, p[2]) = Content(CortexConfigMap, q[2])
    BY <2>5 DEF Unreverted
  <2>7. Content(CortexConfigMap, a) = Content(CortexConfigMap, cortex.spec)
    BY <2>4, ConfigIs
  <2>8. Content(CortexConfigMap, s) = Content(CortexConfigMap, cortex.spec)
    BY <2>3, <2>6, <2>7
  <2> QED
    BY <2>3, <2>8, ConfigIs
<1> QED
  BY <1>1, PodsInvariantHolds, OperatorInvariantHolds, PTL
=============================================================================
