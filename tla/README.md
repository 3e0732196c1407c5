# A verification of the Cortex operator

The operator turns one `Cortex` custom resource into the configuration,
services and workloads of a Cortex cluster.  Eleven controllers do the work.
They never talk to each other directly: each reads the Cortex from a shared
cache, writes its own children to the Kubernetes API server, and records what
it has deployed in the *status* of the Cortex, where the others read it.  Most of
what can go wrong lies in that shape: stale caches, one status that eleven
workers overwrite, gates that trust what they have read, and writes that fail,
repeat, or come after the Cortex is gone.  The rest lies at its two ends: the
webhooks that decide which Cortex the workers may trust, and the pods that are
started from what the workers wrote.

## The system

| part | state | operations | talks to |
|---|---|---|---|
| resource reconciler (`controllers/kubernetes_resource.go`) | the in-memory Cortex of one Reconcile | set owner, CreateOrUpdate, write the status | API server, caches |
| Cortex controller (`cortex_controller.go`) | – | config map, service account, gossip-ring service | all pods mount its config |
| runtime config controller | – | runtime config map; can fail to build it | pods mount it |
| memcached controller | – | five services and stateful sets, one after another | publishes five references |
| ingester, compactor, store-gateway | – | service, stateful set | publish a reference each |
| distributor, querier | – | wait for the ingester's reference; service, deployment | publish a reference each |
| query-frontend | – | waits for the querier's reference | publishes a reference |
| ruler | – | waits for the five caches, *and asks to be requeued* | publishes a reference |
| alertmanager | – | service, deployment | publishes a reference |
| configuration (`api/v1alpha1/cortex_webhook.go`) | – | defaults merged over the user's config | config map |
| admission webhooks (`api/v1alpha1`) | – | defaulting, validation | the API server calls them for every create and update |
| manager (`main.go`) | queues, caches, leadership | start, crash, restart | everything |
| API server, garbage collector, informers | the objects and their cached copies | external | – |
| Kubernetes' workload controllers and kubelets, Cortex | pods, config maps on the node | external | started from the pod templates |

The hard behaviours, and what correctness means for each part:

* **The shared status.**  `Status().Update` replaces the whole status.  A
  published reference must stay while its Cortex lives, and must name something
  that exists.
* **The gates.**  A gate is checked once, on a cached copy, and acted on several
  API calls later.  Still no part may exist before what it depends on.
* **Wake-ups.**  Blocked controllers return `ctrl.Result{}`: only the event of
  the status write they wait for brings them back.  Nothing may be left blocked,
  and a failed call must be retried until it succeeds.
* **Stale copies.**  Both the Cortex and the children are read from caches.
  Older work must not overwrite newer work, and an old copy must not have the
  last word.
* **Incarnations.**  A Cortex may be deleted and created anew while workers
  still hold the old one and the garbage collector is still busy with it.
* **Admission.**  No Reconcile tests the spec for nil and the error of a config
  that cannot be generated is dropped, both because "validation errors were
  handled by the webhooks".  A panic takes all eleven controllers down.  The
  webhooks are served by the same process and are installed after the CRDs, and
  several users may edit the Cortex at once: what is stored must be complete,
  and no edit may undo another.
* **Pods.**  The config map, the workload whose annotation rolls the pods, and
  the account they run as are written by controllers that do not wait for each
  other.  Pods must start in the end, must not be left with an old config, and
  must not be replaced without need.
* **Wiring.**  Addresses, ports, selectors, labels and mounts are written in
  different files and must agree.

`PROJECT.json` lists every hazard at its line, with the properties that cover
it.

## Modules

| module | what it is |
|---|---|
| `CortexResources` | the children as functions of the spec: the `New*` builders and the generated configuration |
| `CortexPlans` | what each `Reconcile` waits for and reconciles, in order, as data |
| `CortexOperator` | the state machine: user, API server, informers, queues, workers, failures |
| `CortexDefaults` | `Default` and `Validate` as functions of the spec |
| `CortexAdmission` | users' requests through the webhooks, composed with the operator |
| `CortexPods` | pods and the node's config maps, composed with the operator |
| `Rollout` | the abstract specification: references published in dependency order, and kept |
| `CortexProperties` | the properties, and the refinement mapping to `Rollout` |
| `CortexConvergence` | why the operator converges: the inductive invariant, and what is asked of specs and edits |
| `MCCortex`, `MCAdmission`, `MCPods` | the instances TLC checks |
| `CortexOperatorProofs` | type correctness, and the soundness of the eleven plans |
| `CortexRolloutProofs` | the inductive invariant, its consequences, and the refinement |
| `CortexAdmissionProofs` | lemmas about defaulting, the invariant of admission, and the refinement again |
| `CortexPlanProofs` | lemmas about the plans: what each makes and publishes, and that the gates cannot block each other |
| `CortexConvergenceProofs` | lemmas about sequences of edits, the invariant of convergence, and the backing of references |
| `CortexSettledProofs` | what a settled operator has deployed, that it fits together, and that nothing was rolled back |
| `CortexPodsProofs` | the invariant of the pods, which config they run and how often they are started |

`CortexProperties` extends `CortexOperator`, `CortexPlans` and
`CortexResources`, and `CortexConvergence` extends it with definitions only.
`CortexAdmission` extends `CortexProperties`, and `CortexPods` extends
`CortexConvergence`, with variables of their own and with a next-state relation
in which the operator's `System` is one disjunct.

**How the code became the model.**  The eleven `Reconcile` methods are one
program: get the Cortex, return if it is absent, return if a gate is closed,
then for each child `krr.Reconcile`, returning at the first error.
`CortexPlans` holds what differs (`gate`, `polls`, `opens`, `steps`);
`CortexOperator` has the program.  The head of a Reconcile, up to its first API
call, is one step (`StartAbsent`, `StartBlocked`, `StartUnbuildable`, `Start`):
it only reads the cache.  Each call of `krr.Reconcile` is two, because other
actors may move between its two API calls: `Apply*` is `CreateOrUpdate` and
`Status*` the status update.  `work[c].copy` is the Go variable `cortex`: read
from the cache at the start, changed in memory by `cortex.Status.XRef = ref`
just before the step that deploys X (`Pending`), and replaced by the API
server's reply after each successful status write, which is why a second status
write of the same Reconcile is not refused.

Four facts of the libraries decide much of the behaviour:

* `CreateOrUpdate` reads the child through the *cached* client, compares the
  mutated object with that copy, and sends an update only if they differ, with
  the copy's resourceVersion.  Services and workloads always differ, because the
  mutators replace lists that the API server has completed with defaults; a
  write that changes nothing stores no new version.
* `SetOwnerReference` is called on the fresh object before that read, which
  overwrites it: only a *created* child gets the owner.
* No controller calls `Owns`, so a change of a child wakes nobody; every
  controller watches the Cortex without a predicate, so every status write wakes
  all of them.
* controller-runtime requeues on every returned error, even when the result says
  `Requeue: false`.

**The spec and panics.**  A spec's `sections` holds the section of each
workload as a partial function: what is not in the domain is a nil pointer.
`Dereferenced` says which fields a builder reads through a pointer, `Builds`
whether it survives, and a worker that has come to a child it cannot build
(`Panicking`) can only `Panic`, which is a restart of the process.  `Default`
and `Validate` are functions of the spec; in `MCCortex` and `MCPods` every spec
is a result of `Default` (but for one in `repairs`, on which the compactor's
builder panics), in `CortexAdmission` whatever the requests stored.

**Admission.**  There a user's create or edit is a request of four steps: it is
computed from the version stored now (`Prepared`), defaulted (`CallDefault`),
validated (`CallValidate`) and stored if the version is still the same
(`StoreRequest`), else it starts over or is refused (`Conflict`).  `webhooks`
holds those in force; `Register` adds one.  A webhook that is not in force is
not called, and one that does not answer fails the request (`CallFails`,
`failurePolicy=fail`).  `bypassed` remembers that some version was stored past
a webhook.  An edit is what `kubectl apply` sends: the fields it sets and the
sections it removes.

**Pods.**  `node` is the node's copy of the mounted config maps, `pods` one pod
for each workload.  `StartPod` starts or replaces a pod whose template has
changed, once everything it mounts and its account exist; the pod reads
`config.yaml` at that moment (`Loaded`), and again when its container restarts
by itself.  `Refresh` is the kubelet.  A pod notes in `late` that the user's
config had not reached the node when it started.

**Abstractions.**  A child keeps the fields another object depends on and those
taken from the spec.  Settings of the user's config are scalars; which configs
cannot be merged (a scalar where the defaults have a section) and which Cortex
refuses are the parameters `Unmergeable` and `Unsupported`, as is `Unmarshalable`
for runtime configs.  An absent config merges like an empty one.
The config digest is injective.  A child's cached copy catches up with the
latest version at once (`SyncChild`), while the Cortex's versions are delivered
one by one, each with its notifications.  A deletion is background or orphaning: no finalizer is ever set,
and the foreground policy is left out.  A crash ends the old process at once.
The new one lists what the API server has now (`Restarted`).  An API server of
several, one that lags, could answer with something older; `NeverRollsBack`
rests on the assumption that it does not.  A Reconcile's `Get` reads the cache and
fails only when the Cortex is not there (`StartAbsent`): its other error branch,
which returns the error before anything is written, is left out.
One Cortex exists, in one namespace.  Children's own status, written by
Kubernetes, is left out: what it does to the operator, a refused update that is
retried, is a `Fault`.

## Runs

| run | instance | what it shows |
|---|---|---|
| `rollout_chain` | ingester, querier, query-frontend; one fault or lost reply | dependency order, references kept and backed, the abstract roll-out, convergence and its invariant |
| `rollout_caches` | memcached, ruler; one fault, one crash | the ten-step controller abandoned and resumed in the middle; five references before the ruler |
| `wired` | all eleven controllers, up to three edits, one schedule | what is deployed is what the spec asks for, and fits together |
| `upgrade` | compactor, runtime config; two edits, a crash | no rollback, no settling on an older spec, edits that cannot be applied included, and retried for ever; the invariant of convergence |
| `recreate` | ingester, distributor; two incarnations, orphaned children | the inductive invariant and the refinement across incarnations |
| `lifecycle` | ingester, distributor; deletion, a crash; fairness | eventually deployed for good; eventually collected |
| `repairs` | compactor, runtime config; a broken or an undefaulted spec, repaired; fault, crash, resync; fairness | what is repaired is eventually deployed |
| `admission` | ingester; two users, five kinds of edits, webhooks being installed | the invariant of the proofs; admitted versions are safe, edits are whole |
| `pods` | the Cortex, runtime config and alertmanager controllers, the alertmanager's pod; two edits, a container restart; fairness | pods start, run the config asked for, and are replaced once per release; the invariant of the pods |
| `stale_revert` | runtime config; an edit and its revert | **violated**: the config map keeps the reverted content |
| `recreate_collect` | ingester; two incarnations, background deletion | **violated**: the second Cortex ends without ingesters |
| `adopted` | ingester; two incarnations, orphaned children | **violated**: adopted children have no owner |

`PodsRunTheConfig` has to except pods that started late, and the exception is
not empty: an edit of the config changes the annotation through one controller
and the config map through another, and when the first is faster, or the node
has not fetched the map yet, the new pod reads the old content and nothing
restarts it afterwards.  The property says that there is no *other* way to miss
an edit of the config, as long as no edit brings an earlier config back (see
below for what happens then).

Deadlock is not checked: the operator, once settled, waits for its user.

**Bounds.**  `MaxUids`, `MaxEdits`, `MaxFaults`, `MaxCrashes` and `MaxResyncs`
bound what the environment may do.  Two incarnations and two edits are the
fewest that let an old copy meet a newer state; one fault may hit any call of
any worker in any state, and the retry then meets everything else.  The watch
and the resourceVersions need no bound: a status write that changes nothing
stores nothing, so the versions are bounded by edits and references.  `MaxStale`
bounds how many children's cached copies lag at once: a write waits until it
has room.  With 1 a second write waits for the informer to catch up with the
first, which still leaves the copy stale while every other actor moves.  It is 1 in the larger
instances and 2 in `rollout_chain`, `upgrade` and the three violations.  The
controllers of an instance are closed under what they wait for.  Interactions
are pairwise through the status or the version of the Cortex, so pairs and the
one chain of three exercise them.

`admission` has one controller, whose workload has as much to dereference as
any but the caches, and one incarnation.  Creates are bounded by `MaxUids`,
edits of a living Cortex by `MaxEdits`, and 2 is the least for one edit to
overtake another.  The owner submits a manifest without sections, a config that
cannot be merged, one that Cortex refuses, and the removal of the ingester's
section; the other user scales two workloads, and may be first, with a Cortex
that has no image.  `Specs` is the closure of the edits and `Default`, which TLC
computes.  Deletion is left to the proofs, where it is covered.

`pods` takes prompt informers and workers that take turns (`PromptSpec`): stale
copies and interleaved workers are the subject of the other runs, and here the
order of the three controllers, the kubelet and the user is.  One of the two
edits changes the config, one only the runtime config and a number of replicas,
one the image and the config after that; the container may restart once.  None
leads back to an earlier release.  The edits of `upgrade` only go up, as
`NeverRollsBack` compares images and runtime configs as numbers.

`wired` is different: eleven interleaved controllers are out of reach, but what
is deployed in the end does not depend on the schedule (that is what the other
runs check), so it takes one schedule, with those that wait before those they
wait for, and checks the whole of `CortexResources`.

**Fairness.**  Weak fairness of the informers' deliveries, the collector, the
rate limiter's timers and of a worker with something to do: what
controller-runtime and Kubernetes provide while the process and the API server
run.  In `pods` also of the start of pods that can start and of the kubelet's
refresh.  None for the user, for faults, crashes or resyncs: the operator has to
converge without the periodic resync.  The user of `lifecycle` and `repairs` may
stop anywhere, so the properties speak of a Cortex that stays as it is.

## What is proved

For every set of controllers, specs, edits and bounds:

* `PlansSound`: the gates of the eleven Reconcile methods are the right ones;
  whatever a plan creates or publishes depends only on its gate.
* `TypeCorrect`: `Spec => []TypeOK`.
* `RolloutInvariantHolds`, and from it `GateRespectedHolds` and
  `RefsNeverLostHolds`.
* `RolloutImplemented`: the operator implements `Rollout`, by the mapping that
  reads `live`, `incarnation` and `published` off the Cortex on the API server.
* `DefaultIsIdempotent`: defaulting a version again changes nothing.
* `AdmissionInvariantHolds`, and from it `AdmittedIsSafeHolds` and
  `EditsAreWholeHolds`, for every set of users and submissions.
* `AdmissionImplementsRollout`: with the webhooks and concurrent users in place
  of `CreateCortex` and `EditSpec`, the operator still implements `Rollout`.
* `GatesOpen`: the gates cannot block each other.  When every controller whose
  gate is open has published its references, every gate is open.
* `ConvergenceInvariantHolds`, and from it, up to the first deletion,
  `RefBackedHolds`, `SettledIsConvergedHolds`, `SettledIsWiredHolds` and
  `NeverRollsBackHolds`.
* `PodsInvariantHolds`, for the operator with pods, and from it
  `RollsOncePerReleaseHolds` and `PodsRunTheConfigHolds`.

### The order of the roll-out

`GateRespected` is not inductive: a worker writes on the strength of a copy it
read long ago.  What makes it safe is that *every copy is a true past version*
(`CopiesArePast`): the resourceVersion orders versions, the references of one
incarnation only grow, so a gate that was open on an old copy of the living
Cortex is still open (`BusyIsEntitled`).  References only grow because an
accepted status write starts from the present version (`AcceptedWrite`) and adds
to it.  And a worker with a copy of a dead incarnation creates children that
belong to that incarnation (`OwnersAreKnown`), which `GateRespected` does not
count.  The proofs go through `StepShape`, a summary of what any step does to
each variable (`EveryStep`), so that the invariant's parts are proved from six
facts instead of twenty actions.

### Admission

`AdmittedIsSafe` speaks of the copies workers hold, which are old.  It follows
from `CopiesAdmitted`, that the version stored, those still to be delivered, the
cached one and every worker's copy are all as admitted, and from
`WebhooksHeeded`: a request that claims to have passed a webhook has an object
that is as that webhook leaves it.  That needs `DefaultCompletes` (every builder
survives what `Default` returns) and that validation does not change the object.
`EditsAreWhole` follows from `BasedOnThePresent`: a request that may still
replace the present version was computed from it, because the resourceVersion
counts every version, status writes included; and from `DefaultExplains`, that
defaulting only adds what is missing.  The proof reuses the roll-out's: a step
of `AdmissionSpec` has the same `StepShape`, so `RolloutStep` and
`StepImplements` apply to it as they stand.

### Convergence

`SettledIsConverged` says nothing of states in which something is left to do, so
the invariant has to say of *every* state what is still owed and who owes it.
`ConvergenceInvariant` measures lag in terms of the user's edits.  `Later` is
the order the edits make: `<<a, b>>` is in it if a sequence of edits leads from
`a` to `b`.  (It is defined without recursion, by the sets that are closed under
edits, which is all the proofs need: it is reflexive, transitive, contains the
edits, and keeps what every edit keeps.)  The parts, each resting on those
before it:

* `CacheKeepsUp`: the last version queued for the informer is the present one,
  so that a version nobody has seen is still to be delivered, with its wake-ups.
* `WorkIsThere`: a child in a cache or behind a worker exists; and `RefBacked`.
* `SpecsInOrder`: the spec a worker holds precedes the cached one, which
  precedes those in the watch, in their order, and the present one.
* `ChildrenInOrder`: each child is what its controller makes of *some* spec no
  later than the one its worker holds, and its cached copy of one no later
  still.  An update therefore never lowers a child (`NeverRollsBack`), and a
  cached copy that compares equal to what the worker wants can hide a different
  child only if some edit has led back.
* `NothingForgotten`: of the present version each controller has something
  queued or backed off, or works on its spec and has got right what it is past,
  or waits at its gate, or has done all of its plan.  The last two alternatives
  are stable only because every write of the status wakes all controllers.

When the operator is settled only the last two alternatives are left, `GatesOpen`
excludes the waiting, and `Current` and `Noted` say the children are those of the
present spec.  `SettledIsWired` then follows from lemmas about `CortexResources`
(`ContentReflects` and those after it), which need no schedule and no bound.
The proofs go through `KindOfStep`, which sorts the steps of the operator by
what they do to the parts above.

### Pods

`RolledInOrder` puts the pod in the same order: it was made from a spec no later
than its workload's.  Two facts about templates connect specs with pods: equal
releases have equal templates, and different releases different ones (the
digest of the config and the image are in it).  So `StartPod`, which needs a
changed template, starts a pod for a release that comes after those it has been
started for, each of which was some version of the Cortex (`ReleasesAreKnown`):
starts never exceed releases.  And a pod that was not late read a config between
that of its own template and the present one; once its template is the present
one, nothing but a config that goes and comes back lies between.  A step of the
composition is a step of the operator or leaves it alone
(`PodsImplementOperator`), so the operator's invariants hold as they stand.

### Hypotheses

The assumptions on the constants are those declared in `CortexOperator`: the
controllers are among the eleven, `NoSpec` is no spec, the policies are known,
the bounds are numbers; in `CortexPods`, that `MaxRestarts` is a number; and in
`CortexAdmission`, that `Specs` is closed under the submitted edits and under
`Default`.  Some theorems have further hypotheses, and none of those is there
for the proof's sake: without it the code does not have the property.

| hypothesis | of | why | runs that satisfy it |
|---|---|---|---|
| `Undeleted`, or `Policies = {}` | `RefBacked`, `SettledIsConverged`, `SettledIsWired`, `NeverRollsBack` | a Cortex created again may lose or not own its children: `recreate_collect`, `adopted` | all that check those properties |
| `AdmittedSpecs` | `SettledIsConverged`, `SettledIsWired` | the webhooks leave specs so (`DefaultCompletes`, `AdmittedIsSafe`); otherwise builders panic or write an empty config | `rollout_chain`, `rollout_caches`, `upgrade`, `wired` |
| `ClosedControllers` (`AllControllers` for the wiring) | `SettledIsConverged`, `PodsRunTheConfig` | what a controller waits for is published by one that runs; `main.go` starts all eleven | the same, and `pods` |
| `Exact = Managed` | `SettledIsConverged` | an edit back may be judged up to date by a stale copy: `stale_revert`; and pull secrets taken from an account, or an account taken from the spec, stay | `rollout_chain`, `rollout_caches`, `upgrade` |
| `EditsGoUp` | `NeverRollsBack` | a user may ask for an older image | `upgrade` |
| `ReleasesGoOn` | `RollsOncePerRelease` | a user who goes back to a release asks for another start | `pods` |
| `CortexConfigMap \in Unreverted` | `PodsRunTheConfig` | see "edited and reverted" below | `pods` |

`wired` checks `SettledIsConverged` without `Exact = Managed`: its account and
runtime config do go back, on a schedule with prompt informers, where no copy is
stale.  `AdmittedSpecs`, `ClosedControllers` and `Exact` are constant formulas;
TLC confirmed each for the runs the table names.

### Only model-checked

Everything under fairness, which the prover cannot treat: `EventuallyDeployed`,
`EventuallyCollected`, `EventuallyRunning`.  The theorems on settled states say
that the operator rests nowhere but at the goal, not that it comes to rest.  And
what becomes of children across a deletion: the roll-out, the references and the
refinement are proved for any number of incarnations, convergence only for the
first.

## What the violations mean

* `stale_revert`: edit a setting and revert it before the informer has seen the
  config map of the edit.  The controller compares the reverted content with its
  old copy, finds them equal and sends nothing.  The config map stays wrong
  until the next edit or the periodic resync.
* `recreate_collect`: delete a Cortex and create it again at once.  The new one
  updates the children that still exist, which keep their old owner and are
  collected; nothing wakes the controllers, which have settled.
* `adopted`: the same read that overwrites the owner reference makes children
  that existed before outlive the Cortex.

More consequences are in the model without a run of their own.

* A change of a stateful set's datadir is admitted, because `ValidateUpdate`
  does not look at the old version, and then refused for ever, and with it every
  later change of that workload (in `upgrade` the operator then never settles,
  and a later edit back repairs it).  Removing a section whose size was not the
  default has the same effect.
* A Cortex without an image is admitted and its workloads are refused until it
  is edited.
* A version stored before the mutating webhook was in force makes the operator
  crash over and over; `EventuallyDeployed` in `repairs` shows that an edit ends
  that.
* Pull secrets removed from the spec stay on the account.
* A config is edited and reverted.  A pod started in between, from the workload
  as it was before and with the config map of the edit already on its node, reads
  the edited config.  The annotation never changed, so nothing replaces the pod
  when the map goes back: it runs a config nobody asks for any more, and
  `late` does not tell.  Give `pods` an edit back from the changed config to the
  first and TLC finds this state.
* A runtime config that cannot be marshalled is retried for ever, with back-off,
  although the log says "will not retry"
  (`controllers/cortex_runtime_config_controller.go:79`): the error is returned.
  `SettledIsConverged` in `upgrade` depends on that retry, because an operator that
  dropped the request would rest with the config map missing;
  `EventuallyDeployed` in `repairs` does not, because the repairing edit wakes the
  controller anyway.

One divergence needs no run: `src/README.md:162` calls the config map
`cortex-runtime-config`, and the code names it after the Cortex
(`CortexRuntimeConfigMapNameSuffix`).

## Plan

In order:

1. Proofs: convergence of a second incarnation whose predecessor has been
   collected in full; that what `Default` returns satisfies `AdmittedSpecs`.
2. An operator upgrade: a second process whose `DefaultCortexConfig` differs,
   which writes another config map without replacing a pod.
3. Two Cortices in one namespace, which share the names of their children.
4. Leader hand-over with overlap; foreground deletion.
5. The merge of nested settings and lists against a reference definition.

## Not modelled

Generated deep copies and the API group (no behaviour), manifests and guides,
flags, probes and leader election of `main.go`, the text of the generated
configuration and the conversions between YAML and JSON, constant decoration of
the workloads (affinity, probes, pull policy, arguments), replicas and readiness
of pods.
