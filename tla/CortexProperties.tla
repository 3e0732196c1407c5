-------------------------- MODULE CortexProperties --------------------------
(***************************************************************************)
(* What a user of the operator relies on, stated about the model of        *)
(* CortexOperator and independently of how its controllers work.           *)
(***************************************************************************)
EXTENDS CortexOperator

----------------------------------------------------------------------------
(* Types *)

Snapshots ==
  [alive : BOOLEAN, uid : Nat, rv : Nat, spec : Specs \cup {NoSpec},
   status : SUBSET Refs]

ChildMap(f) ==
  /\ f = [i \in DOMAIN f |-> f[i]]
  /\ DOMAIN f \subseteq Managed
  /\ \A i \in DOMAIN f : /\ f[i] = [owner |-> f[i].owner, data |-> f[i].data]
                         /\ f[i].owner \in Nat

WorkRecord(c, w) ==
  /\ w \in [phase : {"idle", "apply", "status"}, step : Nat, copy : Snapshots]
  /\ w.step \in 1 .. Len(Steps(c))

WorkMap(f) ==
  /\ f = [c \in Controllers |-> f[c]]
  /\ \A c \in Controllers : WorkRecord(c, f[c])

(* Every variable of the model keeps its shape; a worker is always at one  *)
(* of the steps its Reconcile has.                                         *)
TypeOK ==
  /\ cortex \in Snapshots
  /\ watch \in Seq(Snapshots)
  /\ cache \in Snapshots
  /\ ChildMap(children)
  /\ ChildMap(childCache)
  /\ stale \subseteq Managed
  /\ queue \subseteq Controllers
  /\ backoff \subseteq Controllers
  /\ WorkMap(work)
  /\ used \in [edits : Nat, faults : Nat, crashes : Nat, resyncs : Nat]

----------------------------------------------------------------------------
(* The order of a roll-out *)

(* What a part of Cortex needs before it may be deployed: the distributor  *)
(* and the querier talk to the ingesters, the query-frontend to the        *)
(* queriers, the ruler to every cache.                                     *)
DependsOn(name) ==
  CASE name \in {"distributor", "querier"} -> {"ingester"}
    [] name = "query-frontend"             -> {"querier"}
    [] name = "ruler"                      -> CacheNames
    [] OTHER                               -> {}

(* A child of the living Cortex exists only if everything it depends on is *)
(* published in the status, whatever the controllers knew and when:        *)
(* Reconcile's gates read a cached status and act on it later.             *)
GateRespected ==
  \A i \in DOMAIN children :
    cortex.alive /\ children[i].owner = cortex.uid
      => DependsOn(i[2]) \subseteq cortex.status

(* A status reference, once written, stays while the same Cortex lives:    *)
(* eleven controllers overwrite the whole status from old copies, and none *)
(* may undo what another published.                                        *)
RefsNeverLost ==
  [][cortex.alive /\ cortex'.alive /\ cortex'.uid = cortex.uid
       => cortex.status \subseteq cortex'.status]_vars

(* While no Cortex is deleted, a published reference names a workload that *)
(* exists, with its service.                                               *)
RefBacked ==
  \A name \in cortex.status \ {"memcached"} :
    /\ <<"Service", name>> \in DOMAIN children
    /\ \E kind \in {"Deployment", "StatefulSet"} :
         <<kind, name>> \in DOMAIN children

(* The operator implements the abstract roll-out.                          *)
Promise ==
  INSTANCE Rollout WITH
    Parts <- Refs, Needs <- DependsOn,
    live <- cortex.alive, incarnation <- cortex.uid,
    published <- cortex.status

ImplementsRollout == Promise!Spec

----------------------------------------------------------------------------
(* Why it holds: every copy of the Cortex is a true past version *)

(* s is the version now, or an earlier one.  What it says of the status of *)
(* the Cortex that lives now is still true: references are only added.     *)
PastOf(s, now) ==
  /\ s.uid <= now.uid
  /\ s.rv <= now.rv
  /\ s.rv = now.rv => s = now
  /\ s.alive /\ now.alive /\ s.uid = now.uid => s.status \subseteq now.status

CopiesArePast ==
  /\ PastOf(Gone(0, 0), cortex)
  /\ PastOf(cache, cortex)
  /\ \A k \in 1 .. Len(watch) : PastOf(watch[k], cortex)
  /\ \A c \in Controllers : PastOf(work[c].copy, cortex)

(* A worker under way read an existing Cortex whose status opened its gate.*)
BusyIsEntitled ==
  \A c \in Controllers :
    Busy(c) => /\ work[c].copy.alive
               /\ PlanOf(c).gate \subseteq work[c].copy.status

(* No child belongs to a Cortex still to come; 0 is no Cortex's uid.       *)
OwnersAreKnown ==
  /\ cortex.alive => cortex.uid # 0
  /\ \A i \in DOMAIN children : children[i].owner <= cortex.uid

(* The inductive invariant behind the order of a roll-out: a stale copy    *)
(* never claims more than what is, so a gate that was open on it is open,  *)
(* and a status computed from it, if accepted, takes nothing away.         *)
RolloutInvariant ==
  /\ CopiesArePast
  /\ BusyIsEntitled
  /\ OwnersAreKnown
  /\ GateRespected

----------------------------------------------------------------------------
(* Convergence *)

Settled ==
  /\ watch = <<>>
  /\ stale = {}
  /\ queue = {}
  /\ backoff = {}
  /\ \A c \in Controllers : ~Busy(c)
  /\ \A i \in DOMAIN children : ~Garbage(i)

(* Child i is what the spec asks for.                                      *)
Reflects(i, spec) ==
  LET data == children[i].data
      name == i[2]
  IN  /\ Workload(i[1]) =>
           /\ data.sizing = IF name \in CacheNames
                              THEN {spec.sections[name]}
                              ELSE {spec.sections[name].replicas}
           /\ data.image = IF name \in CacheNames THEN spec.cacheImage
                                                  ELSE spec.image
           /\ name \notin CacheNames => data.sha = {spec.config}
           /\ name \in Stateful =>
                \E claim \in data.claims :
                  claim.size = spec.sections[name].datadir_size
      /\ i = RuntimeConfigMap => data.content = spec.runtime
      /\ i = CortexConfigMap =>
           \A key \in DOMAIN spec.config \ DOMAIN DefaultCortexConfig :
             /\ key \in DOMAIN data.content
             /\ data.content[key] = spec.config[key]
      /\ i = ServiceAccount =>
           data = [annotations |-> spec.account.annotations,
                   secrets |-> spec.account.secrets]

Deployed(i) == i \in DOMAIN children /\ Reflects(i, cortex.spec)

Converged ==
  /\ cortex.alive
  /\ \A i \in Managed : /\ Deployed(i)
                        /\ Workload(i[1]) => i[2] \in cortex.status

(* Once nothing is left to do, the children are those of the present spec  *)
(* and the status names every workload: no wake-up was lost, no stale copy *)
(* had the last word.                                                      *)
SettledIsConverged == Settled /\ cortex.alive => Converged

(* A child never goes back to an older spec, when the user only ever       *)
(* raises the image and the runtime config: no worker that holds an old    *)
(* copy of the Cortex, or woke up to an old cache, overwrites newer work.  *)
NeverRollsBack ==
  [][\A i \in DOMAIN children :
       i \in DOMAIN children' =>
         /\ Workload(i[1]) => children'[i].data.image >= children[i].data.image
         /\ i = RuntimeConfigMap =>
              children'[i].data.content >= children[i].data.content]_vars

(* An address resolves: the service of its host offers the port, and       *)
(* selects the pods of some workload.                                      *)
Resolves(address) ==
  LET svc == children[<<"Service", address.host>>].data
  IN  /\ address.port \in svc.ports
      /\ \E i \in DOMAIN children :
           Workload(i[1]) /\ svc.selects \subseteq children[i].data.labels

(* Once the whole operator has settled the parts fit together, whatever    *)
(* the user's config says: each address the generated config holds leads   *)
(* to pods, and what a pod mounts or runs as exists.                       *)
SettledIsWired ==
  Settled /\ cortex.alive =>
    /\ \A key \in DOMAIN DefaultCortexConfig :
         Resolves(children[CortexConfigMap].data.content[key])
    /\ \A i \in DOMAIN children :
         Workload(i[1]) =>
           children[i].data.mounts \cup children[i].data.account
             \subseteq DOMAIN children

(* Nothing in the spec itself keeps it from being deployed.                *)
Deployable(spec) ==
  /\ ~RuntimeConfigFails(spec)
  /\ spec.config \notin Unmergeable
  /\ spec.image # NoImage
  /\ \A i \in Managed : ~Panics(i, spec)

(* A Cortex that stays, with a spec that can be deployed, is eventually    *)
(* deployed in full and stays so: the gates that return without asking for *)
(* a requeue are all woken in the end, a retry is never forgotten, and an  *)
(* operator that went down over an earlier spec comes back.                *)
EventuallyDeployed ==
  <>[](cortex.alive /\ Deployable(cortex.spec)) => <>[]Converged

(* After a deletion that is not followed by a new Cortex everything is     *)
(* garbage collected, children created by workers that were still busy     *)
(* with the old copy included.                                             *)
EventuallyCollected ==
  <>[](~cortex.alive) => <>[](DOMAIN children = {})

----------------------------------------------------------------------------
(* What comments and docs say of the program, and it does not do *)

(* "ensures the Cortex runtime config map is updated accordingly"          *)
RuntimeConfigIsUpdated ==
  Settled /\ cortex.alive => Deployed(RuntimeConfigMap)

(* "ensures the Cortex Ingesters are deployed"                             *)
IngestersAreDeployed ==
  Settled /\ cortex.alive => <<"StatefulSet", "ingester">> \in DOMAIN children

(* "The object (resource.obj) will be automatically deleted when he owner  *)
(* (cortex) is deleted": what a deployed Cortex manages belongs to it.     *)
ChildrenAreOwned ==
  Settled /\ cortex.alive =>
    \A i \in DOMAIN children : children[i].owner = cortex.uid
=============================================================================
