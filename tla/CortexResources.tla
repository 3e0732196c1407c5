-------------------------- MODULE CortexResources --------------------------
(***************************************************************************)
(* The Kubernetes objects ("children") the operator creates for a Cortex,  *)
(* as functions of the Cortex spec: the New* constructors of controllers/  *)
(* and the configuration they embed (api/v1alpha1/cortex_webhook.go).      *)
(*                                                                         *)
(* A child is identified by <<kind, name>>.  Its data keeps the fields     *)
(* some other object depends on (ports, selectors, labels, mounts, the     *)
(* account) and the fields taken from the spec; constant decoration (the   *)
(* affinity, probes, pull policy, arguments fixed by the name) is left     *)
(* out.                                                                    *)
(*                                                                         *)
(* A spec is a record                                                      *)
(*   image     the Cortex image          cacheImage  the memcached image   *)
(*   config    the user's Cortex config, a function from settings          *)
(*   runtime   the user's runtime config, a value                          *)
(*   account   [given, annotations, secrets]                               *)
(*   sections  workload name -> field -> value                             *)
(* A section or a field that is not in the domain is a nil pointer.        *)
(***************************************************************************)
EXTENDS Naturals

CONSTANTS
  Unmarshalable,  \* runtime configs yaml.Marshal fails on
  Unmergeable     \* configs the defaults cannot be merged over, because a
                  \* scalar stands where the defaults have a section

----------------------------------------------------------------------------
(* Names *)

CacheNames == {"memcached-chunks", "memcached-index-queries",
               "memcached-index-writes", "memcached-results",
               "memcached-metadata"}
DeploymentNames == {"distributor", "querier", "query-frontend"}
StatefulSetNames == {"compactor", "store-gateway"}
Stateful == StatefulSetNames \cup {"ingester"}
Stateless == DeploymentNames \cup {"ruler", "alertmanager"}
Workloads == CacheNames \cup Stateful \cup Stateless

CortexConfigMap  == <<"ConfigMap", "config">>
RuntimeConfigMap == <<"ConfigMap", "runtime-config">>
ServiceAccount   == <<"ServiceAccount", "cortex">>
GossipRing       == <<"Service", "gossip-ring">>

Workload(kind) == kind \in {"Deployment", "StatefulSet"}

NoImage == 0

----------------------------------------------------------------------------
(* The Cortex configuration *)

(* f with whatever g has besides.                                          *)
Over(f, g) ==
  [x \in DOMAIN f \cup DOMAIN g |-> IF x \in DOMAIN f THEN f[x] ELSE g[x]]

Address(host, port) == [host |-> host, port |-> port]

(* DefaultCortexConfigTemplate: of all it sets, the addresses of the other *)
(* components, which only the operator can know.  The results cache is     *)
(* found through the SRV record of the service port "memcached-client".    *)
DefaultCortexConfig ==
  [join_members            |-> Address("gossip-ring", 7946),
   store_gateway_addresses |-> Address("store-gateway", 9095),
   frontend_address        |-> Address("query-frontend", 9095),
   results_cache           |-> Address("memcached-results", 11211),
   index_cache             |-> Address("memcached-index-queries", 11211),
   chunks_cache            |-> Address("memcached-chunks", 11211),
   metadata_cache          |-> Address("memcached-metadata", 11211),
   alertmanager_peers      |-> Address("alertmanager", 9094),
   alertmanager_url        |-> Address("alertmanager", 80)]

(* AsJSON / AsYAML: the user's config with the operator's defaults merged  *)
(* over it, "The defaults will override fields set by the user."  Settings *)
(* are scalars here.  When the merge fails the error is swallowed, and the *)
(* text is empty.                                                          *)
AsYAML(spec) ==
  IF spec.config \in Unmergeable THEN <<>>
                                 ELSE Over(DefaultCortexConfig, spec.config)

\* Mutant: the digest covers the runtime config as well.
ConfigSHAOfBoth(spec) == <<spec.config, spec.runtime>>

(* ConfigSHA: a digest of the user's raw config, before the merge.  The    *)
(* digest is taken to be injective.                                        *)
ConfigSHA(spec) == spec.config

----------------------------------------------------------------------------
(* Configuration objects and the account *)

NewCortexConfigMap(spec) == [content |-> AsYAML(spec)]

RuntimeConfigFails(spec) == spec.runtime \in Unmarshalable

NewCortexRuntimeConfigMap(spec) == [content |-> spec.runtime]

EmptyAccount == [annotations |-> {}, secrets |-> {}]

\* Mutant: the annotations of an account that exists already are kept.
NewServiceAccountKeeps(spec, old) ==
  IF ~spec.account.given
    THEN old
    ELSE [annotations |-> old.annotations,
          secrets |-> spec.account.secrets]

(* The mutator starts from the account as read: without a                  *)
(* ServiceAccountSpec nothing is written, and an empty list of pull        *)
(* secrets leaves the present list alone.                                  *)
NewServiceAccount(spec, old) ==
  IF ~spec.account.given
    THEN old
    ELSE [annotations |-> spec.account.annotations,
          secrets |-> IF spec.account.secrets = {}
                        THEN old.secrets
                        ELSE spec.account.secrets]

----------------------------------------------------------------------------
(* Services *)

Named(name) == {<<"name", name>>}
Gossiping == {<<"memberlist", "gossip-ring">>}

\* Mutant: the caches' services select a label their pods do not carry.
NewMemcachedServiceShared(name) ==
  [ports |-> {11211}, selects |-> Named("memcached")]

NewGossipRingService == [ports |-> {7946}, selects |-> Gossiping]
NewMemcachedService(name) == [ports |-> {11211}, selects |-> Named(name)]
NewService(name) == [ports |-> {80, 9095}, selects |-> Named(name)]
NewRulerService == [ports |-> {80}, selects |-> Named("ruler")]
NewAlertManagerService ==
  [ports |-> {80, 9094}, selects |-> Named("alertmanager")]

----------------------------------------------------------------------------
(* Workloads *)

(* What the builder of a workload dereferences without a test for nil,     *)
(* besides the section itself.                                             *)
Dereferenced(name) ==
  CASE name \in CacheNames -> {"memory_limit", "max_item_size"}
    [] name \in Stateful   -> {"datadir_size"}
    [] name \in Stateless  -> {}

Builds(name, spec) ==
  /\ name \in DOMAIN spec.sections
  /\ Dereferenced(name) \subseteq DOMAIN spec.sections[name]

(* The builder of child i panics on this spec.                             *)
Panics(i, spec) == Workload(i[1]) /\ ~Builds(i[2], spec)

\* An optional field, copied as it is.
Optional(section, field) ==
  IF field \in DOMAIN section THEN {section[field]} ELSE {}

\* Mutant: the annotation is lost.
PodUnmarked(name, labels, spec) ==
  [labels  |-> labels,
   image   |-> spec.image,
   sha     |-> {},
   mounts  |-> {CortexConfigMap, RuntimeConfigMap},
   account |-> {ServiceAccount},
   sizing  |-> Optional(spec.sections[name], "replicas"),
   claims  |-> {}]

\* Mutant: the volume names a config map nobody writes.
PodMountsAnother(name, labels, spec) ==
  [labels  |-> labels,
   image   |-> spec.image,
   sha     |-> {ConfigSHA(spec)},
   mounts  |-> {CortexConfigMap, <<"ConfigMap", "cortex-runtime-config">>},
   account |-> {ServiceAccount},
   sizing  |-> Optional(spec.sections[name], "replicas"),
   claims  |-> {}]

Pod(name, labels, spec) ==
  [labels  |-> labels,
   image   |-> spec.image,
   sha     |-> {ConfigSHA(spec)},
   mounts  |-> {CortexConfigMap, RuntimeConfigMap},
   account |-> {ServiceAccount},
   sizing  |-> Optional(spec.sections[name], "replicas"),
   claims  |-> {}]

NewDeployment(name, spec) == Pod(name, Named(name) \cup Gossiping, spec)
NewRulerDeployment(spec) == Pod("ruler", Named("ruler"), spec)
NewAlertManagerDeployment(spec) ==
  Pod("alertmanager", Named("alertmanager"), spec)

WithDatadir(pod, name, spec) ==
  LET section == spec.sections[name]
  IN  [pod EXCEPT !.claims =
         {[size  |-> section.datadir_size,
           class |-> Optional(section, "storage_class_name")]}]

NewStatefulSet(name, spec) ==
  WithDatadir(Pod(name, Named(name), spec), name, spec)
NewIngesterStatefulSet(spec) ==
  WithDatadir(Pod("ingester", Named("ingester"), spec), "ingester", spec)

\* Memcached reads no Cortex config and runs under the default account.
NewMemcachedStatefulSet(name, spec) ==
  [labels  |-> Named(name),
   image   |-> spec.cacheImage,
   sha     |-> {},
   mounts  |-> {},
   account |-> {},
   sizing  |-> {spec.sections[name]},
   claims  |-> {}]

----------------------------------------------------------------------------
(* What a controller sends for child i: its mutator applied to the object  *)
(* as read, or to a new one.                                               *)

NewObject(i, spec, old) ==
  LET kind == i[1]
      name == i[2]
  IN  CASE i = CortexConfigMap  -> NewCortexConfigMap(spec)
        [] i = RuntimeConfigMap -> NewCortexRuntimeConfigMap(spec)
        [] i = ServiceAccount   -> NewServiceAccount(spec, old)
        [] i = GossipRing       -> NewGossipRingService
        [] kind = "Service" /\ name \in CacheNames ->
             NewMemcachedService(name)
        [] kind = "Service" /\ name = "ruler" -> NewRulerService
        [] kind = "Service" /\ name = "alertmanager" -> NewAlertManagerService
        [] kind = "Service" /\ name \in DeploymentNames \cup StatefulSetNames
                                          \cup {"ingester"} ->
             NewService(name)
        [] kind = "Deployment" /\ name \in DeploymentNames ->
             NewDeployment(name, spec)
        [] kind = "Deployment" /\ name = "ruler" -> NewRulerDeployment(spec)
        [] kind = "Deployment" /\ name = "alertmanager" ->
             NewAlertManagerDeployment(spec)
        [] kind = "StatefulSet" /\ name = "ingester" ->
             NewIngesterStatefulSet(spec)
        [] kind = "StatefulSet" /\ name \in StatefulSetNames ->
             NewStatefulSet(name, spec)
        [] kind = "StatefulSet" /\ name \in CacheNames ->
             NewMemcachedStatefulSet(name, spec)

(* CreateOrUpdate sends nothing when the mutated object equals the one it  *)
(* read.  The mutators of services and workloads replace lists the API     *)
(* server has filled with defaults, so for them the two always differ.     *)
ComparesEqual(i) == i[1] \in {"ConfigMap", "ServiceAccount"}

(* The API server refuses to change a StatefulSet's volume claims, and any *)
(* workload without an image.                                              *)
Immutable(i, old, new) == i[1] = "StatefulSet" /\ old.claims # new.claims
Imageless(i, new) == Workload(i[1]) /\ new.image = NoImage
=============================================================================
