--------------------------- MODULE CortexDefaults ---------------------------
(***************************************************************************)
(* Defaulting and validation of a Cortex: the Default methods of           *)
(* api/v1alpha1/cortex_types.go and cortex_webhook.go, and Validate.       *)
(***************************************************************************)
EXTENDS CortexResources

CONSTANT Unsupported
  \* Configs that merge, and that Cortex refuses: a setting it does not know
  \* (UnmarshalStrict) or a combination it does not accept (cfg.Validate).

----------------------------------------------------------------------------
(* Default *)

\* Mutant: every deployment gets two replicas, whatever was asked for.
DeploymentDefaultOverrides(section) == Over([replicas |-> 2], section)

\* Mutant: the size is only set together with the number of replicas.
StatefulSetDefaultSkips(section) ==
  IF "replicas" \in DOMAIN section
    THEN section
    ELSE Over(section, [datadir_size |-> "1Gi", replicas |-> 2])

(* A field that is set is kept; a nil one is set.                          *)
DeploymentDefault(section) == Over(section, [replicas |-> 2])

StatefulSetDefault(section) ==
  Over(section, [datadir_size |-> "1Gi", replicas |-> 2])

MemcachedStatefulSetDefault(section) ==
  Over(section,
       [replicas |-> 2, memory_limit |-> 4096, max_item_size |-> "2m"])

SectionDefault(name, section) ==
  CASE name \in CacheNames -> MemcachedStatefulSetDefault(section)
    [] name \in Stateful   -> StatefulSetDefault(section)
    [] name \in Stateless  -> DeploymentDefault(section)

(* The section as given, or a new empty one in place of a nil.             *)
Given(spec, name) ==
  IF name \in DOMAIN spec.sections THEN spec.sections[name] ELSE <<>>

DefaultCacheImage == 1  \* memcached:1.6.9-alpine

\* Mutant: a section that is nil stays nil.
DefaultGivenOnly(spec) ==
  [spec EXCEPT
     !.cacheImage = IF @ = NoImage THEN DefaultCacheImage ELSE @,
     !.sections = [name \in DOMAIN spec.sections |->
                     SectionDefault(name, spec.sections[name])]]

(* Cortex.Default.  The image of Cortex, the account, the config and the   *)
(* runtime config have no default.                                         *)
Default(spec) ==
  [spec EXCEPT
     !.cacheImage = IF @ = NoImage THEN DefaultCacheImage ELSE @,
     !.sections = [name \in Workloads |->
                     SectionDefault(name, Given(spec, name))]]

----------------------------------------------------------------------------
(* Validate *)

\* Mutant: the error of the merge is dropped, as NewCortexConfigMap does.
ValidateForgiving(spec) == spec.config \notin Unsupported

(* AsCortexConfig, then Cortex's own validation.  Nothing else of the spec *)
(* is looked at, and neither is the version it replaces.                   *)
Validate(spec) == spec.config \notin Unmergeable \cup Unsupported

(* What the operator needs of a spec to build every workload.              *)
Complete(spec) == \A name \in Workloads : Builds(name, spec)
=============================================================================
