----------------------------- MODULE CortexPods -----------------------------
(***************************************************************************)
(* What becomes of a roll-out: the operator and Kubernetes, which together *)
(* turn the workloads of Cortex (not the caches, which read no config)     *)
(* into pods.  One pod stands for all replicas of a workload, and one node *)
(* for all nodes.                                                          *)
(*                                                                         *)
(* A pod is replaced when the template of its workload changes, and the    *)
(* template carries a digest of the user's config so that it does.  A pod  *)
(* starts when what it mounts and the account it runs as are there; Cortex *)
(* reads config.yaml once, at that time, and runtime-config.yaml every few *)
(* seconds.  The config map, the runtime config map and the workload are   *)
(* written by three controllers that do not wait for each other, and the   *)
(* node's copy of a config map follows the API server's when it may.       *)
(*                                                                         *)
(* Kubernetes and Cortex are external: modelled from what the pod templates*)
(* of controllers/ ask of them.  No Cortex is deleted here.                *)
(***************************************************************************)
EXTENDS CortexConvergence

CONSTANT MaxRestarts   \* bound: containers that restart by themselves

ASSUME RestartsAssumption == MaxRestarts \in Nat

VARIABLES
  node,      \* the config maps on the node: id -> content
  pods,      \* the pods: workload -> [template, config, late, starts]
  restarts,  \* how often a container has restarted by itself
  released   \* the <<image, config>> pairs the Cortex has had

podVars == <<node, pods, restarts, released>>
allVars == <<vars, podVars>>

CortexWorkloads == {i \in Managed : Workload(i[1]) /\ i[2] \notin CacheNames}
ConfigMaps == {CortexConfigMap, RuntimeConfigMap} \cap Managed

Release(spec) == <<spec.image, spec.config>>

(* The pod template of a workload: all of it but the number of replicas    *)
(* and the volume claims.                                                  *)
TemplateOf(workload) ==
  [field \in {"labels", "image", "sha", "mounts", "account"} |->
     workload[field]]

Template(i) == TemplateOf(children[i].data)

(* What a container that starts now reads; and whether the user's config   *)
(* was late: stored in the Cortex, but not yet on the node.                *)
Loaded ==
  [config |-> node[CortexConfigMap],
   late   |-> node[CortexConfigMap] # AsYAML(cortex.spec)]

Outdated(i) == i \in DOMAIN pods => pods[i].template # Template(i)

(* A workload's first pod, or one in place of a pod of an older template.  *)
StartPod(i) ==
  /\ i \in DOMAIN children
  /\ Outdated(i)
  /\ children[i].data.mounts \subseteq DOMAIN node
  /\ children[i].data.account \subseteq DOMAIN children
  /\ pods' = Put(pods, i,
       Over([starts   |-> IF i \in DOMAIN pods THEN pods[i].starts + 1 ELSE 1,
             template |-> Template(i)], Loaded))
  /\ UNCHANGED <<vars, node, restarts, released>>

(* A container exits, and the kubelet restarts it in the same pod.         *)
RestartContainer(i) ==
  /\ i \in DOMAIN pods
  /\ restarts < MaxRestarts
  /\ restarts' = restarts + 1
  /\ pods' = [pods EXCEPT ![i] = Over(Loaded, @)]
  /\ UNCHANGED <<vars, node, released>>

(* The kubelet fetches a config map, for the first time or anew.           *)
Refresh(i) ==
  /\ i \in DOMAIN children
  /\ i \in DOMAIN node => node[i] # children[i].data.content
  /\ node' = Put(node, i, children[i].data.content)
  /\ UNCHANGED <<vars, pods, restarts, released>>

----------------------------------------------------------------------------
PodsInit ==
  /\ Init
  /\ node = <<>>
  /\ pods = <<>>
  /\ restarts = 0
  /\ released = {}

OperatorSteps ==
  /\ CreateCortex \/ EditSpec \/ System
  /\ released' = IF cortex'.alive
                   THEN released \cup {Release(cortex'.spec)}
                   ELSE released
  /\ UNCHANGED <<node, pods, restarts>>

PodsNext ==
  \/ OperatorSteps
  \/ \E i \in CortexWorkloads : StartPod(i) \/ RestartContainer(i)
  \/ \E i \in ConfigMaps : Refresh(i)

PodsSpec == PodsInit /\ [][PodsNext]_allVars

(* The fairness of the operator; Kubernetes starts the pods it can start,  *)
(* and the kubelet goes on refreshing what is mounted.                     *)
PodsFairness ==
  /\ Fairness
  /\ \A i \in CortexWorkloads : WF_allVars(StartPod(i))
  /\ \A i \in ConfigMaps : WF_allVars(Refresh(i))

PodsFairSpec == PodsSpec /\ PodsFairness
----------------------------------------------------------------------------
(* Every workload has a pod of its present template, and the node the      *)
(* present config maps.                                                    *)
RolledOut ==
  /\ \A i \in CortexWorkloads : i \in DOMAIN children /\ ~Outdated(i)
  /\ \A i \in ConfigMaps :
       /\ i \in DOMAIN children \cap DOMAIN node
       /\ node[i] = children[i].data.content

(* When everything has come to rest, a pod runs the config the user asked  *)
(* for last, unless it started in the gap between the edit and its arrival *)
(* on the node: the annotation that rolls the pods and the config map they *)
(* mount are written by different controllers, and a container that starts *)
(* in between keeps the old content.  There is no other way to miss an     *)
(* edit of the config, as long as none brings an earlier config back.      *)
PodsRunTheConfig ==
  Settled /\ cortex.alive /\ RolledOut =>
    \A i \in CortexWorkloads :
      pods[i].config = AsYAML(cortex.spec) \/ pods[i].late

(* The pods of a workload are replaced at most once for each image and     *)
(* config the user asks for: not by an edit of anything else ("change      *)
(* aspects of Cortex configuration without restarting it"), and not twice  *)
(* because a worker acted on an old copy of the spec.  (A user who returns *)
(* to an earlier release asks for another start.)                          *)
RollsOncePerRelease ==
  \A i \in DOMAIN pods : pods[i].starts <= Cardinality(released)

(* No sequence of edits leads back to a release once it has left it.       *)
ReleasesGoOn ==
  \A p, q \in Later :
    p[2] = q[1] /\ Release(p[1]) = Release(q[2])
      => Release(p[2]) = Release(q[2])

(* Every spec in circulation has been released.                            *)
ReleasesAreKnown ==
  /\ IsFiniteSet(released)
  /\ \A s \in {cortex, cache} \cup {watch[k] : k \in 1 .. Len(watch)}
               \cup {work[c].copy : c \in Controllers} :
       s.alive => Release(s.spec) \in released
  /\ \A i \in CortexWorkloads \cap DOMAIN children :
       \E b \in Specs : /\ Release(b) \in released
                        /\ children[i].data = Content(i, b)

(* The pod of workload i, of controller c, was made from a spec a no later *)
(* than that of the workload, and has been started once for each of some   *)
(* releases up to a, if releases go on.  What it reads is the config of a  *)
(* spec in between a and the present one, or it was late.                  *)
RolledInOrder(c, i) ==
  \E a, b \in Specs :
    /\ pods[i].template = TemplateOf(Content(i, a))
    /\ <<a, b>> \in Later
    /\ children[i].data = Content(i, b)
    /\ Busy(c) => <<b, work[c].copy.spec>> \in Later
    /\ cache.alive /\ <<b, cache.spec>> \in Later
    /\ ReleasesGoOn => \E R \in SUBSET released :
         /\ pods[i].starts = Cardinality(R)
         /\ \A r \in R :
              \E x \in Specs : Release(x) = r /\ <<x, a>> \in Later
    /\ \/ pods[i].late
       \/ \E s \in Specs : /\ pods[i].config = AsYAML(s)
                           /\ <<a, s>> \in Later
                           /\ <<s, cortex.spec>> \in Later

(* The inductive invariant behind the safety of pods: they are no newer    *)
(* than their workloads, and their workloads never go back.                *)
PodsInvariant ==
  /\ ReleasesAreKnown
  /\ DOMAIN pods \subseteq CortexWorkloads \cap DOMAIN children
  /\ \A i \in DOMAIN pods :
       DOMAIN pods[i] = {"starts", "template", "config", "late"}
  /\ \A c \in Controllers :
       \A i \in ChildrenOf(c) \cap DOMAIN pods : RolledInOrder(c, i)

(* A Cortex that stays, with a spec that can be deployed, eventually runs: *)
(* although nothing makes the workloads wait for the config maps and the   *)
(* account, what their pods mount and run as is there in the end, and an   *)
(* edit of the runtime config reaches them.                                *)
EventuallyRunning ==
  <>[](cortex.alive /\ Deployable(cortex.spec)) =>
    <>[](/\ RolledOut
         /\ RuntimeConfigMap \in ConfigMaps =>
              node[RuntimeConfigMap] = cortex.spec.runtime)
=============================================================================
