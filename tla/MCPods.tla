------------------------------- MODULE MCPods -------------------------------
(***************************************************************************)
(* An instance of the operator with the pods of one workload, the two      *)
(* config maps they mount and the account they run as.                     *)
(***************************************************************************)
EXTENDS CortexPods

Mounted == {"Cortex", "RuntimeConfig", "AlertManager"}

First ==
  Default([image |-> 1, cacheImage |-> NoImage, config |-> [limits |-> 1],
           runtime |-> 1, sections |-> <<>>,
           account |-> [given |-> FALSE, annotations |-> {}, secrets |-> {}]])

\* An edit that has to replace the pods, one that must not, and one that
\* does, after it.
Reconfigured == [First EXCEPT !.config.limits = 2]
Retuned ==
  Default([First EXCEPT !.runtime = 2,
                        !.sections = [alertmanager |-> [replicas |-> 3]]])
Both == [Retuned EXCEPT !.image = 2, !.config.limits = 2]

TheSpecs == {First, Reconfigured, Retuned, Both}
TheEdits == {<<First, Reconfigured>>, <<First, Retuned>>,
             <<Retuned, Both>>}
Nothing == {}

(* The informers are prompt: no other step is taken while one of their     *)
(* copies lags.  And the workers take turns, in any order.  What is left   *)
(* is the order of the three controllers, the kubelet and the user.        *)
PromptNext ==
  /\ PodsNext
  /\ stale # {} => stale' # stale
  /\ stale = {} /\ watch # <<>> => Len(watch') < Len(watch)
  /\ \A c, d \in Controllers :
       work'[c].phase # "idle" /\ work'[d].phase # "idle" => c = d

PromptSpec ==
  /\ PodsInit
  /\ [][PromptNext]_allVars
  /\ PodsFairness
=============================================================================
