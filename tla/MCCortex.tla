------------------------------ MODULE MCCortex ------------------------------
(***************************************************************************)
(* Instances of the operator small enough for TLC: which controllers run,  *)
(* and which specs the user may apply.                                     *)
(***************************************************************************)
EXTENDS CortexConvergence

(* Sets of controllers.  Each is closed: it has those its members wait for.*)
Chain        == {"Ingester", "Querier", "QueryFrontend"}
Caches       == {"Memcached", "Ruler"}
Upgraded     == {"Compactor", "RuntimeConfig"}
Fan          == {"Ingester", "Distributor"}
OnlyIngester == {"Ingester"}
OnlyRuntime  == {"RuntimeConfig"}

----------------------------------------------------------------------------
(* Specs *)

NoAccount == [given |-> FALSE, annotations |-> {}, secrets |-> {}]

\* What a user writes: no section, and a config that tries to replace a
\* setting the operator owns.
Manifest ==
  [image      |-> 1,
   cacheImage |-> NoImage,
   config     |-> [limits |-> 1, frontend_address |-> Address("querier", 1)],
   runtime    |-> 1,
   account    |-> NoAccount,
   sections   |-> <<>>]

\* What the API server stores, once the webhooks are in force.
First == Default(Manifest)

Resized(spec) ==
  Default([spec EXCEPT !.sections = [name \in Workloads |-> [replicas |-> 3]]])

Second == [First EXCEPT !.image = 2, !.cacheImage = 2, !.runtime = 2,
                        !.config.limits = 2]
Third  == Resized([Second EXCEPT !.image = 3, !.runtime = 4])

WithAccount ==
  [Second EXCEPT !.account = [given |-> TRUE, annotations |-> {"role"},
                              secrets |-> {"registry"}]]
OtherAccount ==
  [Third EXCEPT !.account = [given |-> TRUE, annotations |-> {"other role"},
                             secrets |-> {"registry", "mirror"}]]

Broken == [First EXCEPT !.runtime = 3]

\* A release neither controller of Upgraded can apply.
Stuck ==
  [Third EXCEPT !.runtime = 3, !.sections.compactor.datadir_size = "2Gi"]

BadRuntimes == {3}
BadConfigs == {}

OneSpec    == {First}
Releases   == {First, Second, Third, Stuck}
Pair       == {First, Second}
Accounts   == {First, Second, WithAccount, OtherAccount}
Runtimes   == {First, Broken, Manifest}

(* Edits.  The upgrades never lower an image or a runtime config.         *)
NoEdits    == {}
Upgrades   == {<<First, Second>>, <<Second, Third>>, <<Second, Stuck>>,
               <<First, Stuck>>, <<Stuck, Third>>}
Reverts    == {<<First, Second>>, <<Second, First>>}
Reshapes   == {<<First, Second>>, <<First, WithAccount>>,
               <<First, OtherAccount>>, <<Second, WithAccount>>,
               <<WithAccount, OtherAccount>>, <<OtherAccount, WithAccount>>}
Repairs    == {<<First, Broken>>, <<Broken, First>>, <<Manifest, First>>}
----------------------------------------------------------------------------
(* The whole operator on one schedule: the informers are prompt, the       *)
(* workers take turns, and who waits for another comes before it.          *)

Turns == <<"Ruler", "QueryFrontend", "Querier", "Distributor", "AlertManager",
           "StoreGateway", "Compactor", "Ingester", "Memcached",
           "RuntimeConfig", "Cortex">>

\* The worker under way, or else the first in line.
Due(c) ==
  \/ Busy(c)
  \/ /\ \A d \in Controllers : ~Busy(d)
     /\ \E k \in 1 .. Len(Turns) :
          /\ Turns[k] = c
          /\ \A j \in 1 .. k - 1 : Turns[j] \notin queue

Resting == \A c \in Controllers : ~Busy(c) /\ c \notin queue

TurnsNext ==
  \/ \E i \in stale : SyncChild(i)
  \/ stale = {} /\ Deliver
  \/ /\ stale = {} /\ watch = <<>>
     /\ \/ \E c \in Controllers : Due(c) /\ Works(c)
        \/ Resting /\ \E c \in Controllers : TimerFires(c)
        \/ Resting /\ backoff = {} /\ (CreateCortex \/ EditSpec)

TurnsSpec == Init /\ [][TurnsNext]_vars
=============================================================================
