--------------------------- MODULE CortexOperator ---------------------------
(***************************************************************************)
(* The operator of controllers/ and main.go: a set of controllers that     *)
(* watch one Cortex resource and keep its children up to date.             *)
(*                                                                         *)
(* Each controller is a work queue that holds at most the one request for  *)
(* the Cortex, and a single worker.  Its Reconcile reads the Cortex from   *)
(* the shared informer cache, then for each of its children sends a        *)
(* create or an update (computed from the informer's view of the child)    *)
(* and writes the Cortex status back, with the resourceVersion it read.    *)
(* The caches lag the API server, any call may fail or take effect and     *)
(* lose its reply, the process may crash, and the user may edit, delete    *)
(* and create the Cortex at any moment.                                    *)
(*                                                                         *)
(* The API server, its garbage collector and controller-runtime (informer, *)
(* work queue) are external: they are modelled from how the code uses them.*)
(***************************************************************************)
EXTENDS CortexPlans, FiniteSets

CONSTANTS
  Controllers,  \* the controllers main.go starts; a run may take a subset
  Specs,        \* the specs the API server may hold
  Edits,        \* the <<old, new>> pairs a user may apply
  Policies,     \* how a deletion treats the children
  NoSpec,       \* the spec of a Cortex that does not exist
  MaxUids,      \* bound: how often the Cortex is created
  MaxEdits,     \* bound: edits of the spec
  MaxFaults,    \* bound: API calls that fail or lose their reply
  MaxCrashes,   \* bound: crashes of the operator
  MaxResyncs,   \* bound: periodic resyncs of the informer
  MaxStale      \* bound: children whose cached copies lag at one time

ASSUME ControllersAssumption == Controllers \subseteq AllControllers
ASSUME SpecsAssumption == NoSpec \notin Specs /\ Edits \subseteq Specs \X Specs
ASSUME PoliciesAssumption == Policies \subseteq {"Background", "Orphan"}
ASSUME BoundsAssumption ==
  /\ MaxUids \in Nat
  /\ MaxEdits \in Nat
  /\ MaxFaults \in Nat
  /\ MaxCrashes \in Nat
  /\ MaxResyncs \in Nat
  /\ MaxStale \in Nat \ {0}

VARIABLES
  cortex,      \* the Cortex on the API server
  watch,       \* its versions the informer has yet to see, oldest first
  cache,       \* the informer's copy of it
  children,    \* the children on the API server: id -> [owner, data]
  childCache,  \* the informers' copies of them
  stale,       \* the children whose cached copy is out of date
  queue,       \* controllers whose queue holds the request
  backoff,     \* controllers whose request waits in the rate limiter
  work,        \* controller -> what its worker is doing
  used         \* how much of each bound has been used

apiVars  == <<cortex, watch, children, stale>>
infVars  == <<cache, childCache>>
ctlVars  == <<queue, backoff, work>>
vars     == <<apiVars, infVars, ctlVars, used>>

----------------------------------------------------------------------------
(* Values *)

Managed == UNION {ChildrenOf(c) : c \in Controllers}

Gone(uid, rv) ==
  [alive |-> FALSE, uid |-> uid, rv |-> rv, spec |-> NoSpec, status |-> {}]

Idle == [phase |-> "idle", step |-> 1, copy |-> Gone(0, 0)]

Busy(c) == work[c].phase # "idle"

Put(f, i, v) == [j \in DOMAIN f \cup {i} |-> IF j = i THEN v ELSE f[j]]
Drop(f, i) == [j \in DOMAIN f \ {i} |-> f[j]]

Steps(c) == PlanOf(c).steps
Step(c) == Steps(c)[work[c].step]
Target(c) == Step(c).child

(* The status the worker holds in memory when it reconciles this step.     *)
Pending(c) == work[c].copy.status \cup PlanOf(c).opens \cup Step(c).refs

Spend(what) == used' = [used EXCEPT ![what] = @ + 1]

----------------------------------------------------------------------------
(* The user, through the API server *)

(* A new version of the Cortex is stored and queued for the informer.      *)
Store(new) ==
  /\ cortex' = new
  /\ watch' = Append(watch, new)

CreateCortex ==
  \E spec \in Specs :
    /\ ~cortex.alive
    /\ cortex.uid < MaxUids
    /\ Store([alive |-> TRUE, uid |-> cortex.uid + 1, rv |-> cortex.rv + 1,
              spec |-> spec, status |-> {}])
    /\ UNCHANGED <<children, stale, infVars, ctlVars, used>>

(* The status is a subresource: an edit of the spec leaves it alone.       *)
EditSpec ==
  \E spec \in Specs :
    /\ cortex.alive
    /\ <<cortex.spec, spec>> \in Edits
    /\ used.edits < MaxEdits
    /\ Store([cortex EXCEPT !.spec = spec, !.rv = @ + 1])
    /\ Spend("edits")
    /\ UNCHANGED <<children, stale, infVars, ctlVars>>

(* No finalizer is ever set on the Cortex, so it goes at once.  With the   *)
(* orphan policy its children lose their owner reference first.            *)
DeleteCortex ==
  \E policy \in Policies :
    LET orphans == {i \in DOMAIN children : /\ policy = "Orphan"
                                            /\ children[i].owner = cortex.uid}
    IN  /\ cortex.alive
        /\ Store(Gone(cortex.uid, cortex.rv + 1))
        /\ children' = [i \in DOMAIN children |->
                          [children[i] EXCEPT
                             !.owner = IF i \in orphans THEN 0 ELSE @]]
        /\ stale' = stale \cup orphans
        /\ UNCHANGED <<infVars, ctlVars, used>>

Garbage(i) ==
  /\ children[i].owner # 0
  /\ ~(cortex.alive /\ children[i].owner = cortex.uid)

(* The garbage collector deletes a child whose owner, identified by its    *)
(* uid, does not exist.                                                    *)
Collect(i) ==
  /\ i \in DOMAIN children
  /\ Garbage(i)
  /\ children' = Drop(children, i)
  /\ stale' = stale \cup {i}
  /\ UNCHANGED <<cortex, watch, infVars, ctlVars, used>>

----------------------------------------------------------------------------
(* The informers and the work queues *)

\* Mutant: the newest version is delivered ahead of the older ones.
DeliverLast ==
  /\ watch # <<>>
  /\ cache' = watch[Len(watch)]
  /\ watch' = SubSeq(watch, 1, Len(watch) - 1)
  /\ queue' = Controllers
  /\ UNCHANGED <<cortex, children, stale, childCache, backoff, work, used>>

\* Mutant: controllers are notified of creations and deletions only.
DeliverIgnoringUpdates ==
  /\ watch # <<>>
  /\ cache' = Head(watch)
  /\ watch' = Tail(watch)
  /\ queue' = IF cache.uid = Head(watch).uid /\ Head(watch).alive
                THEN queue
                ELSE Controllers
  /\ UNCHANGED <<cortex, children, stale, childCache, backoff, work, used>>

(* The next version reaches the cache, and every controller is notified:   *)
(* each watches For(&Cortex{}) with no predicate, so the operator's own    *)
(* status writes count too.                                                *)
Deliver ==
  /\ watch # <<>>
  /\ cache' = Head(watch)
  /\ watch' = Tail(watch)
  /\ queue' = Controllers
  /\ UNCHANGED <<cortex, children, stale, childCache, backoff, work, used>>

(* A child's cached copy catches up.  Nobody is notified: no controller    *)
(* Owns or Watches its children.                                           *)
SyncChild(i) ==
  /\ i \in stale
  /\ childCache' = IF i \in DOMAIN children
                     THEN Put(childCache, i, children[i])
                     ELSE Drop(childCache, i)
  /\ stale' = stale \ {i}
  /\ UNCHANGED <<cortex, watch, children, cache, ctlVars, used>>

(* The informer's periodic resync replays its cache to the controllers.    *)
Resync ==
  /\ used.resyncs < MaxResyncs
  /\ cache.alive
  /\ queue' = Controllers
  /\ Spend("resyncs")
  /\ UNCHANGED <<apiVars, infVars, backoff, work>>

TimerFires(c) ==
  /\ c \in backoff
  /\ backoff' = backoff \ {c}
  /\ queue' = queue \cup {c}
  /\ UNCHANGED <<apiVars, infVars, work, used>>

----------------------------------------------------------------------------
(* A worker takes the request off its queue: the head of each Reconcile.   *)

Takes(c) ==
  /\ ~Busy(c)
  /\ c \in queue
  /\ queue' = queue \ {c}

GateOpen(c) == PlanOf(c).gate \subseteq cache.status

(* The Cortex is not found: the request is dropped.  (A read of the cache  *)
(* has no other error.)                                                    *)
StartAbsent(c) ==
  /\ Takes(c)
  /\ ~cache.alive
  /\ UNCHANGED <<apiVars, infVars, backoff, work, used>>

(* A reference the controller waits for is not set.  Only the ruler asks   *)
(* to be requeued; the others count on the event of the missing write.     *)
StartBlocked(c) ==
  /\ Takes(c)
  /\ cache.alive
  /\ ~GateOpen(c)
  /\ backoff' = IF PlanOf(c).polls THEN backoff \cup {c} ELSE backoff
  /\ UNCHANGED <<apiVars, infVars, work, used>>

\* Mutant: "will not retry" is taken at its word, and the error dropped.
StartUnbuildableForgotten(c) ==
  /\ Takes(c)
  /\ cache.alive
  /\ GateOpen(c)
  /\ CannotBuild(c, cache.spec)
  /\ UNCHANGED <<apiVars, infVars, backoff, work, used>>

(* The runtime config cannot be marshalled.  The error is returned, and    *)
(* controller-runtime requeues on every error, whatever Requeue says.      *)
StartUnbuildable(c) ==
  /\ Takes(c)
  /\ cache.alive
  /\ GateOpen(c)
  /\ CannotBuild(c, cache.spec)
  /\ backoff' = backoff \cup {c}
  /\ UNCHANGED <<apiVars, infVars, work, used>>

Start(c) ==
  /\ Takes(c)
  /\ cache.alive
  /\ GateOpen(c)
  /\ ~CannotBuild(c, cache.spec)
  /\ work' = [work EXCEPT ![c] = [phase |-> "apply", step |-> 1,
                                  copy |-> cache]]
  /\ UNCHANGED <<apiVars, infVars, backoff, used>>

----------------------------------------------------------------------------
(* KubernetesResourceReconciler.Reconcile: CreateOrUpdate, then the status *)

At(c, phase) == work[c].phase = phase

(* The worker has come to a child it cannot build: it is about to          *)
(* dereference a nil pointer.                                              *)
Panicking(c) == At(c, "apply") /\ Panics(Target(c), work[c].copy.spec)

Sends(c) == At(c, "apply") /\ ~Panicking(c)

(* The step's call has succeeded and the worker goes on to phase.          *)
GoesOn(c, phase) ==
  /\ work' = [work EXCEPT ![c].phase = phase]
  /\ UNCHANGED <<queue, backoff>>

(* Reconcile returns an error: the request is requeued, rate limited.      *)
Fails(c) ==
  /\ work' = [work EXCEPT ![c] = Idle]
  /\ backoff' = backoff \cup {c}
  /\ UNCHANGED queue

Cached(c) == Target(c) \in DOMAIN childCache

(* The object CreateOrUpdate would send, from the child it has read.       *)
Object(c) ==
  NewObject(Target(c), work[c].copy.spec,
            IF Cached(c) THEN childCache[Target(c)].data ELSE EmptyAccount)

UpToDate(c) ==
  /\ Cached(c)
  /\ ComparesEqual(Target(c))
  /\ Object(c) = childCache[Target(c)].data

CanCreate(c) ==
  /\ ~Cached(c)
  /\ Target(c) \notin DOMAIN children
  /\ ~Imageless(Target(c), Object(c))

CanUpdate(c) ==
  /\ Cached(c)
  /\ ~Imageless(Target(c), Object(c))
  /\ ~UpToDate(c)
  /\ Target(c) \in DOMAIN children
  /\ Target(c) \notin stale
  /\ ~Immutable(Target(c), children[Target(c)].data, Object(c))

\* Mutant: a child is created without an owner reference.
CreateChildUnowned(c) ==
  /\ CanCreate(c)
  /\ Cardinality(stale) < MaxStale
  /\ children' = Put(children, Target(c), [owner |-> 0, data |-> Object(c)])
  /\ stale' = stale \cup {Target(c)}
  /\ UNCHANGED <<cortex, watch>>

(* The write, on the API server.  The owner reference is set on the object *)
(* before CreateOrUpdate reads it, and the read overwrites it: only a      *)
(* created child gets it.  A write that changes nothing stores nothing.    *)
CreateChild(c) ==
  /\ CanCreate(c)
  /\ Cardinality(stale) < MaxStale
  /\ children' = Put(children, Target(c),
                     [owner |-> work[c].copy.uid, data |-> Object(c)])
  /\ stale' = stale \cup {Target(c)}
  /\ UNCHANGED <<cortex, watch>>

UpdateChild(c) ==
  /\ CanUpdate(c)
  /\ Cardinality(stale) < MaxStale
  /\ children' = [children EXCEPT ![Target(c)].data = Object(c)]
  /\ stale' = IF children[Target(c)].data = Object(c)
                THEN stale
                ELSE stale \cup {Target(c)}
  /\ UNCHANGED <<cortex, watch>>

\* Mutant: a refused write is logged and forgotten.
ApplyRefusedForgotten(c) ==
  /\ Sends(c)
  /\ ~UpToDate(c) /\ ~CanCreate(c) /\ ~CanUpdate(c)
  /\ work' = [work EXCEPT ![c] = Idle]
  /\ UNCHANGED <<apiVars, infVars, queue, backoff, used>>

ApplyUnchanged(c) ==
  /\ Sends(c)
  /\ UpToDate(c)
  /\ GoesOn(c, "status")
  /\ UNCHANGED <<apiVars, infVars, used>>

ApplyCreate(c) ==
  /\ Sends(c)
  /\ CreateChild(c)
  /\ GoesOn(c, "status")
  /\ UNCHANGED <<infVars, used>>

ApplyUpdate(c) ==
  /\ Sends(c)
  /\ UpdateChild(c)
  /\ GoesOn(c, "status")
  /\ UNCHANGED <<infVars, used>>

(* The API server refuses: the child exists although the cache has none,   *)
(* the cached copy is out of date, or the change is not allowed.           *)
ApplyRefused(c) ==
  /\ Sends(c)
  /\ ~UpToDate(c) /\ ~CanCreate(c) /\ ~CanUpdate(c)
  /\ Fails(c)
  /\ UNCHANGED <<apiVars, infVars, used>>

\* Mutant: a patch of the status, accepted whatever was read.
StatusPatched(c) == cortex.alive

(* Status().Update replaces the whole status, under optimistic concurrency *)
(* control: the version the worker read must still be the current one.     *)
StatusAccepted(c) ==
  /\ cortex.alive
  /\ work[c].copy.rv = cortex.rv

Written(c) ==
  IF Pending(c) = cortex.status
    THEN cortex
    ELSE [cortex EXCEPT !.status = Pending(c), !.rv = @ + 1]

PublishStatus(c) ==
  /\ StatusAccepted(c)
  /\ IF Written(c) = cortex THEN UNCHANGED <<cortex, watch>>
                           ELSE Store(Written(c))
  /\ UNCHANGED <<children, stale>>

\* Mutant: the end of the steps is missed by one.
StatusUpdateRunsOn(c) ==
  /\ At(c, "status")
  /\ PublishStatus(c)
  /\ work' = IF work[c].step > Len(Steps(c))
               THEN [work EXCEPT ![c] = Idle]
               ELSE [work EXCEPT ![c] = [phase |-> "apply",
                                         step  |-> @.step + 1,
                                         copy  |-> Written(c)]]
  /\ UNCHANGED <<infVars, queue, backoff, used>>

(* The reply is decoded into the worker's copy, so the next step writes    *)
(* with the new version.  After the last step the request is done.         *)
StatusUpdate(c) ==
  /\ At(c, "status")
  /\ PublishStatus(c)
  /\ work' = IF work[c].step = Len(Steps(c))
               THEN [work EXCEPT ![c] = Idle]
               ELSE [work EXCEPT ![c] = [phase |-> "apply",
                                         step  |-> @.step + 1,
                                         copy  |-> Written(c)]]
  /\ UNCHANGED <<infVars, queue, backoff, used>>

StatusRefused(c) ==
  /\ At(c, "status")
  /\ ~StatusAccepted(c)
  /\ Fails(c)
  /\ UNCHANGED <<apiVars, infVars, used>>

----------------------------------------------------------------------------
(* Failures *)

(* A call fails and has no effect.                                         *)
Fault(c) ==
  /\ Sends(c) \/ At(c, "status")
  /\ used.faults < MaxFaults
  /\ Spend("faults")
  /\ Fails(c)
  /\ UNCHANGED <<apiVars, infVars>>

(* A write takes effect, but the worker sees an error.                     *)
LostReply(c) ==
  /\ used.faults < MaxFaults
  /\ Spend("faults")
  /\ \/ Sends(c) /\ (CreateChild(c) \/ UpdateChild(c))
     \/ At(c, "status") /\ PublishStatus(c)
  /\ Fails(c)
  /\ UNCHANGED infVars

(* The process is replaced by a new one: what was queued or under way is   *)
(* lost, and the informers list everything anew, as it is now: the API     *)
(* server that answers does not lag.                                       *)
Restarted ==
  /\ work' = [c \in Controllers |-> Idle]
  /\ backoff' = {}
  /\ queue' = IF cortex.alive THEN Controllers ELSE {}
  /\ cache' = cortex
  /\ watch' = <<>>
  /\ childCache' = children
  /\ stale' = {}
  /\ UNCHANGED <<cortex, children>>

(* The process dies, and it or another replica becomes the leader.         *)
Crash ==
  /\ used.crashes < MaxCrashes
  /\ Spend("crashes")
  /\ Restarted

(* Nothing recovers from a panic in Reconcile: all eleven controllers go   *)
(* down with it.                                                           *)
Panic(c) ==
  /\ Panicking(c)
  /\ Restarted
  /\ UNCHANGED used

----------------------------------------------------------------------------
Init ==
  /\ cortex = Gone(0, 0)
  /\ watch = <<>>
  /\ cache = Gone(0, 0)
  /\ children = <<>>
  /\ childCache = <<>>
  /\ stale = {}
  /\ queue = {}
  /\ backoff = {}
  /\ work = [c \in Controllers |-> Idle]
  /\ used = [edits |-> 0, faults |-> 0, crashes |-> 0, resyncs |-> 0]

Works(c) ==
  \/ StartAbsent(c)
  \/ StartBlocked(c)
  \/ StartUnbuildable(c)
  \/ Start(c)
  \/ ApplyUnchanged(c)
  \/ ApplyCreate(c)
  \/ ApplyUpdate(c)
  \/ ApplyRefused(c)
  \/ Panic(c)
  \/ StatusUpdate(c)
  \/ StatusRefused(c)

User == CreateCortex \/ EditSpec \/ DeleteCortex

(* Whatever is not the user's doing.                                       *)
System ==
  \/ Deliver
  \/ Resync
  \/ Crash
  \/ \E i \in Managed : Collect(i) \/ SyncChild(i)
  \/ \E c \in Controllers :
       TimerFires(c) \/ Works(c) \/ Fault(c) \/ LostReply(c)

Next == User \/ System

Spec == Init /\ [][Next]_vars

(* The informers deliver, the collector runs, a rate-limited request comes *)
(* back and a worker with something to do goes on.  The user, the faults   *)
(* and the resyncs owe nothing.                                            *)
Fairness ==
  /\ WF_vars(Deliver)
  /\ \A i \in Managed : WF_vars(Collect(i)) /\ WF_vars(SyncChild(i))
  /\ \A c \in Controllers : WF_vars(TimerFires(c)) /\ WF_vars(Works(c))

FairSpec == Spec /\ Fairness
=============================================================================
