------------------------- MODULE CortexConvergence -------------------------
(***************************************************************************)
(* Why the operator converges: what is true of the copies, the children    *)
(* and the workers in every state before the first deletion of a Cortex.   *)
(* Each part says how far something lags, in terms of the specs the user   *)
(* went through.                                                           *)
(***************************************************************************)
EXTENDS CortexProperties, CortexDefaults

(* No Cortex has been deleted yet.  After a deletion the children of the   *)
(* old Cortex are adopted or collected at any moment.                      *)
Undeleted == cortex.uid = 0 \/ (cortex.uid = 1 /\ cortex.alive)

----------------------------------------------------------------------------
(* Specs and what becomes of them *)

(* <<a, b>>: a sequence of edits leads from a to b.  Said without          *)
(* recursion: b is in every set that has a and is closed under edits.      *)
Later ==
  {p \in Specs \X Specs :
     \A S \in SUBSET Specs :
       (\A e \in Edits : e[1] \in S => e[2] \in S)
         => (p[1] \in S => p[2] \in S)}

(* The child a controller makes from nothing.                              *)
Content(i, spec) == NewObject(i, spec, EmptyAccount)

(* Children of which an update leaves nothing behind: all but the account, *)
(* and the account too unless an edit takes something from it.             *)
Overwritten ==
  {i \in Managed : \A p \in Later :
     NewObject(i, p[2], Content(i, p[1])) = Content(i, p[2])}

(* Children that no sequence of edits brings back to what they were once   *)
(* it has changed them, or whose cached copy is never compared.            *)
Unreverted ==
  {i \in Managed : ComparesEqual(i) =>
     \A p, q \in Later :
       p[2] = q[1] /\ Content(i, p[1]) = Content(i, q[2])
         => Content(i, p[2]) = Content(i, q[2])}

(* The children a settled operator has right.                              *)
Exact == Overwritten \cap Unreverted

(* What a plan records in the status.                                      *)
Publishes(c) ==
  PlanOf(c).opens
    \cup UNION {Steps(c)[k].refs : k \in 1 .. Len(Steps(c))}

(* Whatever a controller waits for, some other controller publishes.       *)
ClosedControllers ==
  \A c \in Controllers :
    \A r \in PlanOf(c).gate : \E d \in Controllers : r \in Publishes(d)

SpecFields ==
  {"image", "cacheImage", "config", "runtime", "account", "sections"}

(* Every spec is as the webhooks leave it; an account that is not given    *)
(* has nothing in it.                                                      *)
AdmittedSpecs ==
  \A spec \in Specs :
    /\ DOMAIN spec = SpecFields
    /\ Default(spec) = spec
    /\ Validate(spec)
    /\ ~spec.account.given =>
         spec.account.annotations = {} /\ spec.account.secrets = {}

(* No edit lowers an image or the runtime config, taken as numbers.        *)
EditsGoUp ==
  /\ \A spec \in Specs : /\ spec.image \in Nat
                         /\ spec.cacheImage \in Nat
                         /\ spec.runtime \in Nat
  /\ \A e \in Edits : /\ e[1].image <= e[2].image
                      /\ e[1].cacheImage <= e[2].cacheImage
                      /\ e[1].runtime <= e[2].runtime

----------------------------------------------------------------------------
(* The parts of the invariant *)

(* The informer sees every version: the last one queued for it is the      *)
(* present one.                                                            *)
CacheKeepsUp ==
  /\ watch = <<>> => cache = cortex
  /\ watch # <<>> => watch[Len(watch)] = cortex

\* The worker is past the write of step k.
Passed(c, k) == k < work[c].step \/ (k = work[c].step /\ At(c, "status"))

(* A child the informer has is there, and so is one a worker has passed.   *)
WorkIsThere ==
  /\ DOMAIN childCache \subseteq DOMAIN children
  /\ \A c \in Controllers : Busy(c) =>
       \A k \in 1 .. Len(Steps(c)) :
         Passed(c, k) => Steps(c)[k].child \in DOMAIN children

\* Edits lead from the spec of s to the spec of t, if s is a Cortex.
Precedes(s, t) == s.alive => t.alive /\ <<s.spec, t.spec>> \in Later

(* The specs in circulation, oldest first: those the workers hold, that of *)
(* the cache, those on their way to it, and the present one.               *)
SpecsInOrder ==
  /\ \A c \in Controllers : Precedes(work[c].copy, cache)
  /\ \A k \in 1 .. Len(watch) : /\ Precedes(cache, watch[k])
                                /\ \A j \in 1 .. k :
                                     Precedes(watch[j], watch[k])
                                /\ Precedes(watch[k], cortex)
  /\ Precedes(cache, cortex)
  /\ Precedes(cortex, cortex)

(* Child i of c is that of a spec no later than the one its worker holds,  *)
(* and its cached copy that of a spec no later still.                      *)
MadeInOrder(c, i) ==
  \E b \in Specs :
    /\ children[i].data = Content(i, b)
    /\ Busy(c) => <<b, work[c].copy.spec>> \in Later
    /\ cache.alive /\ <<b, cache.spec>> \in Later
    /\ i \in DOMAIN childCache =>
         \E a \in Specs : /\ childCache[i].data = Content(i, a)
                          /\ <<a, b>> \in Later

ChildrenInOrder ==
  \A c \in Controllers :
    \A i \in ChildrenOf(c) \cap Overwritten \cap DOMAIN children :
      MadeInOrder(c, i)

\* The child of step k is there, and as the present spec asks.
Current(c, k) ==
  LET i == Steps(c)[k].child
  IN  /\ i \in DOMAIN children
      /\ i \in Exact => children[i].data = Content(i, cortex.spec)

Noted(c, k) == PlanOf(c).opens \cup Steps(c)[k].refs \subseteq cortex.status

(* Of the present version, controller c has something in its queue or in   *)
(* the rate limiter, or is at work on its spec, or waits at its gate, or   *)
(* has done all of its plan.                                               *)
NotForgotten(c) ==
  \/ watch # <<>>
  \/ c \in queue \cup backoff
  \/ /\ Busy(c)
     /\ work[c].copy.spec = cortex.spec
     /\ \A k \in 1 .. Len(Steps(c)) : /\ Passed(c, k) => Current(c, k)
                                      /\ k < work[c].step => Noted(c, k)
  \/ /\ ~Busy(c)
     /\ ~(PlanOf(c).gate \subseteq cortex.status)
  \/ /\ ~Busy(c)
     /\ \A k \in 1 .. Len(Steps(c)) : Current(c, k) /\ Noted(c, k)

NothingForgotten ==
  cortex.alive => \A c \in Controllers : NotForgotten(c)

(* The inductive invariant behind convergence: however the deliveries, the *)
(* workers, the faults and the restarts interleave, no child is newer than *)
(* its controller knows, none is judged current by a copy that hides a     *)
(* change, and no controller rests on work undone.                         *)
ConvergenceInvariant ==
  /\ CacheKeepsUp
  /\ Undeleted => /\ WorkIsThere
                  /\ RefBacked
                  /\ SpecsInOrder
                  /\ ChildrenInOrder
                  /\ NothingForgotten
=============================================================================
