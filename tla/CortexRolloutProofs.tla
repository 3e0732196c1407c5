------------------------- MODULE CortexRolloutProofs -------------------------
(***************************************************************************)
(* Proofs about the order of a roll-out: gates are respected, references   *)
(* are never lost, and the operator implements the abstract Rollout.       *)
(***************************************************************************)
EXTENDS CortexOperatorProofs

----------------------------------------------------------------------------
(* How the Cortex evolves *)

(* From version a to version b, in one step.                               *)
EvolvesTo(a, b) ==
  \/ b = a
  \/ /\ b.rv = a.rv + 1
     /\ a.uid <= b.uid
     /\ b.alive /\ b.uid = a.uid => a.alive /\ a.status \subseteq b.status

(* A past version stays one.                                               *)
LEMMA PastKept ==
  ASSUME NEW s \in Snapshots, NEW a \in Snapshots, NEW b \in Snapshots,
         PastOf(s, a), EvolvesTo(a, b)
  PROVE  PastOf(s, b)
BY DEF PastOf, EvolvesTo, Snapshots

(* Every version is past of itself.                                        *)
LEMMA PastOfItself ==
  ASSUME NEW s \in Snapshots
  PROVE  PastOf(s, s)
BY DEF PastOf, Snapshots

----------------------------------------------------------------------------
(* What one step does, variable by variable *)

CortexStep ==
  \/ cortex' = cortex
  \/ /\ ~cortex.alive
     /\ cortex'.alive
     /\ cortex'.uid = cortex.uid + 1
     /\ cortex'.rv = cortex.rv + 1
     /\ cortex'.status = {}
  \/ /\ cortex.alive
     /\ cortex'.alive
     /\ cortex'.uid = cortex.uid
     /\ cortex'.rv = cortex.rv + 1
     /\ cortex'.status = cortex.status
  \/ /\ cortex.alive
     /\ cortex' = Gone(cortex.uid, cortex.rv + 1)
  \/ \E c \in Controllers :
       Busy(c) /\ StatusAccepted(c) /\ cortex' = Written(c)

CacheStep ==
  \/ cache' = cache
  \/ cache' = cortex /\ cortex' = cortex
  \/ watch # <<>> /\ cache' = Head(watch) /\ cortex' = cortex

WatchStep ==
  \/ watch' = watch
  \/ watch' = <<>>
  \/ watch # <<>> /\ watch' = Tail(watch)
  \/ watch' = Append(watch, cortex')

WorkStep(c) ==
  \/ work'[c] = Idle
  \/ work'[c] = work[c]
  \/ Busy(c) /\ work'[c].copy = work[c].copy
  \/ /\ work'[c].copy = cache
     /\ cache.alive
     /\ PlanOf(c).gate \subseteq cache.status
  \/ /\ Busy(c)
     /\ work'[c].copy = cortex'
     /\ StatusAccepted(c)
     /\ cortex' = Written(c)

ChildStep(i) ==
  \/ i \in DOMAIN children /\ children'[i].owner \in {children[i].owner, 0}
  \/ /\ cortex' = cortex
     /\ \E c \in Controllers : /\ Busy(c)
                               /\ i = Target(c)
                               /\ children'[i].owner = work[c].copy.uid

StepShape ==
  /\ CortexStep
  /\ CacheStep
  /\ WatchStep
  /\ \A c \in Controllers : WorkStep(c)
  /\ \A i \in DOMAIN children' : ChildStep(i)

(* A create or an update changes the children as StepShape allows: only a  *)
(* create gives a child an owner, the worker's Cortex.                     *)
LEMMA WriteStep ==
  ASSUME TypeOK, NEW c \in Controllers, At(c, "apply"),
         CreateChild(c) \/ UpdateChild(c)
  PROVE  /\ UNCHANGED <<cortex, watch>>
         /\ \A i \in DOMAIN children' : ChildStep(i)
<1>1. Busy(c)
  BY DEF At, Busy
<1>2. CASE CreateChild(c)
  <2>1. children' = Put(children, Target(c),
                        [owner |-> work[c].copy.uid, data |-> Object(c)])
    BY <1>2 DEF CreateChild
  <2>2. ASSUME NEW i \in DOMAIN children'
        PROVE  \/ i = Target(c) /\ children'[i].owner = work[c].copy.uid
               \/ i \in DOMAIN children /\ children'[i] = children[i]
    BY <2>1 DEF Put
  <2> QED
    BY <1>1, <1>2, <2>2 DEF CreateChild, ChildStep
<1>3. CASE UpdateChild(c)
  <2>1. children' = [children EXCEPT ![Target(c)].data = Object(c)]
    BY <1>3 DEF UpdateChild
  <2>2. DOMAIN children' = DOMAIN children
    BY <2>1
  <2>3. ASSUME NEW i \in DOMAIN children
        PROVE  children'[i].owner = children[i].owner
    <3>1. CASE i = Target(c)
      <4>1. children'[i] = [children[i] EXCEPT !.data = Object(c)]
        BY <2>1, <3>1, <2>3
      <4>2. children[i] = [owner |-> children[i].owner,
                           data |-> children[i].data]
        BY <2>3 DEF TypeOK, ChildMap
      <4> QED
        BY <4>1, <4>2
    <3>2. CASE i # Target(c)
      BY <2>1, <2>3, <3>2
    <3> QED
      BY <3>1, <3>2
  <2> QED
    BY <1>3, <2>2, <2>3 DEF UpdateChild, ChildStep
<1> QED
  BY <1>2, <1>3

(* A status write changes the Cortex and its watch as StepShape allows.    *)
LEMMA PublishStep ==
  ASSUME NEW c \in Controllers, At(c, "status"), PublishStatus(c)
  PROVE  /\ Busy(c) /\ StatusAccepted(c) /\ cortex' = Written(c)
         /\ CortexStep
         /\ WatchStep
         /\ UNCHANGED children
<1>1. Busy(c)
  BY DEF At, Busy
<1>2. StatusAccepted(c) /\ cortex' = Written(c) /\ WatchStep
  BY DEF PublishStatus, Store, WatchStep
<1> QED
  BY <1>1, <1>2 DEF CortexStep, PublishStatus

(* An error makes the worker idle.                                         *)
LEMMA FailStep ==
  ASSUME TypeOK, NEW c \in Controllers, Fails(c)
  PROVE  \A d \in Controllers : WorkStep(d)
BY DEF TypeOK, WorkMap, Fails, WorkStep

(* After a successful call the worker keeps its copy, or ends, or starts   *)
(* the next step with the version it has written.                          *)
LEMMA GoOnStep ==
  ASSUME TypeOK, NEW c \in Controllers, NEW phase, Busy(c), GoesOn(c, phase)
  PROVE  \A d \in Controllers : WorkStep(d)
<1>1. work' = [work EXCEPT ![c].phase = phase]
  BY DEF GoesOn
<1>2. work[c] \in [phase : {"idle", "apply", "status"}, step : Nat,
                   copy : Snapshots]
  BY DEF TypeOK, WorkMap, WorkRecord
<1>3. work'[c].copy = work[c].copy
  BY <1>1, <1>2 DEF TypeOK, WorkMap
<1>4. \A d \in Controllers : d # c => work'[d] = work[d]
  BY <1>1 DEF TypeOK, WorkMap
<1> QED
  BY <1>3, <1>4 DEF WorkStep

(* Every step of the operator, its user and its failures has that shape.   *)
LEMMA EveryStep == TypeOK /\ [Next]_vars => StepShape
<1> SUFFICES ASSUME TypeOK, [Next]_vars
             PROVE  StepShape
  OBVIOUS
<1> USE DEF apiVars, infVars, ctlVars
<1>a. ASSUME UNCHANGED children
      PROVE  \A i \in DOMAIN children' : ChildStep(i)
  BY <1>a DEF ChildStep
<1>b. ASSUME UNCHANGED work
      PROVE  \A c \in Controllers : WorkStep(c)
  BY <1>b DEF WorkStep
<1>c. ASSUME UNCHANGED apiVars
      PROVE  /\ CortexStep
             /\ WatchStep
             /\ \A i \in DOMAIN children' : ChildStep(i)
  BY <1>a, <1>c DEF CortexStep, WatchStep
<1>1. CASE CreateCortex
  <2>1. PICK spec \in Specs :
          Store([alive |-> TRUE, uid |-> cortex.uid + 1,
                 rv |-> cortex.rv + 1, spec |-> spec, status |-> {}])
    BY <1>1 DEF CreateCortex
  <2> QED
    BY <1>1, <1>a, <1>b, <2>1
       DEF CreateCortex, Store, StepShape, CortexStep, CacheStep, WatchStep
<1>2. CASE EditSpec
  <2>1. PICK spec \in Specs :
          Store([cortex EXCEPT !.spec = spec, !.rv = @ + 1])
    BY <1>2 DEF EditSpec
  <2>2. cortex.alive /\ UNCHANGED <<children, work, cache>>
    BY <1>2 DEF EditSpec
  <2>3. cortex' = [cortex EXCEPT !.spec = spec, !.rv = cortex.rv + 1]
    BY <2>1 DEF Store
  <2>4. /\ cortex'.alive = cortex.alive
        /\ cortex'.uid = cortex.uid
        /\ cortex'.rv = cortex.rv + 1
        /\ cortex'.status = cortex.status
    BY <2>3 DEF TypeOK, Snapshots
  <2>5. CortexStep
    BY <2>2, <2>4 DEF CortexStep
  <2>6. WatchStep
    BY <2>1 DEF Store, WatchStep
  <2> QED
    BY <1>a, <1>b, <2>2, <2>5, <2>6 DEF StepShape, CacheStep
<1>3. CASE DeleteCortex
  <2>1. PICK orphans \in SUBSET DOMAIN children :
          /\ Store(Gone(cortex.uid, cortex.rv + 1))
          /\ children' = [i \in DOMAIN children |->
                            [children[i] EXCEPT
                               !.owner = IF i \in orphans THEN 0 ELSE @]]
    BY <1>3 DEF DeleteCortex
  <2>2. cortex.alive /\ UNCHANGED <<work, cache>>
    BY <1>3 DEF DeleteCortex
  <2>3. ASSUME NEW i \in DOMAIN children
        PROVE  children'[i].owner \in {children[i].owner, 0}
    <3>1. children[i] = [owner |-> children[i].owner,
                         data |-> children[i].data]
      BY DEF TypeOK, ChildMap
    <3>2. children'[i] =
            [children[i] EXCEPT !.owner = IF i \in orphans THEN 0 ELSE @]
      BY <2>1
    <3> QED
      BY <3>1, <3>2
  <2>4. \A i \in DOMAIN children' : ChildStep(i)
    BY <2>1, <2>3 DEF ChildStep
  <2>5. CortexStep /\ WatchStep
    BY <2>1, <2>2 DEF Store, CortexStep, WatchStep
  <2> QED
    BY <1>b, <2>2, <2>4, <2>5 DEF StepShape, CacheStep
<1>4. CASE Deliver
  BY <1>4, <1>a, <1>b
     DEF Deliver, StepShape, CortexStep, CacheStep, WatchStep
<1>5. CASE Resync
  BY <1>5, <1>b, <1>c DEF Resync, StepShape, CacheStep
<1>6. ASSUME Crash \/ \E c \in Controllers : Panic(c)
      PROVE  StepShape
  <2>1. Restarted
    BY <1>6 DEF Crash, Panic
  <2>2. \A c \in Controllers : work'[c] = Idle
    BY <2>1 DEF Restarted
  <2> QED
    BY <1>a, <2>1, <2>2
       DEF Restarted, StepShape, CortexStep, CacheStep, WatchStep, WorkStep
<1>7. ASSUME NEW i \in Managed, Collect(i)
      PROVE  StepShape
  <2>1. \A j \in DOMAIN children' : ChildStep(j)
    BY <1>7 DEF Collect, Drop, ChildStep
  <2> QED
    BY <1>7, <1>b, <2>1
       DEF Collect, StepShape, CortexStep, CacheStep, WatchStep
<1>8. ASSUME NEW i \in Managed, SyncChild(i)
      PROVE  StepShape
  BY <1>8, <1>a, <1>b
     DEF SyncChild, StepShape, CortexStep, CacheStep, WatchStep
<1>9. ASSUME NEW c \in Controllers, TimerFires(c)
      PROVE  StepShape
  BY <1>9, <1>b, <1>c DEF TimerFires, StepShape, CacheStep
<1>10. ASSUME NEW c \in Controllers,
              StartAbsent(c) \/ StartBlocked(c) \/ StartUnbuildable(c)
       PROVE  StepShape
  BY <1>10, <1>b, <1>c
     DEF StartAbsent, StartBlocked, StartUnbuildable, StepShape, CacheStep
<1>11. ASSUME NEW c \in Controllers, Start(c)
       PROVE  StepShape
  <2>1. \A d \in Controllers : WorkStep(d)
    BY <1>11 DEF TypeOK, WorkMap, Start, GateOpen, WorkStep
  <2> QED
    BY <1>11, <1>c, <2>1 DEF Start, StepShape, CacheStep
<1>12. ASSUME NEW c \in Controllers, ApplyUnchanged(c)
       PROVE  StepShape
  <2>1. \A d \in Controllers : WorkStep(d)
    BY <1>12, GoOnStep DEF ApplyUnchanged, Sends, At, Busy
  <2> QED
    BY <1>12, <1>c, <2>1 DEF ApplyUnchanged, StepShape, CacheStep
<1>13. ASSUME NEW c \in Controllers, ApplyCreate(c) \/ ApplyUpdate(c)
       PROVE  StepShape
  <2>1. \A d \in Controllers : WorkStep(d)
    BY <1>13, GoOnStep DEF ApplyCreate, ApplyUpdate, Sends, At, Busy
  <2>2. /\ UNCHANGED <<cortex, watch>>
        /\ \A i \in DOMAIN children' : ChildStep(i)
    BY <1>13, WriteStep DEF ApplyCreate, ApplyUpdate, Sends
  <2> QED
    BY <1>13, <2>1, <2>2
       DEF ApplyCreate, ApplyUpdate, StepShape, CortexStep, CacheStep,
           WatchStep
<1>14. ASSUME NEW c \in Controllers,
              ApplyRefused(c) \/ StatusRefused(c) \/ Fault(c)
       PROVE  StepShape
  BY <1>14, <1>c, FailStep
     DEF ApplyRefused, StatusRefused, Fault, StepShape, CacheStep
<1>15. ASSUME NEW c \in Controllers, StatusUpdate(c)
       PROVE  StepShape
  <2>1. /\ Busy(c) /\ StatusAccepted(c) /\ cortex' = Written(c)
        /\ CortexStep /\ WatchStep /\ UNCHANGED <<children, cache>>
    BY <1>15, PublishStep DEF StatusUpdate
  <2>2. ASSUME NEW d \in Controllers
        PROVE  WorkStep(d)
    <3>1. CASE d # c
      BY <1>15, <3>1 DEF TypeOK, WorkMap, StatusUpdate, WorkStep
    <3>2. CASE d = c /\ work[c].step = Len(Steps(c))
      BY <1>15, <3>2 DEF TypeOK, WorkMap, StatusUpdate, WorkStep
    <3>3. CASE d = c /\ work[c].step # Len(Steps(c))
      <4>1. work'[c] = [phase |-> "apply", step |-> work[c].step + 1,
                        copy |-> Written(c)]
        BY <1>15, <3>3 DEF TypeOK, WorkMap, StatusUpdate
      <4> QED
        BY <2>1, <3>3, <4>1 DEF WorkStep
    <3> QED
      BY <3>1, <3>2, <3>3
  <2> QED
    BY <1>a, <2>1, <2>2 DEF StepShape, CacheStep
<1>16. ASSUME NEW c \in Controllers, LostReply(c)
       PROVE  StepShape
  <2>1. \A d \in Controllers : WorkStep(d)
    BY <1>16, FailStep DEF LostReply
  <2>2. CortexStep /\ WatchStep /\ \A i \in DOMAIN children' : ChildStep(i)
    BY <1>16, <1>a, WriteStep, PublishStep
       DEF LostReply, Sends, CortexStep, WatchStep
  <2> QED
    BY <1>16, <2>1, <2>2 DEF LostReply, StepShape, CacheStep
<1>17. CASE UNCHANGED vars
  BY <1>17, <1>b, <1>c DEF vars, StepShape, CacheStep
<1> QED
  BY <1>1, <1>2, <1>3, <1>4, <1>5, <1>6, <1>7, <1>8, <1>9, <1>10, <1>11,
     <1>12, <1>13, <1>14, <1>15, <1>16, <1>17 DEF Next, User, System, Works

----------------------------------------------------------------------------
(* The inductive invariant *)

(* An accepted status write starts from the present version: what it       *)
(* stores adds to the status.                                              *)
LEMMA AcceptedWrite ==
  ASSUME TypeOK, CopiesArePast, NEW c \in Controllers, StatusAccepted(c)
  PROVE  /\ work[c].copy = cortex
         /\ Written(c).alive = cortex.alive
         /\ Written(c).uid = cortex.uid
         /\ Written(c).status = Pending(c)
         /\ cortex.status \subseteq Pending(c)
         /\ Written(c) = cortex \/ Written(c).rv = cortex.rv + 1
<1>1. work[c].copy = cortex
  BY DEF StatusAccepted, CopiesArePast, PastOf
<1>2. cortex.status \subseteq Pending(c)
  BY <1>1 DEF Pending
<1>3. CASE Pending(c) = cortex.status
  BY <1>1, <1>2, <1>3 DEF Written
<1>4. CASE Pending(c) # cortex.status
  <2>1. Written(c) = [cortex EXCEPT !.status = Pending(c),
                                    !.rv = cortex.rv + 1]
    BY <1>4 DEF Written
  <2>2. cortex \in Snapshots
    BY DEF TypeOK
  <2> QED
    BY <1>1, <1>2, <2>1, <2>2 DEF Snapshots
<1> QED
  BY <1>3, <1>4

(* In one step the Cortex stays or evolves to a version that takes nothing *)
(* from the status of the same Cortex.                                     *)
LEMMA EveryStepEvolves ==
  TypeOK /\ CopiesArePast /\ StepShape => EvolvesTo(cortex, cortex')
<1> SUFFICES ASSUME TypeOK, CopiesArePast, StepShape
             PROVE  EvolvesTo(cortex, cortex')
  OBVIOUS
<1>1. cortex \in Snapshots
  BY DEF TypeOK
<1>2. ASSUME NEW c \in Controllers, StatusAccepted(c), cortex' = Written(c)
      PROVE  EvolvesTo(cortex, cortex')
  BY <1>1, <1>2, AcceptedWrite DEF EvolvesTo, Snapshots
<1>3. CASE cortex' = Gone(cortex.uid, cortex.rv + 1)
  BY <1>1, <1>3 DEF EvolvesTo, Gone, Snapshots
<1> QED
  BY <1>1, <1>2, <1>3 DEF StepShape, CortexStep, EvolvesTo, Snapshots

(* Every copy held after a step was held before it, or is the new version. *)
LEMMA CopiesStep ==
  TypeOK /\ TypeOK' /\ CopiesArePast /\ StepShape => CopiesArePast'
<1> SUFFICES ASSUME TypeOK, TypeOK', CopiesArePast, StepShape
             PROVE  CopiesArePast'
  OBVIOUS
<1>1. EvolvesTo(cortex, cortex') /\ {cortex, cortex'} \subseteq Snapshots
  BY EveryStepEvolves DEF TypeOK
<1>2. ASSUME NEW s \in Snapshots, PastOf(s, cortex)
      PROVE  PastOf(s, cortex')
  BY <1>1, <1>2, PastKept
<1>3. PastOf(cortex', cortex') /\ PastOf(cortex, cortex')
  BY <1>1, <1>2, PastOfItself
<1>4. PastOf(Gone(0, 0), cortex')
  <2>1. Gone(0, 0) \in Snapshots
    BY DEF Gone, Snapshots
  <2> QED
    BY <1>2, <2>1 DEF CopiesArePast
<1>5. ASSUME NEW k \in 1 .. Len(watch)
      PROVE  PastOf(watch[k], cortex')
  BY <1>2 DEF TypeOK, CopiesArePast
<1>6. PastOf(cache, cortex')
  BY <1>2 DEF TypeOK, CopiesArePast
<1>7. PastOf(cache', cortex')
  <2>1. CASE watch # <<>> /\ cache' = Head(watch)
    <3>1. 1 \in 1 .. Len(watch) /\ Head(watch) = watch[1]
      BY <2>1 DEF TypeOK
    <3> QED
      BY <1>5, <2>1, <3>1
  <2> QED
    BY <1>3, <1>6, <2>1 DEF StepShape, CacheStep
<1>8. ASSUME NEW k \in 1 .. Len(watch')
      PROVE  PastOf(watch'[k], cortex')
  <2>1. CASE watch' = watch
    BY <1>5, <1>8, <2>1
  <2>2. CASE watch' = <<>>
    BY <1>8, <2>2
  <2>3. CASE watch # <<>> /\ watch' = Tail(watch)
    <3>1. k + 1 \in 1 .. Len(watch) /\ watch'[k] = watch[k + 1]
      BY <1>8, <2>3 DEF TypeOK
    <3> QED
      BY <1>5, <3>1
  <2>4. CASE watch' = Append(watch, cortex')
    <3>1. \/ k \in 1 .. Len(watch) /\ watch'[k] = watch[k]
          \/ watch'[k] = cortex'
      BY <1>8, <2>4 DEF TypeOK
    <3> QED
      BY <1>3, <1>5, <3>1
  <2> QED
    BY <2>1, <2>2, <2>3, <2>4 DEF StepShape, WatchStep
<1>9. ASSUME NEW c \in Controllers
      PROVE  PastOf(work'[c].copy, cortex')
  <2>1. work[c].copy \in Snapshots /\ PastOf(work[c].copy, cortex)
    BY DEF TypeOK, WorkMap, WorkRecord, CopiesArePast
  <2>2. PastOf(work[c].copy, cortex')
    BY <1>2, <2>1
  <2>3. Idle.copy = Gone(0, 0)
    BY DEF Idle
  <2>4. WorkStep(c)
    BY DEF StepShape
  <2> QED
    BY <1>3, <1>4, <1>6, <2>2, <2>3, <2>4 DEF WorkStep
<1> QED
  BY <1>4, <1>7, <1>8, <1>9 DEF CopiesArePast, Gone

(* Workers stay entitled: a worker starts behind an open gate, and the     *)
(* status it holds only grows.                                             *)
LEMMA BusyStep ==
  TypeOK /\ CopiesArePast /\ BusyIsEntitled /\ StepShape => BusyIsEntitled'
<1> SUFFICES ASSUME TypeOK, CopiesArePast, BusyIsEntitled, StepShape,
                    NEW c \in Controllers, Busy(c)'
             PROVE  /\ work'[c].copy.alive
                    /\ PlanOf(c).gate \subseteq work'[c].copy.status
  BY DEF BusyIsEntitled
<1>1. CASE work'[c] = Idle
  BY <1>1 DEF Busy, Idle
<1>2. CASE work'[c] = work[c] \/ (Busy(c) /\ work'[c].copy = work[c].copy)
  BY <1>2 DEF Busy, BusyIsEntitled
<1>3. CASE /\ work'[c].copy = cache
           /\ cache.alive
           /\ PlanOf(c).gate \subseteq cache.status
  BY <1>3
<1>4. CASE /\ Busy(c)
           /\ work'[c].copy = cortex'
           /\ StatusAccepted(c)
           /\ cortex' = Written(c)
  <2>1. work[c].copy.alive /\ PlanOf(c).gate \subseteq work[c].copy.status
    BY <1>4 DEF BusyIsEntitled
  <2> QED
    BY <1>4, <2>1, AcceptedWrite
<1>5. WorkStep(c)
  BY DEF StepShape
<1> QED
  BY <1>1, <1>2, <1>3, <1>4, <1>5, Zenon DEF WorkStep

(* Owners stay known: a created child belongs to the Cortex its worker     *)
(* read, which exists or has existed.                                      *)
LEMMA OwnersStep ==
  TypeOK /\ TypeOK' /\ CopiesArePast /\ OwnersAreKnown /\ StepShape
    => OwnersAreKnown'
<1> SUFFICES ASSUME TypeOK, TypeOK', CopiesArePast, OwnersAreKnown, StepShape
             PROVE  OwnersAreKnown'
  OBVIOUS
<1>1. cortex.uid \in Nat /\ cortex'.uid \in Nat /\ cortex.uid <= cortex'.uid
  <2>1. cortex \in Snapshots /\ cortex' \in Snapshots
    BY DEF TypeOK
  <2>2. cortex.uid \in Nat /\ cortex'.uid \in Nat
    BY <2>1 DEF Snapshots
  <2>3. EvolvesTo(cortex, cortex')
    BY EveryStepEvolves
  <2> QED
    BY <2>2, <2>3 DEF EvolvesTo
<1>2. cortex'.alive => cortex'.uid # 0
  <2>1. ASSUME NEW c \in Controllers, StatusAccepted(c), cortex' = Written(c)
        PROVE  cortex'.alive => cortex'.uid # 0
    BY <2>1, AcceptedWrite DEF OwnersAreKnown
  <2> QED
    BY <1>1, <2>1 DEF StepShape, CortexStep, OwnersAreKnown, Gone
<1>3. ASSUME NEW i \in DOMAIN children'
      PROVE  children'[i].owner <= cortex'.uid
  <2>1. ChildStep(i)
    BY DEF StepShape
  <2>2. CASE /\ i \in DOMAIN children
             /\ children'[i].owner \in {children[i].owner, 0}
    <3>1. children[i].owner <= cortex.uid /\ children[i].owner \in Nat
      BY <2>2 DEF OwnersAreKnown, TypeOK, ChildMap
    <3> QED
      BY <1>1, <2>2, <3>1
  <2>3. ASSUME NEW c \in Controllers, children'[i].owner = work[c].copy.uid
        PROVE  children'[i].owner <= cortex'.uid
    <3>1. work[c].copy.uid <= cortex.uid /\ work[c].copy.uid \in Nat
      BY DEF CopiesArePast, PastOf, TypeOK, WorkMap, WorkRecord, Snapshots
    <3> QED
      BY <1>1, <2>3, <3>1
  <2> QED
    BY <2>1, <2>2, <2>3 DEF ChildStep
<1> QED
  BY <1>2, <1>3 DEF OwnersAreKnown

(* A child of the living Cortex was its child before, or is created by a   *)
(* worker whose gate, open on its copy, is open on the API server.         *)
LEMMA GateStep ==
  TypeOK /\ RolloutInvariant /\ StepShape => GateRespected'
<1> SUFFICES ASSUME TypeOK, RolloutInvariant, StepShape,
                    NEW i \in DOMAIN children',
                    cortex'.alive, children'[i].owner = cortex'.uid
             PROVE  DependsOn(i[2]) \subseteq cortex'.status
  BY DEF GateRespected
<1> USE DEF RolloutInvariant
<1>1. EvolvesTo(cortex, cortex') /\ cortex \in Snapshots
  BY EveryStepEvolves DEF TypeOK
<1>2. ChildStep(i)
  BY DEF StepShape
<1>3. CASE i \in DOMAIN children /\ children'[i].owner = children[i].owner
  <2>1. children[i].owner <= cortex.uid /\ children[i].owner \in Nat
    BY <1>3 DEF OwnersAreKnown, TypeOK, ChildMap
  <2>2. cortex'.uid = cortex.uid
    <3>1. cortex'.uid = children[i].owner
      BY <1>3
    <3>2. cortex.uid <= cortex'.uid /\ cortex.uid \in Nat
      BY <1>1 DEF EvolvesTo, Snapshots
    <3> QED
      BY <2>1, <3>1, <3>2
  <2>3. cortex.alive /\ cortex.status \subseteq cortex'.status
    BY <1>1, <2>2 DEF EvolvesTo
  <2>4. DependsOn(i[2]) \subseteq cortex.status
    BY <1>3, <2>2, <2>3 DEF GateRespected
  <2> QED
    BY <2>3, <2>4
<1>4. CASE i \in DOMAIN children /\ children'[i].owner = 0
  <2>1. OwnersAreKnown /\ cortex.uid \in Nat
    BY <1>1 DEF Snapshots
  <2>2. cortex'.uid = 0
    BY <1>4
  <2>3. cortex'.uid = cortex.uid /\ cortex.alive
    BY <1>1, <2>1, <2>2 DEF EvolvesTo, Snapshots
  <2> QED
    BY <2>1, <2>2, <2>3 DEF OwnersAreKnown
<1>5. ASSUME cortex' = cortex, NEW c \in Controllers, Busy(c), i = Target(c),
             children'[i].owner = work[c].copy.uid
      PROVE  DependsOn(i[2]) \subseteq cortex'.status
  <2>1. work[c].copy.alive /\ PlanOf(c).gate \subseteq work[c].copy.status
    BY <1>5 DEF BusyIsEntitled
  <2>2. work[c].copy.status \subseteq cortex.status
    BY <1>5, <2>1 DEF CopiesArePast, PastOf
  <2>3. WorkRecord(c, work[c])
    BY DEF TypeOK, WorkMap
  <2>4. DependsOn(Target(c)[2]) \subseteq PlanOf(c).gate
    BY <2>3, PlansSound DEF PlanSound, WorkRecord, Target, Step, Steps
  <2> QED
    BY <1>5, <2>1, <2>2, <2>4
<1> QED
  BY <1>2, <1>3, <1>4, <1>5 DEF ChildStep

(* It holds when nothing exists.                                           *)
LEMMA InitRollout == Init => RolloutInvariant
<1> SUFFICES ASSUME Init
             PROVE  RolloutInvariant
  OBVIOUS
<1>1. Gone(0, 0) \in Snapshots
  BY DEF Gone, Snapshots
<1>2. PastOf(Gone(0, 0), Gone(0, 0))
  BY <1>1, PastOfItself
<1>3. CopiesArePast
  BY <1>2 DEF Init, CopiesArePast, Idle
<1>4. BusyIsEntitled
  BY DEF Init, BusyIsEntitled, Busy, Idle
<1>5. OwnersAreKnown /\ GateRespected
  BY DEF Init, OwnersAreKnown, GateRespected, Gone
<1> QED
  BY <1>3, <1>4, <1>5 DEF RolloutInvariant

(* Whatever has the shape of a step keeps it.                              *)
LEMMA RolloutStep ==
  TypeOK /\ TypeOK' /\ RolloutInvariant /\ StepShape => RolloutInvariant'
<1> SUFFICES ASSUME TypeOK, TypeOK', RolloutInvariant, StepShape
             PROVE  RolloutInvariant'
  OBVIOUS
<1>1. CopiesArePast'
  BY CopiesStep DEF RolloutInvariant
<1>2. BusyIsEntitled'
  BY BusyStep DEF RolloutInvariant
<1>3. OwnersAreKnown'
  BY OwnersStep DEF RolloutInvariant
<1>4. GateRespected'
  BY GateStep
<1> QED
  BY <1>1, <1>2, <1>3, <1>4 DEF RolloutInvariant

(* RolloutInvariant holds in every reachable state.                        *)
THEOREM RolloutInvariantHolds == Spec => []RolloutInvariant
BY InitRollout, RolloutStep, EveryStep, TypeCorrect, PTL DEF Spec

(* No child of the living Cortex exists before what it depends on has been *)
(* published.                                                              *)
THEOREM GateRespectedHolds == Spec => []GateRespected
<1>1. RolloutInvariant => GateRespected
  BY DEF RolloutInvariant
<1> QED
  BY <1>1, RolloutInvariantHolds, PTL

(* No reference is lost while its Cortex lives.                            *)
THEOREM RefsNeverLostHolds == Spec => RefsNeverLost
<1>1. TypeOK /\ RolloutInvariant /\ [Next]_vars =>
        [cortex.alive /\ cortex'.alive /\ cortex'.uid = cortex.uid
           => cortex.status \subseteq cortex'.status]_vars
  <2> SUFFICES ASSUME TypeOK, RolloutInvariant, [Next]_vars,
                      cortex'.uid = cortex.uid, cortex'.alive
               PROVE  cortex.status \subseteq cortex'.status
    OBVIOUS
  <2>1. EvolvesTo(cortex, cortex')
    BY EveryStep, EveryStepEvolves DEF RolloutInvariant
  <2> QED
    BY <2>1 DEF EvolvesTo
<1> QED
  BY <1>1, TypeCorrect, RolloutInvariantHolds, PTL DEF Spec, RefsNeverLost

----------------------------------------------------------------------------
(* The operator implements the abstract roll-out *)

(* An accepted status write is a Publish of the abstract roll-out, or      *)
(* changes nothing there: what it adds depends only on the gate.           *)
LEMMA PublishImplements ==
  ASSUME TypeOK, RolloutInvariant, NEW c \in Controllers, Busy(c),
         StatusAccepted(c), cortex' = Written(c)
  PROVE  Promise!Publish
<1>1. /\ work[c].copy = cortex
      /\ cortex'.alive = cortex.alive
      /\ cortex'.uid = cortex.uid
      /\ cortex'.status = Pending(c)
      /\ cortex.status \subseteq Pending(c)
  BY AcceptedWrite DEF RolloutInvariant
<1>2. PlanOf(c).gate \subseteq cortex.status
  BY <1>1 DEF RolloutInvariant, BusyIsEntitled
<1>3. Pending(c) \subseteq Refs
  BY StepFacts
<1>4. WorkRecord(c, work[c])
  BY DEF TypeOK, WorkMap
<1>5. ASSUME NEW r \in Pending(c) \ cortex.status
      PROVE  DependsOn(r) \subseteq cortex.status
  <2>1. r \in PlanOf(c).opens \cup Step(c).refs
    BY <1>1 DEF Pending
  <2>2. DependsOn(r) \subseteq PlanOf(c).gate
    BY <1>4, <2>1, PlansSound DEF PlanSound, WorkRecord, Step, Steps
  <2> QED
    BY <1>2, <2>2
<1>6. cortex.alive
  BY DEF StatusAccepted
<1> QED
  BY <1>1, <1>3, <1>5, <1>6 DEF Promise!Publish

(* Every step of the operator is a step of the roll-out or a stutter.      *)
LEMMA StepImplements ==
  TypeOK /\ TypeOK' /\ RolloutInvariant /\ StepShape
    => [Promise!Next]_<<cortex.alive, cortex.uid, cortex.status>>
<1> SUFFICES ASSUME TypeOK, TypeOK', RolloutInvariant, StepShape
             PROVE  [Promise!Next]_<<cortex.alive, cortex.uid, cortex.status>>
  OBVIOUS
<1>1. CortexStep
  BY DEF StepShape
<1>2. cortex \in Snapshots
  BY DEF TypeOK
<1>3. CASE \E c \in Controllers :
             Busy(c) /\ StatusAccepted(c) /\ cortex' = Written(c)
  BY <1>3, PublishImplements DEF Promise!Next
<1>4. CASE cortex.alive /\ cortex' = Gone(cortex.uid, cortex.rv + 1)
  BY <1>4 DEF Promise!Next, Promise!Delete, Gone
<1>5. CASE /\ ~cortex.alive
           /\ cortex'.alive
           /\ cortex'.uid = cortex.uid + 1
           /\ cortex'.status = {}
  <2>1. cortex.alive \in BOOLEAN /\ cortex'.alive \in BOOLEAN
    BY DEF TypeOK, Snapshots
  <2> QED
    BY <1>5, <2>1 DEF Promise!Next, Promise!Create
<1>6. CASE /\ cortex.alive
           /\ cortex'.alive
           /\ cortex'.uid = cortex.uid
           /\ cortex'.status = cortex.status
  <2>1. cortex.alive \in BOOLEAN /\ cortex'.alive \in BOOLEAN
    BY DEF TypeOK, Snapshots
  <2> QED
    BY <1>6, <2>1
<1> QED
  BY <1>1, <1>3, <1>4, <1>5, <1>6 DEF CortexStep

(* Whatever the operator, the user and the failures do, the status evolves *)
(* as the abstract roll-out allows.                                        *)
THEOREM RolloutImplemented == Spec => ImplementsRollout
<1>1. Init => Promise!Init
  BY DEF Init, Promise!Init, Gone
<1> QED
  BY <1>1, StepImplements, EveryStep, TypeCorrect, RolloutInvariantHolds, PTL
     DEF Spec, ImplementsRollout, Promise!Spec
=============================================================================
