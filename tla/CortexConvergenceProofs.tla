---------------------- MODULE CortexConvergenceProofs ----------------------
(***************************************************************************)
(* Proof of the invariant behind convergence, for every set of             *)
(* controllers, specs, edits and bounds.                                   *)
(***************************************************************************)
EXTENDS CortexPlanProofs, SequenceTheorems

----------------------------------------------------------------------------
(* The last element of a sequence *)

LEMMA LastOfAppend ==
  ASSUME NEW S, NEW q \in Seq(S), NEW e
  PROVE  /\ Append(q, e) # <<>>
         /\ Append(q, e)[Len(Append(q, e))] = e
<1>1. Len(Append(q, e)) = Len(q) + 1 /\ Len(q) \in Nat
  OBVIOUS
<1>2. Append(q, e)[Len(q) + 1] = e
  OBVIOUS
<1> QED
  BY <1>1, <1>2

LEMMA LastOfTail ==
  ASSUME NEW S, NEW q \in Seq(S), q # <<>>
  PROVE  /\ Tail(q) = <<>> => q[Len(q)] = Head(q)
         /\ Tail(q) # <<>> => Tail(q)[Len(Tail(q))] = q[Len(q)]
<1>1. /\ Len(q) \in Nat \ {0}
      /\ Tail(q) \in Seq(S)
      /\ Len(Tail(q)) = Len(q) - 1
      /\ \A k \in 1 .. Len(Tail(q)) : Tail(q)[k] = q[k + 1]
  BY EmptySeq, HeadTailProperties
<1>2. CASE Tail(q) = <<>>
  <2>1. Len(q) = 1
    <3>1. Len(<<>>) = 0
      BY EmptySeq, Zenon
    <3>2. Len(Tail(q)) = 0
      BY <1>2, <3>1, Zenon
    <3> DEFINE m == Len(Tail(q))
               n == Len(q)
    <3>3. n \in Nat /\ m = n - 1 /\ m = 0
      BY <1>1, <3>2
    <3> HIDE DEF m, n
    <3>4. n = 1
      BY <3>3
    <3> QED
      BY <3>4 DEF n
  <2> QED
    BY <1>2, <2>1
<1>3. CASE Tail(q) # <<>>
  <2>1. Len(Tail(q)) \in 1 .. Len(Tail(q))
    BY <1>1, <1>3, EmptySeq
  <2>2. Tail(q)[Len(Tail(q))] = q[Len(Tail(q)) + 1]
    BY <1>1, <2>1
  <2> QED
    BY <1>1, <1>3, <2>2
<1> QED
  BY <1>2, <1>3

----------------------------------------------------------------------------
(* The order of the specs *)

LEMMA LaterIsReflexive ==
  ASSUME NEW a \in Specs
  PROVE  <<a, a>> \in Later
BY DEF Later

LEMMA LaterIsTransitive ==
  ASSUME NEW a, NEW b, NEW c, <<a, b>> \in Later, <<b, c>> \in Later
  PROVE  <<a, c>> \in Later
<1>1. a \in Specs /\ b \in Specs /\ c \in Specs
  BY DEF Later
<1>2. ASSUME NEW S \in SUBSET Specs,
             \A e \in Edits : e[1] \in S => e[2] \in S, a \in S
      PROVE  c \in S
  <2>1. b \in S
    BY <1>2 DEF Later
  <2> QED
    BY <1>2, <2>1 DEF Later
<1> QED
  BY <1>1, <1>2 DEF Later

LEMMA LaterHasEdits ==
  ASSUME NEW a, NEW b, <<a, b>> \in Edits
  PROVE  <<a, b>> \in Later
<1>1. <<a, b>> \in Specs \X Specs
  BY SpecsAssumption
<1>2. ASSUME NEW S \in SUBSET Specs,
             \A e \in Edits : e[1] \in S => e[2] \in S, a \in S
      PROVE  b \in S
  BY <1>2
<1> QED
  BY <1>1, <1>2 DEF Later

(* Whatever is kept by every edit is kept along any sequence of edits.     *)
LEMMA LaterKeeps ==
  ASSUME NEW S \in SUBSET Specs, \A e \in Edits : e[1] \in S => e[2] \in S,
         NEW a \in S, NEW b, <<a, b>> \in Later
  PROVE  b \in S
BY DEF Later

(* Precedes is an order of the versions of a Cortex.                       *)
LEMMA PrecedesIsTransitive ==
  ASSUME NEW s, NEW t, NEW u, Precedes(s, t), Precedes(t, u)
  PROVE  Precedes(s, u)
BY LaterIsTransitive DEF Precedes

----------------------------------------------------------------------------
(* The kinds of step before the first deletion *)

UserStep ==
  /\ watch' = Append(watch, cortex')
  /\ cortex'.alive
  /\ cortex'.spec \in Specs
  /\ \/ ~cortex.alive /\ cortex'.status = {}
     \/ /\ cortex.alive
        /\ <<cortex.spec, cortex'.spec>> \in Edits
        /\ cortex'.status = cortex.status
  /\ UNCHANGED <<children, infVars, ctlVars>>

(* A request is dropped only by a controller that finds no Cortex or its   *)
(* gate closed.                                                            *)
WaitStep ==
  /\ UNCHANGED <<cortex, watch, children, infVars, work>>
  /\ \A c \in Controllers :
       \/ c \in queue \cup backoff => c \in queue' \cup backoff'
       \/ ~Busy(c) /\ (cache.alive => ~GateOpen(c))

ApplyStep(c) ==
  /\ At(c, "apply")
  /\ \/ UNCHANGED children /\ UpToDate(c)
     \/ CreateChild(c)
     \/ UpdateChild(c)
  /\ GoesOn(c, "status") \/ Fails(c)
  /\ UNCHANGED <<cortex, watch, infVars>>

StatusStep(c) ==
  /\ At(c, "status")
  /\ PublishStatus(c)
  /\ \/ Fails(c)
     \/ /\ UNCHANGED <<queue, backoff>>
        /\ work' = IF work[c].step = Len(Steps(c))
                     THEN [work EXCEPT ![c] = Idle]
                     ELSE [work EXCEPT ![c] = [phase |-> "apply",
                                               step  |-> @.step + 1,
                                               copy  |-> Written(c)]]
  /\ UNCHANGED infVars

ErrorStep(c) == Fails(c) /\ UNCHANGED <<cortex, watch, children, infVars>>

WorkerStep(c) ==
  Start(c) \/ ApplyStep(c) \/ StatusStep(c) \/ ErrorStep(c)

KindOfStep ==
  \/ UserStep
  \/ Deliver
  \/ Restarted
  \/ WaitStep
  \/ \E i \in Managed : SyncChild(i)
  \/ \E c \in Controllers : WorkerStep(c)

(* A Cortex that has not been deleted after a step had not been before.    *)
LEMMA UndeletedBefore ==
  TypeOK /\ RolloutInvariant /\ StepShape /\ Undeleted' => Undeleted
<1> SUFFICES ASSUME TypeOK, RolloutInvariant, StepShape, Undeleted'
             PROVE  Undeleted
  OBVIOUS
<1>1. EvolvesTo(cortex, cortex') /\ cortex.uid \in Nat
  BY EveryStepEvolves DEF RolloutInvariant, TypeOK, Snapshots
<1>2. CASE cortex' = cortex
  BY <1>2 DEF Undeleted
<1>3. CASE /\ cortex.uid <= cortex'.uid
           /\ cortex'.alive /\ cortex'.uid = cortex.uid => cortex.alive
  BY <1>1, <1>3 DEF Undeleted
<1> QED
  BY <1>1, <1>2, <1>3 DEF EvolvesTo

(* Then no step deletes the Cortex, and nothing is garbage.                *)
LEMMA NothingIsGarbage ==
  ASSUME TypeOK, RolloutInvariant, Undeleted
  PROVE  /\ \A i \in DOMAIN children : ~Garbage(i)
         /\ cortex.alive => cortex.uid # 0
<1>1. cortex.alive => cortex.uid # 0
  BY DEF RolloutInvariant, OwnersAreKnown
<1>2. ASSUME NEW i \in DOMAIN children, Garbage(i)
      PROVE  FALSE
  <2>1. /\ children[i].owner \in Nat /\ children[i].owner # 0
        /\ children[i].owner <= cortex.uid
    BY <1>2 DEF TypeOK, ChildMap, RolloutInvariant, OwnersAreKnown, Garbage
  <2>2. cortex.uid = 1 /\ cortex.alive
    BY <2>1 DEF Undeleted
  <2> QED
    BY <1>2, <2>1, <2>2 DEF Garbage
<1> QED
  BY <1>1, <1>2

(* Nor is it deleted by the step, if it has not been after it.             *)
LEMMA StillUndeleted ==
  ASSUME TypeOK, RolloutInvariant, Undeleted, Undeleted'
  PROVE  ~DeleteCortex
<1> SUFFICES ASSUME DeleteCortex
             PROVE  FALSE
  OBVIOUS
<1>1. cortex.alive /\ cortex' = Gone(cortex.uid, cortex.rv + 1)
  BY DEF DeleteCortex, Store
<1>2. cortex.uid # 0
  BY <1>1, NothingIsGarbage
<1> QED
  BY <1>1, <1>2 DEF Undeleted, Gone

(* Every step before the first deletion is of one of these kinds.          *)
LEMMA EveryKind ==
  ASSUME TypeOK, RolloutInvariant, [Next]_vars, Undeleted, ~DeleteCortex
  PROVE  KindOfStep
<1> USE DEF apiVars, infVars, ctlVars
<1>1. CASE CreateCortex
  <2>1. PICK spec \in Specs :
          /\ ~cortex.alive
          /\ Store([alive |-> TRUE, uid |-> cortex.uid + 1,
                    rv |-> cortex.rv + 1, spec |-> spec, status |-> {}])
    BY <1>1 DEF CreateCortex
  <2> QED
    BY <1>1, <2>1 DEF CreateCortex, Store, UserStep, KindOfStep
<1>2. CASE EditSpec
  <2>1. PICK spec \in Specs :
          /\ cortex.alive
          /\ <<cortex.spec, spec>> \in Edits
          /\ Store([cortex EXCEPT !.spec = spec, !.rv = @ + 1])
    BY <1>2 DEF EditSpec
  <2>2. cortex' = [cortex EXCEPT !.spec = spec, !.rv = cortex.rv + 1]
    BY <2>1 DEF Store
  <2>3. /\ cortex'.alive = cortex.alive
        /\ cortex'.spec = spec
        /\ cortex'.status = cortex.status
    BY <2>2 DEF TypeOK, Snapshots
  <2> QED
    BY <1>2, <2>1, <2>3 DEF EditSpec, Store, UserStep, KindOfStep
<1>4. CASE Deliver
  BY <1>4 DEF KindOfStep
<1>5. CASE Resync
  <2>1. WaitStep
    BY <1>5 DEF Resync, WaitStep
  <2> QED
    BY <2>1 DEF KindOfStep
<1>6. ASSUME Crash \/ \E c \in Controllers : Panic(c)
      PROVE  KindOfStep
  BY <1>6 DEF Crash, Panic, KindOfStep
<1>7. ASSUME NEW i \in Managed, Collect(i)
      PROVE  KindOfStep
  BY <1>7, NothingIsGarbage DEF Collect
<1>8. ASSUME NEW i \in Managed, SyncChild(i)
      PROVE  KindOfStep
  BY <1>8 DEF KindOfStep
<1>9. ASSUME NEW c \in Controllers, TimerFires(c)
      PROVE  KindOfStep
  <2>1. WaitStep
    BY <1>9 DEF TimerFires, WaitStep
  <2> QED
    BY <2>1 DEF KindOfStep
<1>10. ASSUME NEW c \in Controllers, StartAbsent(c) \/ StartBlocked(c)
       PROVE  KindOfStep
  <2>1. /\ ~Busy(c) /\ (cache.alive => ~GateOpen(c))
        /\ queue' = queue \ {c}
        /\ backoff \subseteq backoff'
        /\ UNCHANGED <<cortex, watch, children, infVars, work>>
    BY <1>10 DEF StartAbsent, StartBlocked, Takes
  <2>2. WaitStep
    BY <2>1 DEF WaitStep
  <2> QED
    BY <2>2 DEF KindOfStep
<1>11. ASSUME NEW c \in Controllers, StartUnbuildable(c)
       PROVE  KindOfStep
  <2>1. WaitStep
    BY <1>11 DEF StartUnbuildable, Takes, WaitStep
  <2> QED
    BY <2>1 DEF KindOfStep
<1>12. ASSUME NEW c \in Controllers, Start(c)
       PROVE  KindOfStep
  BY <1>12 DEF WorkerStep, KindOfStep
<1>13. ASSUME NEW c \in Controllers,
              ApplyUnchanged(c) \/ ApplyCreate(c) \/ ApplyUpdate(c)
       PROVE  KindOfStep
  <2>1. ApplyStep(c)
    BY <1>13 DEF ApplyUnchanged, ApplyCreate, ApplyUpdate, Sends, CreateChild,
                 UpdateChild, ApplyStep
  <2> QED
    BY <2>1 DEF WorkerStep, KindOfStep
<1>14. ASSUME NEW c \in Controllers,
              ApplyRefused(c) \/ StatusRefused(c) \/ Fault(c)
       PROVE  KindOfStep
  <2>1. ErrorStep(c)
    BY <1>14 DEF ApplyRefused, StatusRefused, Fault, ErrorStep
  <2> QED
    BY <2>1 DEF WorkerStep, KindOfStep
<1>15. ASSUME NEW c \in Controllers, StatusUpdate(c)
       PROVE  KindOfStep
  <2>1. StatusStep(c)
    BY <1>15 DEF StatusUpdate, StatusStep
  <2> QED
    BY <2>1 DEF WorkerStep, KindOfStep
<1>16. ASSUME NEW c \in Controllers, LostReply(c)
       PROVE  KindOfStep
  <2>1. CASE At(c, "apply") /\ (CreateChild(c) \/ UpdateChild(c))
    <3>1. ApplyStep(c)
      BY <1>16, <2>1 DEF LostReply, CreateChild, UpdateChild, ApplyStep
    <3> QED
      BY <3>1 DEF WorkerStep, KindOfStep
  <2>2. CASE At(c, "status") /\ PublishStatus(c)
    <3>1. StatusStep(c)
      BY <1>16, <2>2 DEF LostReply, StatusStep
    <3> QED
      BY <3>1 DEF WorkerStep, KindOfStep
  <2> QED
    BY <1>16, <2>1, <2>2 DEF LostReply, Sends
<1>17. CASE UNCHANGED vars
  <2>1. WaitStep
    BY <1>17 DEF vars, WaitStep
  <2> QED
    BY <2>1 DEF KindOfStep
<1> QED
  BY <1>1, <1>2, <1>4, <1>5, <1>6, <1>7, <1>8, <1>9, <1>10, <1>11,
     <1>12, <1>13, <1>14, <1>15, <1>16, <1>17 DEF Next, User, System, Works

----------------------------------------------------------------------------
(* What a step does to the workers, the Cortex and the children *)

(* After a step a busy worker is as it was, or has just started, or is     *)
(* past a write, or past a status update.                                  *)
BusyAfter(c) ==
  \/ work'[c] = work[c]
  \/ Start(c) /\ work'[c] = [phase |-> "apply", step |-> 1, copy |-> cache]
  \/ /\ ApplyStep(c)
     /\ work'[c] = [phase |-> "status", step |-> work[c].step,
                    copy |-> work[c].copy]
  \/ /\ StatusStep(c)
     /\ work'[c] = [phase |-> "apply", step |-> work[c].step + 1,
                    copy |-> Written(c)]

LEMMA WorkerEffect ==
  ASSUME TypeOK, KindOfStep, NEW c \in Controllers, Busy(c)'
  PROVE  BusyAfter(c)
<1> USE DEF apiVars, infVars, ctlVars
<1>1. /\ work = [d \in Controllers |-> work[d]]
      /\ work[c] \in [phase : {"idle", "apply", "status"}, step : Nat,
                      copy : Snapshots]
  BY DEF TypeOK, WorkMap, WorkRecord
<1>2. CASE UNCHANGED work
  BY <1>2 DEF BusyAfter
<1>3. CASE Restarted
  BY <1>3 DEF Restarted, Busy, Idle
<1>4. ASSUME NEW d \in Controllers, d # c, WorkerStep(d)
      PROVE  work'[c] = work[c]
  BY <1>1, <1>4 DEF WorkerStep, Start, ApplyStep, StatusStep, ErrorStep,
                    GoesOn, Fails
<1>5. ASSUME Fails(c)
      PROVE  ~Busy(c)'
  BY <1>1, <1>5 DEF Fails, Busy, Idle
<1>6. CASE Start(c)
  BY <1>1, <1>6 DEF Start, BusyAfter
<1>7. CASE ApplyStep(c)
  <2>1. work' = [work EXCEPT ![c].phase = "status"]
    BY <1>5, <1>7 DEF ApplyStep, GoesOn
  <2> QED
    BY <1>1, <1>7, <2>1 DEF BusyAfter
<1>8. CASE StatusStep(c)
  <2>1. CASE work' = [work EXCEPT ![c] = Idle]
    BY <1>1, <2>1 DEF Busy, Idle
  <2>2. CASE work' = [work EXCEPT ![c] = [phase |-> "apply",
                                          step  |-> @.step + 1,
                                          copy  |-> Written(c)]]
    BY <1>1, <1>8, <2>2 DEF BusyAfter
  <2> QED
    BY <1>5, <1>8, <2>1, <2>2 DEF StatusStep
<1> QED
  BY <1>2, <1>3, <1>4, <1>5, <1>6, <1>7, <1>8
     DEF KindOfStep, UserStep, Deliver, WaitStep, SyncChild, WorkerStep,
         ErrorStep, BusyAfter

(* A worker that is not busy has just become idle, or was so.              *)
LEMMA IdleAfter ==
  ASSUME TypeOK, KindOfStep, NEW c \in Controllers, ~Busy(c)'
  PROVE  work'[c] = Idle \/ work'[c] = work[c]
<1> USE DEF apiVars, infVars, ctlVars
<1>1. /\ work = [d \in Controllers |-> work[d]]
      /\ work[c] \in [phase : {"idle", "apply", "status"}, step : Nat,
                      copy : Snapshots]
  BY DEF TypeOK, WorkMap, WorkRecord
<1>2. ASSUME NEW d \in Controllers, Fails(d)
      PROVE  work'[c] = Idle \/ work'[c] = work[c]
  BY <1>1, <1>2 DEF Fails
<1>3. ASSUME NEW d \in Controllers, Start(d)
      PROVE  work'[c] = work[c]
  BY <1>1, <1>3 DEF Start, Busy
<1>4. ASSUME NEW d \in Controllers, GoesOn(d, "status")
      PROVE  work'[c] = work[c]
  BY <1>1, <1>4 DEF GoesOn, Busy
<1>5. ASSUME NEW d \in Controllers, StatusStep(d)
      PROVE  work'[c] = Idle \/ work'[c] = work[c]
  BY <1>1, <1>2, <1>5 DEF StatusStep, Busy
<1> QED
  BY <1>2, <1>3, <1>4, <1>5
     DEF KindOfStep, UserStep, Deliver, Restarted, WaitStep, SyncChild,
         WorkerStep, ApplyStep, ErrorStep

(* An accepted status write of worker c, seen from the Cortex.             *)
LEMMA StatusEffect ==
  ASSUME TypeOK, RolloutInvariant, NEW c \in Controllers, StatusStep(c)
  PROVE  /\ work[c].copy = cortex
         /\ cortex' = Written(c)
         /\ cortex.alive /\ cortex'.alive
         /\ cortex'.spec = cortex.spec
         /\ cortex'.status = Pending(c)
         /\ cortex.status \subseteq cortex'.status
         /\ \/ cortex' = cortex /\ watch' = watch
            \/ watch' = Append(watch, cortex')
<1>1. /\ StatusAccepted(c) /\ cortex' = Written(c)
      /\ \/ cortex' = cortex /\ watch' = watch
         \/ watch' = Append(watch, cortex')
  BY DEF StatusStep, PublishStatus, Store
<1>2. /\ work[c].copy = cortex
      /\ Written(c).alive = cortex.alive
      /\ Written(c).status = Pending(c)
      /\ cortex.status \subseteq Pending(c)
  BY <1>1, AcceptedWrite DEF RolloutInvariant
<1>3. Written(c).spec = cortex.spec
  <2>1. cortex \in Snapshots
    BY DEF TypeOK
  <2> QED
    BY <2>1 DEF Written, Snapshots
<1> QED
  BY <1>1, <1>2, <1>3 DEF StatusAccepted

(* Nothing but the user and a status write changes the Cortex.             *)
LEMMA CortexEffect ==
  ASSUME TypeOK, RolloutInvariant, KindOfStep
  PROVE  \/ cortex' = cortex
         \/ UserStep
         \/ \E c \in Controllers : StatusStep(c)
BY DEF KindOfStep, Deliver, Restarted, WaitStep, SyncChild, WorkerStep,
       Start, ApplyStep, ErrorStep, apiVars, infVars

(* A worker that applies its step touches no child but its target.         *)
LEMMA ApplyEffect ==
  ASSUME TypeOK, WorkIsThere, NEW c \in Controllers, ApplyStep(c)
  PROVE  /\ DOMAIN children' = DOMAIN children \cup {Target(c)}
         /\ \A i \in DOMAIN children : i # Target(c) =>
              children'[i] = children[i]
         /\ \/ UNCHANGED children /\ UpToDate(c)
            \/ children'[Target(c)].data = Object(c)
<1>1. CASE UNCHANGED children /\ UpToDate(c)
  BY <1>1 DEF UpToDate, Cached, WorkIsThere
<1>2. CASE CreateChild(c)
  <2>1. children' = Put(children, Target(c),
                        [owner |-> work[c].copy.uid, data |-> Object(c)])
    BY <1>2 DEF CreateChild
  <2> QED
    BY <2>1 DEF Put
<1>3. CASE UpdateChild(c)
  <2>1. /\ children' = [children EXCEPT ![Target(c)].data = Object(c)]
        /\ Target(c) \in DOMAIN children
    BY <1>3 DEF UpdateChild, CanUpdate
  <2>2. /\ children = [i \in DOMAIN children |-> children[i]]
        /\ children[Target(c)] = [owner |-> children[Target(c)].owner,
                                  data |-> children[Target(c)].data]
    BY <2>1 DEF TypeOK, ChildMap
  <2>3. /\ DOMAIN children' = DOMAIN children
        /\ children'[Target(c)] = [children[Target(c)] EXCEPT
                                     !.data = Object(c)]
        /\ \A i \in DOMAIN children : i # Target(c) =>
             children'[i] = children[i]
    BY <2>1, <2>2
  <2>4. children'[Target(c)].data = Object(c)
    BY <2>2, <2>3
  <2> QED
    BY <2>1, <2>3, <2>4
<1> QED
  BY <1>1, <1>2, <1>3 DEF ApplyStep

(* No child goes away before the first deletion.                           *)
LEMMA ChildrenStay ==
  ASSUME TypeOK, WorkIsThere, KindOfStep
  PROVE  DOMAIN children \subseteq DOMAIN children'
<1>1. ASSUME NEW c \in Controllers, ApplyStep(c)
      PROVE  DOMAIN children \subseteq DOMAIN children'
  BY <1>1, ApplyEffect
<1> QED
  BY <1>1 DEF KindOfStep, UserStep, Deliver, Restarted, WaitStep, SyncChild,
              WorkerStep, Start, StatusStep, PublishStatus, ErrorStep,
              apiVars, infVars

(* The child of the step a worker is at.                                   *)
LEMMA TargetFacts ==
  ASSUME TypeOK, NEW c \in Controllers
  PROVE  /\ work[c].step \in 1 .. Len(Steps(c))
         /\ Target(c) = Steps(c)[work[c].step].child
         /\ Target(c) \in ChildrenOf(c)
         /\ work[c].copy \in Snapshots
BY DEF TypeOK, WorkMap, WorkRecord, Target, Step, Steps, ChildrenOf

(* What worker c is past after a step it was past before, or it has just   *)
(* written.                                                                *)
LEMMA PassedAfter ==
  ASSUME TypeOK, KindOfStep, NEW c \in Controllers, Busy(c)',
         NEW k \in 1 .. Len(Steps(c)), Passed(c, k)'
  PROVE  \/ Busy(c) /\ Passed(c, k)
         \/ ApplyStep(c) /\ k = work[c].step
<1>1. BusyAfter(c)
  BY WorkerEffect
<1>2. work[c].step \in Nat
  BY TargetFacts
<1>3. CASE work'[c] = work[c]
  BY <1>3 DEF Busy, Passed, At
<1>4. CASE work'[c] = [phase |-> "apply", step |-> 1, copy |-> cache]
  BY <1>4 DEF Passed, At
<1>5. CASE /\ ApplyStep(c)
           /\ work'[c] = [phase |-> "status", step |-> work[c].step,
                          copy |-> work[c].copy]
  BY <1>2, <1>5 DEF ApplyStep, Busy, Passed, At
<1>6. CASE /\ StatusStep(c)
           /\ work'[c] = [phase |-> "apply", step |-> work[c].step + 1,
                          copy |-> Written(c)]
  BY <1>2, <1>6 DEF StatusStep, Busy, Passed, At
<1> QED
  BY <1>1, <1>3, <1>4, <1>5, <1>6 DEF BusyAfter

----------------------------------------------------------------------------
(* References are backed *)

(* What the informer has and what workers have passed stays there.         *)
LEMMA WorkIsThereStep ==
  ASSUME TypeOK, WorkIsThere, KindOfStep
  PROVE  WorkIsThere'
<1>1. DOMAIN children \subseteq DOMAIN children'
  BY ChildrenStay
<1>2. DOMAIN childCache' \subseteq DOMAIN children'
  <2>1. CASE childCache' = childCache
    BY <1>1, <2>1 DEF WorkIsThere
  <2>2. CASE childCache' = children
    BY <1>1, <2>2
  <2>3. ASSUME NEW i \in Managed, SyncChild(i)
        PROVE  DOMAIN childCache' \subseteq DOMAIN children
    BY <2>3 DEF SyncChild, Put, Drop, WorkIsThere
  <2> QED
    BY <1>1, <2>1, <2>2, <2>3
       DEF KindOfStep, UserStep, Deliver, Restarted, WaitStep, WorkerStep,
           Start, ApplyStep, StatusStep, ErrorStep, infVars
<1>3. ASSUME NEW c \in Controllers, Busy(c)', NEW k \in 1 .. Len(Steps(c)),
             Passed(c, k)'
      PROVE  Steps(c)[k].child \in DOMAIN children'
  <2>1. CASE Busy(c) /\ Passed(c, k)
    BY <1>1, <2>1 DEF WorkIsThere
  <2>2. CASE ApplyStep(c) /\ k = work[c].step
    BY <2>2, ApplyEffect, TargetFacts
  <2> QED
    BY <1>3, <2>1, <2>2, PassedAfter
<1> QED
  BY <1>2, <1>3 DEF WorkIsThere, Busy, Passed, At

(* A reference is published by a worker that has applied the workload it   *)
(* names, and before it the service.                                       *)
LEMMA RefBackedStep ==
  ASSUME TypeOK, RolloutInvariant, WorkIsThere, RefBacked, KindOfStep
  PROVE  RefBacked'
<1>1. DOMAIN children \subseteq DOMAIN children'
  BY ChildrenStay
<1>2. CASE cortex'.status \subseteq cortex.status
  BY <1>1, <1>2 DEF RefBacked
<1>3. ASSUME NEW c \in Controllers, StatusStep(c)
      PROVE  RefBacked'
  <2>1. /\ cortex'.status = Pending(c) /\ work[c].copy = cortex
    BY <1>3, StatusEffect
  <2>2. /\ work[c].step \in 1 .. Len(Steps(c))
        /\ Target(c) = Steps(c)[work[c].step].child
    BY TargetFacts
  <2>3. Busy(c) /\ work[c].step \in Nat
    BY <1>3, <2>2 DEF StatusStep, At, Busy
  <2>4. \A k \in 1 .. work[c].step : Steps(c)[k].child \in DOMAIN children
    <3>1. \A k \in 1 .. work[c].step :
            k \in 1 .. Len(Steps(c)) /\ Passed(c, k)
      BY <1>3, <2>2 DEF StatusStep, Passed
    <3> QED
      BY <2>3, <3>1 DEF WorkIsThere
  <2>5. ASSUME NEW r \in Step(c).refs
        PROVE  /\ <<"Service", r>> \in DOMAIN children
               /\ \E kind \in {"Deployment", "StatefulSet"} :
                    <<kind, r>> \in DOMAIN children
    <3>1. /\ Target(c) \in {<<"Deployment", r>>, <<"StatefulSet", r>>}
          /\ \E j \in 1 .. work[c].step - 1 :
               Steps(c)[j].child = <<"Service", r>>
      BY <2>2, StepsOf DEF ServedFirst, Step, Target
    <3>2. Target(c) \in DOMAIN children
      BY <2>2, <2>4
    <3>3. \A j \in 1 .. work[c].step - 1 : j \in 1 .. work[c].step
      BY <2>3
    <3> QED
      BY <2>4, <3>1, <3>2, <3>3
  <2>6. ASSUME NEW name \in cortex'.status \ {"memcached"}
        PROVE  name \in cortex.status \/ name \in Step(c).refs
    BY <2>1, StepsOf DEF Pending
  <2> QED
    BY <1>1, <2>5, <2>6 DEF RefBacked
<1> QED
  BY <1>2, <1>3, CortexEffect DEF UserStep

----------------------------------------------------------------------------
(* The copies are in order *)

(* The present version is no earlier than the one before the step.         *)
LEMMA CortexGoesOn ==
  ASSUME TypeOK, RolloutInvariant, SpecsInOrder, KindOfStep
  PROVE  Precedes(cortex, cortex') /\ Precedes(cortex', cortex')
<1>1. Precedes(cortex, cortex)
  BY DEF SpecsInOrder
<1>2. CASE UserStep
  BY <1>2, LaterHasEdits, LaterIsReflexive DEF UserStep, Precedes
<1>3. ASSUME NEW c \in Controllers, StatusStep(c)
      PROVE  Precedes(cortex, cortex') /\ Precedes(cortex', cortex')
  BY <1>1, <1>3, StatusEffect DEF Precedes
<1> QED
  BY <1>1, <1>2, <1>3, CortexEffect

(* How a step moves the versions along.                                    *)
LEMMA FeedEffect ==
  ASSUME TypeOK, RolloutInvariant, KindOfStep
  PROVE  \/ UNCHANGED <<cache, watch>> /\ cortex' = cortex
         \/ UNCHANGED cache /\ watch' = Append(watch, cortex')
         \/ /\ watch # <<>> /\ cortex' = cortex
            /\ cache' = Head(watch) /\ watch' = Tail(watch)
         \/ cache' = cortex /\ cortex' = cortex /\ watch' = <<>>
<1>1. ASSUME NEW c \in Controllers, StatusStep(c)
      PROVE  \/ UNCHANGED <<cache, watch>> /\ cortex' = cortex
             \/ UNCHANGED cache /\ watch' = Append(watch, cortex')
  BY <1>1, StatusEffect DEF StatusStep, infVars
<1> QED
  BY <1>1 DEF KindOfStep, UserStep, Deliver, Restarted, WaitStep, SyncChild,
              WorkerStep, Start, ApplyStep, ErrorStep, apiVars, infVars

(* The cache's spec is no earlier than before the step.                    *)
LEMMA CacheGoesOn ==
  ASSUME TypeOK, RolloutInvariant, SpecsInOrder, KindOfStep
  PROVE  Precedes(cache, cache')
<1>1. CASE watch # <<>> /\ cache' = Head(watch)
  <2>1. 1 \in 1 .. Len(watch) /\ Head(watch) = watch[1]
    BY <1>1 DEF TypeOK
  <2> QED
    BY <1>1, <2>1 DEF SpecsInOrder
<1>2. CASE cache' = cortex
  BY <1>2 DEF SpecsInOrder
<1>3. CASE cache' = cache
  <2>1. Precedes(cache, cortex)
    BY DEF SpecsInOrder
  <2> QED
    BY <1>3, <2>1, LaterIsReflexive DEF Precedes, Later
<1> QED
  BY <1>1, <1>2, <1>3, FeedEffect

(* The specs stay in order.                                                *)
LEMMA SpecsInOrderStep ==
  ASSUME TypeOK, RolloutInvariant, SpecsInOrder, KindOfStep
  PROVE  SpecsInOrder'
<1>1. Precedes(cortex, cortex') /\ Precedes(cortex', cortex')
  BY CortexGoesOn
<1>2. ASSUME NEW s, Precedes(s, cortex)
      PROVE  Precedes(s, cortex')
  BY <1>1, <1>2, PrecedesIsTransitive
<1>3. watch \in Seq(Snapshots)
  BY DEF TypeOK
<1>4. Precedes(cache, cache')
  BY CacheGoesOn
<1>5. ASSUME NEW c \in Controllers
      PROVE  Precedes(work'[c].copy, cache')
  <2>1. CASE ~Busy(c)'
    <3>1. CASE work'[c] = Idle
      BY <3>1 DEF Idle, Gone, Precedes
    <3>2. CASE work'[c] = work[c]
      BY <1>4, <3>2, PrecedesIsTransitive DEF SpecsInOrder
    <3> QED
      BY <2>1, <3>1, <3>2, IdleAfter
  <2>2. CASE BusyAfter(c)
    <3>1. Precedes(work[c].copy, cache) /\ Precedes(cache, cache')
      BY <1>4 DEF SpecsInOrder
    <3>2. CASE work'[c].copy = work[c].copy
      BY <3>1, <3>2, PrecedesIsTransitive
    <3>3. CASE Start(c) /\ work'[c].copy = cache
      BY <3>1, <3>3
    <3>4. CASE StatusStep(c) /\ work'[c].copy = Written(c)
      <4>1. /\ work'[c].copy.spec = work[c].copy.spec
            /\ work[c].copy.alive
        BY <3>4, StatusEffect
      <4>2. Precedes(work'[c].copy, cache)
        BY <3>1, <4>1 DEF Precedes
      <4> QED
        BY <3>1, <4>2, PrecedesIsTransitive
    <3> QED
      BY <2>2, <3>2, <3>3, <3>4 DEF BusyAfter
  <2> QED
    BY <2>1, <2>2, WorkerEffect
<1>6. ASSUME NEW k \in 1 .. Len(watch')
      PROVE  /\ Precedes(cache', watch'[k])
             /\ \A j \in 1 .. k : Precedes(watch'[j], watch'[k])
             /\ Precedes(watch'[k], cortex')
  <2>1. CASE UNCHANGED <<cache, watch>>
    BY <1>2, <1>6, <2>1 DEF SpecsInOrder
  <2>2. CASE UNCHANGED cache /\ watch' = Append(watch, cortex')
    <3>1. CASE k \in 1 .. Len(watch)
      <4>1. \A j \in 1 .. k : watch'[j] = watch[j]
        BY <1>3, <2>2, <3>1
      <4> QED
        BY <1>2, <2>2, <3>1, <4>1 DEF SpecsInOrder
    <3>2. CASE k = Len(watch) + 1
      <4>1. /\ watch'[k] = cortex'
            /\ \A j \in 1 .. k : \/ watch'[j] = cortex'
                                 \/ /\ j \in 1 .. Len(watch)
                                    /\ watch'[j] = watch[j]
        BY <1>3, <2>2, <3>2
      <4>2. Precedes(cache, cortex')
        BY <1>2 DEF SpecsInOrder
      <4>3. \A j \in 1 .. Len(watch) : Precedes(watch[j], cortex')
        BY <1>2 DEF SpecsInOrder
      <4> QED
        BY <1>1, <2>2, <4>1, <4>2, <4>3
    <3> QED
      BY <1>3, <1>6, <2>2, <3>1, <3>2
  <2>3. CASE /\ watch # <<>> /\ cortex' = cortex
             /\ cache' = Head(watch) /\ watch' = Tail(watch)
    <3>1. /\ k + 1 \in 1 .. Len(watch)
          /\ cache' = watch[1]
          /\ 1 \in 1 .. k + 1
          /\ \A j \in 1 .. k : j + 1 \in 1 .. k + 1 /\ watch'[j] = watch[j + 1]
      BY <1>3, <1>6, <2>3
    <3>2. watch'[k] = watch[k + 1]
      BY <1>3, <1>6, <2>3
    <3> QED
      BY <2>3, <3>1, <3>2 DEF SpecsInOrder
  <2>4. CASE watch' = <<>>
    BY <1>6, <2>4
  <2> QED
    BY <2>1, <2>2, <2>3, <2>4, FeedEffect
<1>7. Precedes(cache', cortex')
  <2>1. CASE cache' = cache
    BY <1>2, <2>1 DEF SpecsInOrder
  <2>2. CASE watch # <<>> /\ cache' = Head(watch)
    <3>1. 1 \in 1 .. Len(watch) /\ Head(watch) = watch[1]
      BY <1>3, <2>2
    <3> QED
      BY <1>2, <2>2, <3>1 DEF SpecsInOrder
  <2>3. CASE cache' = cortex
    BY <1>1, <2>3
  <2> QED
    BY <2>1, <2>2, <2>3, FeedEffect
<1> QED
  BY <1>1, <1>5, <1>6, <1>7 DEF SpecsInOrder

----------------------------------------------------------------------------
(* The children are in order *)

(* What worker c sends is the child of the spec it holds: an update leaves *)
(* nothing of an earlier one behind.                                       *)
LEMMA ObjectIsContent ==
  ASSUME TypeOK, WorkIsThere, ChildrenInOrder, NEW c \in Controllers, Busy(c),
         Target(c) \in Overwritten
  PROVE  Object(c) = Content(Target(c), work[c].copy.spec)
<1> DEFINE i == Target(c)
           s == work[c].copy.spec
<1>1. CASE ~Cached(c)
  BY <1>1 DEF Object, Content
<1>2. CASE Cached(c)
  <2>1. i \in ChildrenOf(c) \cap Overwritten \cap DOMAIN children
    BY <1>2, TargetFacts DEF Cached, WorkIsThere
  <2>2. PICK b \in Specs :
          /\ <<b, s>> \in Later
          /\ i \in DOMAIN childCache =>
               \E a \in Specs : /\ childCache[i].data = Content(i, a)
                                /\ <<a, b>> \in Later
    BY <2>1 DEF ChildrenInOrder, MadeInOrder
  <2>3. PICK a \in Specs : /\ childCache[i].data = Content(i, a)
                           /\ <<a, b>> \in Later
    BY <1>2, <2>2 DEF Cached
  <2>4. <<a, s>> \in Later
    BY <2>2, <2>3, LaterIsTransitive
  <2>5. NewObject(i, s, Content(i, a)) = Content(i, s)
    BY <2>1, <2>4 DEF Overwritten
  <2> QED
    BY <1>2, <2>3, <2>5 DEF Object, Cached
<1> QED
  BY <1>1, <1>2

(* The spec a busy worker holds is one the Cortex had, no later than that  *)
(* of the cache.                                                           *)
LEMMA CopyIsKnown ==
  ASSUME TypeOK, RolloutInvariant, SpecsInOrder, NEW c \in Controllers, Busy(c)
  PROVE  /\ work[c].copy.alive
         /\ work[c].copy.spec \in Specs
         /\ cache.alive
         /\ <<work[c].copy.spec, cache.spec>> \in Later
<1>1. work[c].copy.alive
  BY DEF RolloutInvariant, BusyIsEntitled
<1>2. Precedes(work[c].copy, cache)
  BY DEF SpecsInOrder
<1> QED
  BY <1>1, <1>2 DEF Precedes, Later

(* A spec no later than what the worker held, and than the cache's, is so  *)
(* after a step.                                                           *)
LEMMA BoundGoesOn ==
  ASSUME TypeOK, RolloutInvariant, SpecsInOrder, KindOfStep,
         NEW c \in Controllers, NEW b,
         cache.alive, <<b, cache.spec>> \in Later,
         Busy(c) => <<b, work[c].copy.spec>> \in Later
  PROVE  /\ cache'.alive /\ <<b, cache'.spec>> \in Later
         /\ Busy(c)' => <<b, work'[c].copy.spec>> \in Later
<1>1. cache'.alive /\ <<b, cache'.spec>> \in Later
  BY CacheGoesOn, LaterIsTransitive DEF Precedes
<1>2. ASSUME Busy(c)'
      PROVE  <<b, work'[c].copy.spec>> \in Later
  <2>1. CASE work'[c] = work[c]
    BY <1>2, <2>1 DEF Busy
  <2>2. CASE work'[c].copy = cache
    BY <2>2
  <2>3. CASE ApplyStep(c) /\ work'[c].copy = work[c].copy
    BY <2>3 DEF ApplyStep, At, Busy
  <2>4. CASE StatusStep(c) /\ work'[c].copy = Written(c)
    <3>1. Busy(c)
      BY <2>4 DEF StatusStep, At, Busy
    <3>2. work'[c].copy.spec = work[c].copy.spec
      BY <2>4, StatusEffect
    <3> QED
      BY <3>1, <3>2
  <2>5. BusyAfter(c)
    BY <1>2, WorkerEffect
  <2> QED
    BY <2>1, <2>2, <2>3, <2>4, <2>5 DEF BusyAfter
<1> QED
  BY <1>1, <1>2

(* A step changes a child by writing it, and a cached copy by copying it.  *)
LEMMA ChildEffect ==
  ASSUME TypeOK, WorkIsThere, KindOfStep, NEW i
  PROVE  /\ \/ i \in DOMAIN children' /\ i \in DOMAIN children
               /\ children'[i] = children[i]
            \/ i \notin DOMAIN children'
            \/ \E c \in Controllers : ApplyStep(c) /\ i = Target(c)
         /\ \/ i \notin DOMAIN childCache'
            \/ i \in DOMAIN childCache /\ childCache'[i] = childCache[i]
            \/ /\ i \in DOMAIN children /\ childCache'[i] = children[i]
               /\ UNCHANGED children
<1>1. ASSUME NEW c \in Controllers, ApplyStep(c), i # Target(c)
      PROVE  \/ i \in DOMAIN children' /\ i \in DOMAIN children
               /\ children'[i] = children[i]
             \/ i \notin DOMAIN children'
  BY <1>1, ApplyEffect
<1>2. ASSUME NEW j \in Managed, SyncChild(j)
      PROVE  \/ i \notin DOMAIN childCache'
             \/ i \in DOMAIN childCache /\ childCache'[i] = childCache[i]
             \/ /\ i \in DOMAIN children /\ childCache'[i] = children[i]
                /\ UNCHANGED children
  BY <1>2 DEF SyncChild, Put, Drop
<1>3. \/ UNCHANGED children
      \/ \E c \in Controllers : ApplyStep(c)
  BY DEF KindOfStep, UserStep, Deliver, Restarted, WaitStep, SyncChild,
         WorkerStep, Start, StatusStep, PublishStatus, ErrorStep, apiVars
<1>4. \/ UNCHANGED childCache
      \/ childCache' = children /\ UNCHANGED children
      \/ \E j \in Managed : SyncChild(j)
  BY DEF KindOfStep, UserStep, Deliver, Restarted, WaitStep,
         WorkerStep, Start, ApplyStep, StatusStep, ErrorStep, infVars
<1> QED
  BY <1>1, <1>2, <1>3, <1>4

(* A child has only one controller.                                        *)
LEMMA OneController ==
  ASSUME TypeOK, NEW c \in Controllers, NEW d \in Controllers,
         Target(d) \in ChildrenOf(c)
  PROVE  d = c
BY TargetFacts, StepsOf

(* The children stay in order.                                             *)
LEMMA ChildrenInOrderStep ==
  ASSUME TypeOK, RolloutInvariant, WorkIsThere, SpecsInOrder, ChildrenInOrder,
         KindOfStep
  PROVE  ChildrenInOrder'
<1> SUFFICES ASSUME NEW c \in Controllers,
                    NEW i \in ChildrenOf(c) \cap Overwritten
                                \cap DOMAIN children'
             PROVE  MadeInOrder(c, i)'
  BY DEF ChildrenInOrder
<1>1. CASE /\ i \in DOMAIN children
           /\ children'[i].data = children[i].data
  <2>1. PICK b \in Specs :
          /\ children[i].data = Content(i, b)
          /\ Busy(c) => <<b, work[c].copy.spec>> \in Later
          /\ cache.alive /\ <<b, cache.spec>> \in Later
          /\ i \in DOMAIN childCache =>
               \E a \in Specs : /\ childCache[i].data = Content(i, a)
                                /\ <<a, b>> \in Later
    BY <1>1 DEF ChildrenInOrder, MadeInOrder
  <2>2. /\ cache'.alive /\ <<b, cache'.spec>> \in Later
        /\ Busy(c)' => <<b, work'[c].copy.spec>> \in Later
    BY <2>1, BoundGoesOn
  <2>3. ASSUME i \in DOMAIN childCache'
        PROVE  \E a \in Specs : /\ childCache'[i].data = Content(i, a)
                                /\ <<a, b>> \in Later
    <3>1. CASE i \in DOMAIN childCache /\ childCache'[i] = childCache[i]
      BY <2>1, <3>1
    <3>2. CASE childCache'[i] = children[i]
      BY <2>1, <3>2, LaterIsReflexive
    <3> QED
      BY <2>3, <3>1, <3>2, ChildEffect
  <2> QED
    BY <1>1, <2>1, <2>2, <2>3 DEF MadeInOrder, Busy
<1>2. ASSUME ApplyStep(c), i = Target(c), children'[i].data = Object(c)
      PROVE  MadeInOrder(c, i)'
  <2> DEFINE s == work[c].copy.spec
  <2>1. Busy(c) /\ UNCHANGED <<cache, childCache>>
    BY <1>2 DEF ApplyStep, At, Busy, infVars
  <2>2. children'[i].data = Content(i, s)
    BY <1>2, <2>1, ObjectIsContent
  <2>3. s \in Specs /\ cache.alive /\ <<s, cache.spec>> \in Later
    BY <2>1, CopyIsKnown
  <2>4. <<s, s>> \in Later
    BY <2>3, LaterIsReflexive
  <2>5. /\ cache'.alive /\ <<s, cache'.spec>> \in Later
        /\ Busy(c)' => <<s, work'[c].copy.spec>> \in Later
    BY <2>3, <2>4, BoundGoesOn
  <2>6. ASSUME i \in DOMAIN childCache'
        PROVE  \E a \in Specs : /\ childCache'[i].data = Content(i, a)
                                /\ <<a, s>> \in Later
    <3>1. i \in DOMAIN childCache /\ i \in DOMAIN children
      BY <2>1, <2>6 DEF WorkIsThere
    <3>2. PICK b \in Specs :
            /\ <<b, s>> \in Later
            /\ \E a \in Specs : /\ childCache[i].data = Content(i, a)
                                /\ <<a, b>> \in Later
      BY <2>1, <3>1 DEF ChildrenInOrder, MadeInOrder
    <3> QED
      BY <2>1, <3>2, LaterIsTransitive
  <2> QED
    BY <2>2, <2>3, <2>5, <2>6 DEF MadeInOrder, Busy
<1>3. ASSUME NEW d \in Controllers, ApplyStep(d), i = Target(d)
      PROVE  MadeInOrder(c, i)'
  <2>1. d = c
    BY <1>3, OneController
  <2>2. \/ UNCHANGED children
        \/ children'[i].data = Object(c)
    BY <1>3, <2>1, ApplyEffect
  <2> QED
    BY <1>1, <1>2, <1>3, <2>1, <2>2
<1> QED
  BY <1>1, <1>3, ChildEffect

----------------------------------------------------------------------------
(* Nothing is forgotten *)

(* Once applied, a child is as the spec its worker holds asks: if nothing  *)
(* was sent because the cached copy compares equal, what happened to the   *)
(* child since has not changed it either.                                  *)
LEMMA AppliedMakes ==
  ASSUME TypeOK, WorkIsThere, ChildrenInOrder, NEW c \in Controllers,
         ApplyStep(c), Target(c) \in Exact
  PROVE  children'[Target(c)].data = Content(Target(c), work[c].copy.spec)
<1> DEFINE i == Target(c)
           s == work[c].copy.spec
<1>1. Busy(c) /\ i \in Overwritten /\ i \in Unreverted
  BY DEF ApplyStep, At, Busy, Exact
<1>2. Object(c) = Content(i, s)
  BY <1>1, ObjectIsContent
<1>3. CASE children'[i].data = Object(c)
  BY <1>2, <1>3
<1>4. CASE UNCHANGED children /\ UpToDate(c)
  <2>1. /\ i \in DOMAIN childCache
        /\ ComparesEqual(i)
        /\ childCache[i].data = Content(i, s)
    BY <1>2, <1>4 DEF UpToDate, Cached
  <2>2. i \in ChildrenOf(c) \cap Overwritten \cap DOMAIN children
    BY <1>1, <2>1, TargetFacts DEF WorkIsThere
  <2>3. PICK b \in Specs :
          /\ children[i].data = Content(i, b)
          /\ <<b, s>> \in Later
          /\ \E a \in Specs : /\ childCache[i].data = Content(i, a)
                              /\ <<a, b>> \in Later
    BY <1>1, <2>1, <2>2 DEF ChildrenInOrder, MadeInOrder
  <2>4. PICK a \in Specs : /\ childCache[i].data = Content(i, a)
                           /\ <<a, b>> \in Later
    BY <2>3
  <2>5. Content(i, b) = Content(i, s)
    <3> DEFINE p == <<a, b>>
               q == <<b, s>>
    <3>1. p \in Later /\ q \in Later
      BY <2>3, <2>4
    <3>2. p[1] = a /\ p[2] = b /\ q[1] = b /\ q[2] = s
      OBVIOUS
    <3>3. Content(i, p[1]) = Content(i, q[2])
      BY <2>1, <2>4
    <3> HIDE DEF p, q
    <3>4. Content(i, p[2]) = Content(i, q[2])
      BY <1>1, <2>1, <3>1, <3>2, <3>3 DEF Unreverted
    <3> QED
      BY <3>2, <3>4
  <2> QED
    BY <1>4, <2>3, <2>5
<1> QED
  BY <1>3, <1>4, ApplyEffect

(* A step of another controller does not make c forget.                    *)
LEMMA BystanderRemembers ==
  ASSUME NEW c \in Controllers, NotForgotten(c),
         watch' = watch, cortex' = cortex, work'[c] = work[c],
         c \in queue \cup backoff => c \in queue' \cup backoff',
         \A i \in ChildrenOf(c) \cap DOMAIN children :
           i \in DOMAIN children' /\ children'[i] = children[i]
  PROVE  NotForgotten(c)'
<1>1. ASSUME NEW k \in 1 .. Len(Steps(c)), Current(c, k)
      PROVE  Current(c, k)'
  <2>1. Steps(c)[k].child \in ChildrenOf(c)
    BY DEF Steps, ChildrenOf
  <2> QED
    BY <1>1, <2>1 DEF Current
<1>2. \A k \in 1 .. Len(Steps(c)) : Noted(c, k)' = Noted(c, k)
  BY DEF Noted
<1>3. \A k \in 1 .. Len(Steps(c)) : Passed(c, k)' = Passed(c, k)
  BY DEF Passed, At
<1>4. Busy(c)' = Busy(c)
  BY DEF Busy
<1> QED
  BY <1>1, <1>2, <1>3, <1>4 DEF NotForgotten

(* A worker that has applied its step has one child more as asked.         *)
LEMMA ApplyRemembers ==
  ASSUME TypeOK, WorkIsThere, ChildrenInOrder, NEW c \in Controllers,
         NotForgotten(c), ApplyStep(c)
  PROVE  NotForgotten(c)'
<1>1. Busy(c) /\ watch' = watch /\ cortex' = cortex
  BY DEF ApplyStep, At, Busy
<1>2. CASE Fails(c)
  BY <1>2 DEF Fails, NotForgotten
<1>3. CASE GoesOn(c, "status")
  <2>1. work'[c] = [phase |-> "status", step |-> work[c].step,
                    copy |-> work[c].copy]
    BY <1>3 DEF GoesOn, TypeOK, WorkMap, WorkRecord
  <2>2. CASE watch # <<>> \/ c \in queue \cup backoff
    BY <1>1, <1>3, <2>2 DEF GoesOn, NotForgotten
  <2>3. CASE /\ work[c].copy.spec = cortex.spec
             /\ \A k \in 1 .. Len(Steps(c)) :
                  /\ Passed(c, k) => Current(c, k)
                  /\ k < work[c].step => Noted(c, k)
    <3>1. ASSUME NEW k \in 1 .. Len(Steps(c)), Passed(c, k)'
          PROVE  Current(c, k)'
      <4> DEFINE i == Steps(c)[k].child
      <4>1. CASE i = Target(c)
        <5>1. i \in DOMAIN children'
          BY <4>1, ApplyEffect
        <5>2. i \in Exact => children'[i].data = Content(i, cortex'.spec)
          BY <1>1, <2>3, <4>1, AppliedMakes
        <5> QED
          BY <5>1, <5>2 DEF Current
      <4>2. CASE i # Target(c)
        <5>1. k # work[c].step
          BY <4>2 DEF Target, Step
        <5>2. Passed(c, k)
          BY <2>1, <3>1, <5>1 DEF Passed, At
        <5>3. i \in DOMAIN children /\ Current(c, k)
          BY <2>3, <5>2 DEF Current
        <5>4. i \in DOMAIN children' /\ children'[i] = children[i]
          BY <4>2, <5>3, ApplyEffect
        <5> QED
          BY <1>1, <5>3, <5>4 DEF Current
      <4> QED
        BY <4>1, <4>2
    <3>2. ASSUME NEW k \in 1 .. Len(Steps(c)), k < work'[c].step
          PROVE  Noted(c, k)'
      BY <1>1, <2>1, <2>3, <3>2 DEF Noted
    <3>3. Busy(c)' /\ work'[c].copy.spec = cortex'.spec
      BY <1>1, <2>1, <2>3 DEF Busy
    <3> QED
      BY <3>1, <3>2, <3>3 DEF NotForgotten
  <2> QED
    BY <1>1, <2>2, <2>3 DEF NotForgotten
<1> QED
  BY <1>2, <1>3 DEF ApplyStep

(* A status write that changes nothing is no loss: what it would have      *)
(* noted was noted.                                                        *)
LEMMA StatusRemembers ==
  ASSUME TypeOK, RolloutInvariant, NEW c \in Controllers,
         NotForgotten(c), StatusStep(c)
  PROVE  NotForgotten(c)'
<1>1. /\ Busy(c) /\ At(c, "status")
      /\ work[c].copy = cortex
      /\ UNCHANGED <<children>>
      /\ work[c].step \in 1 .. Len(Steps(c))
      /\ work[c].step \in Nat
  BY StatusEffect, TargetFacts DEF StatusStep, At, Busy, PublishStatus
<1>2. CASE watch' # <<>>
  BY <1>2 DEF NotForgotten
<1>3. CASE watch' = <<>>
  <2>1. cortex' = cortex /\ watch' = watch /\ Pending(c) = cortex.status
    <3>1. watch' # Append(watch, cortex')
      BY <1>3 DEF TypeOK
    <3> QED
      BY <3>1, StatusEffect
  <2>2. CASE Fails(c)
    BY <2>2 DEF Fails, NotForgotten
  <2>3. CASE ~Fails(c) /\ c \in queue \cup backoff
    BY <2>3 DEF StatusStep, NotForgotten
  <2>4. CASE ~Fails(c) /\ c \notin queue \cup backoff
    <3>1. \A k \in 1 .. Len(Steps(c)) : /\ Passed(c, k) => Current(c, k)
                                        /\ k < work[c].step => Noted(c, k)
      BY <1>1, <1>3, <2>1, <2>4 DEF NotForgotten
    <3>2. ASSUME NEW k \in 1 .. Len(Steps(c)), k <= work[c].step
          PROVE  Current(c, k)' /\ Noted(c, k)'
      <4>1. Passed(c, k)
        BY <1>1, <3>2 DEF Passed
      <4>2. Noted(c, k)
        <5>1. CASE k < work[c].step
          BY <3>1, <5>1
        <5>2. CASE k = work[c].step
          BY <2>1, <5>2 DEF Noted, Pending, Step
        <5> QED
          BY <1>1, <3>2, <5>1, <5>2
      <4> QED
        BY <1>1, <2>1, <3>1, <4>1, <4>2 DEF Current, Noted
    <3>3. work \in [Controllers -> [phase : {"idle", "apply", "status"},
                                    step : Nat, copy : Snapshots]]
      BY DEF TypeOK, WorkMap, WorkRecord
    <3>4. CASE work[c].step = Len(Steps(c))
      <4>1. work'[c] = Idle
        BY <2>4, <3>3, <3>4 DEF StatusStep
      <4>2. ~Busy(c)'
        BY <4>1 DEF Busy, Idle
      <4>3. \A k \in 1 .. Len(Steps(c)) : k <= work[c].step
        BY <3>4
      <4> QED
        BY <3>2, <4>2, <4>3 DEF NotForgotten
    <3>5. CASE work[c].step # Len(Steps(c))
      <4>1. work'[c] = [phase |-> "apply", step |-> work[c].step + 1,
                        copy |-> Written(c)]
        BY <2>4, <3>3, <3>5 DEF StatusStep
      <4>2. Written(c) = cortex
        BY <2>1 DEF Written
      <4>3. Busy(c)' /\ work'[c].copy.spec = cortex'.spec
        BY <2>1, <4>1, <4>2 DEF Busy
      <4>4. \A k \in 1 .. Len(Steps(c)) :
              /\ Passed(c, k)' => k <= work[c].step
              /\ k < work'[c].step => k <= work[c].step
        BY <1>1, <4>1 DEF Passed, At
      <4> QED
        BY <3>2, <4>3, <4>4 DEF NotForgotten
    <3> QED
      BY <3>4, <3>5
  <2> QED
    BY <2>2, <2>3, <2>4
<1> QED
  BY <1>2, <1>3

(* A worker that starts on the present version has its plan before it.     *)
LEMMA StartRemembers ==
  ASSUME TypeOK, CacheKeepsUp, NEW c \in Controllers, Start(c)
  PROVE  NotForgotten(c)'
<1>1. /\ watch' = watch /\ cortex' = cortex
      /\ work'[c] = [phase |-> "apply", step |-> 1, copy |-> cache]
  BY DEF Start, apiVars, TypeOK, WorkMap
<1>2. CASE watch # <<>>
  BY <1>1, <1>2 DEF NotForgotten
<1>3. CASE watch = <<>>
  <2>1. Busy(c)' /\ work'[c].copy.spec = cortex'.spec
    BY <1>1, <1>3 DEF Busy, CacheKeepsUp
  <2>2. \A k \in 1 .. Len(Steps(c)) : ~Passed(c, k)' /\ ~(k < work'[c].step)
    BY <1>1 DEF Passed, At
  <2> QED
    BY <2>1, <2>2 DEF NotForgotten
<1> QED
  BY <1>2, <1>3

LEMMA NothingForgottenStep ==
  ASSUME TypeOK, RolloutInvariant, Undeleted, CacheKeepsUp, WorkIsThere,
         ChildrenInOrder, NothingForgotten, KindOfStep, cortex'.alive,
         NEW c \in Controllers
  PROVE  NotForgotten(c)'
<1> USE DEF apiVars, infVars, ctlVars
<1>1. CASE UserStep
  <2>1. watch' # <<>>
    BY <1>1 DEF UserStep, TypeOK
  <2> QED
    BY <2>1 DEF NotForgotten
<1>2. CASE Deliver \/ Restarted
  <2>1. c \in queue'
    BY <1>2 DEF Deliver, Restarted
  <2> QED
    BY <2>1 DEF NotForgotten
<1>3. CASE ~cortex.alive
  <2>1. ASSUME NEW d \in Controllers, StatusStep(d)
        PROVE  FALSE
    BY <1>3, <2>1, StatusEffect
  <2> QED
    BY <1>1, <1>3, <2>1, CortexEffect
<1> SUFFICES ASSUME NotForgotten(c)
             PROVE  NotForgotten(c)'
  BY <1>3 DEF NothingForgotten
<1>4. CASE WaitStep
  <2>1. CASE c \in queue \cup backoff => c \in queue' \cup backoff'
    BY <1>4, <2>1, BystanderRemembers DEF WaitStep
  <2>2. CASE ~Busy(c) /\ (cache.alive => ~GateOpen(c))
    <3>1. CASE watch # <<>>
      BY <1>4, <3>1 DEF WaitStep, NotForgotten
    <3>2. CASE watch = <<>>
      <4>1. cache = cortex /\ cortex' = cortex /\ work' = work
        BY <1>4, <3>2 DEF WaitStep, CacheKeepsUp
      <4>2. ~Busy(c)' /\ ~(PlanOf(c).gate \subseteq cortex'.status)
        BY <2>2, <4>1 DEF GateOpen, Busy
      <4> QED
        BY <4>2 DEF NotForgotten
    <3> QED
      BY <3>1, <3>2
  <2> QED
    BY <1>4, <2>1, <2>2 DEF WaitStep
<1>5. ASSUME NEW i \in Managed, SyncChild(i)
      PROVE  NotForgotten(c)'
  BY <1>5, BystanderRemembers DEF SyncChild
<1>6. ASSUME NEW d \in Controllers, Start(d)
      PROVE  NotForgotten(c)'
  <2>1. CASE d = c
    BY <1>6, <2>1, StartRemembers
  <2>2. CASE d # c
    <3>1. /\ watch' = watch /\ cortex' = cortex /\ children' = children
          /\ work'[c] = work[c]
          /\ c \in queue \cup backoff => c \in queue' \cup backoff'
      BY <1>6, <2>2 DEF Start, Takes, TypeOK, WorkMap
    <3> QED
      BY <3>1, BystanderRemembers
  <2> QED
    BY <2>1, <2>2
<1>7. ASSUME NEW d \in Controllers, ApplyStep(d)
      PROVE  NotForgotten(c)'
  <2>1. CASE d = c
    BY <1>7, <2>1, ApplyRemembers
  <2>2. CASE d # c
    <3>1. /\ watch' = watch /\ cortex' = cortex
          /\ work'[c] = work[c]
          /\ c \in queue \cup backoff => c \in queue' \cup backoff'
      BY <1>7, <2>2 DEF ApplyStep, GoesOn, Fails, TypeOK, WorkMap
    <3>2. ASSUME NEW i \in ChildrenOf(c) \cap DOMAIN children
          PROVE  i \in DOMAIN children' /\ children'[i] = children[i]
      <4>1. i # Target(d)
        BY <2>2, OneController
      <4> QED
        BY <1>7, <4>1, ApplyEffect
    <3> QED
      BY <3>1, <3>2, BystanderRemembers
  <2> QED
    BY <2>1, <2>2
<1>8. ASSUME NEW d \in Controllers, StatusStep(d)
      PROVE  NotForgotten(c)'
  <2>1. CASE d = c
    BY <1>8, <2>1, StatusRemembers
  <2>2. CASE watch' # <<>>
    BY <2>2 DEF NotForgotten
  <2>3. CASE d # c /\ watch' = <<>>
    <3>1. watch' # Append(watch, cortex')
      <4>1. watch \in Seq(Snapshots)
        BY DEF TypeOK
      <4> QED
        BY <2>3, <4>1, LastOfAppend
    <3>2. /\ watch' = watch /\ cortex' = cortex /\ children' = children
          /\ work'[c] = work[c]
          /\ c \in queue \cup backoff => c \in queue' \cup backoff'
      BY <1>8, <2>3, <3>1, StatusEffect
         DEF StatusStep, PublishStatus, Fails, TypeOK, WorkMap
    <3> QED
      BY <3>2, BystanderRemembers
  <2> QED
    BY <2>1, <2>2, <2>3
<1>9. ASSUME NEW d \in Controllers, ErrorStep(d)
      PROVE  NotForgotten(c)'
  <2>1. CASE d = c
    BY <1>9, <2>1 DEF ErrorStep, Fails, NotForgotten
  <2>2. CASE d # c
    <3>1. /\ watch' = watch /\ cortex' = cortex /\ children' = children
          /\ work'[c] = work[c]
          /\ c \in queue \cup backoff => c \in queue' \cup backoff'
      BY <1>9, <2>2 DEF ErrorStep, Fails, TypeOK, WorkMap
    <3> QED
      BY <3>1, BystanderRemembers
  <2> QED
    BY <2>1, <2>2
<1> QED
  BY <1>1, <1>2, <1>4, <1>5, <1>6, <1>7, <1>8, <1>9 DEF KindOfStep, WorkerStep

----------------------------------------------------------------------------
(* The invariant *)

(* What any step, a deletion included, does to what the informer is owed.  *)
LEMMA InformerIsFed ==
  ASSUME TypeOK, [Next]_vars
  PROVE  \/ UNCHANGED <<cortex, watch, cache>>
         \/ watch' = Append(watch, cortex') /\ UNCHANGED cache
         \/ /\ watch # <<>> /\ cache' = Head(watch) /\ watch' = Tail(watch)
            /\ UNCHANGED cortex
         \/ watch' = <<>> /\ cache' = cortex /\ UNCHANGED cortex
<1> USE DEF apiVars, infVars, ctlVars
<1>1. CASE User
  BY <1>1 DEF User, CreateCortex, EditSpec, DeleteCortex, Store
<1>2. CASE Deliver
  BY <1>2 DEF Deliver
<1>3. CASE Resync
  BY <1>3 DEF Resync
<1>4. CASE Crash
  BY <1>4 DEF Crash, Restarted
<1>5. ASSUME NEW i \in Managed, Collect(i) \/ SyncChild(i)
      PROVE  UNCHANGED <<cortex, watch, cache>>
  BY <1>5 DEF Collect, SyncChild
<1>6. ASSUME NEW c \in Controllers, PublishStatus(c), UNCHANGED infVars
      PROVE  \/ UNCHANGED <<cortex, watch, cache>>
             \/ watch' = Append(watch, cortex') /\ UNCHANGED cache
  BY <1>6 DEF PublishStatus, Store
<1>7. ASSUME NEW c \in Controllers, LostReply(c)
      PROVE  \/ UNCHANGED <<cortex, watch, cache>>
             \/ watch' = Append(watch, cortex') /\ UNCHANGED cache
  BY <1>6, <1>7 DEF LostReply, CreateChild, UpdateChild
<1>8. ASSUME NEW c \in Controllers, Panic(c)
      PROVE  watch' = <<>> /\ cache' = cortex /\ UNCHANGED cortex
  BY <1>8 DEF Panic, Restarted
<1>9. ASSUME NEW c \in Controllers, Works(c), ~Panic(c)
      PROVE  \/ UNCHANGED <<cortex, watch, cache>>
             \/ watch' = Append(watch, cortex') /\ UNCHANGED cache
  BY <1>6, <1>9
     DEF Works, StartAbsent, StartBlocked, StartUnbuildable, Start,
         ApplyUnchanged, ApplyCreate, ApplyUpdate, ApplyRefused, CreateChild,
         UpdateChild, StatusUpdate, StatusRefused
<1>10. ASSUME NEW c \in Controllers, TimerFires(c) \/ Fault(c)
       PROVE  UNCHANGED <<cortex, watch, cache>>
  BY <1>10 DEF TimerFires, Fault
<1>11. CASE UNCHANGED vars
  BY <1>11 DEF vars
<1> QED
  BY <1>1, <1>2, <1>3, <1>4, <1>5, <1>7, <1>8, <1>9, <1>10, <1>11
     DEF Next, System

LEMMA CacheKeepsUpStep ==
  ASSUME TypeOK, CacheKeepsUp, [Next]_vars
  PROVE  CacheKeepsUp'
<1>1. watch \in Seq(Snapshots)
  BY DEF TypeOK
<1>2. CASE UNCHANGED <<cortex, watch, cache>>
  BY <1>2 DEF CacheKeepsUp
<1>3. CASE watch' = Append(watch, cortex')
  BY <1>1, <1>3, LastOfAppend DEF CacheKeepsUp
<1>4. CASE /\ watch # <<>> /\ cache' = Head(watch) /\ watch' = Tail(watch)
           /\ UNCHANGED cortex
  BY <1>1, <1>4, LastOfTail DEF CacheKeepsUp
<1>5. CASE watch' = <<>> /\ cache' = cortex /\ UNCHANGED cortex
  BY <1>5 DEF CacheKeepsUp
<1> QED
  BY <1>2, <1>3, <1>4, <1>5, InformerIsFed

LEMMA ConvergenceInit ==
  Init => ConvergenceInvariant
<1> SUFFICES ASSUME Init
             PROVE  ConvergenceInvariant
  OBVIOUS
<1>1. /\ cortex.status = {} /\ ~cortex.alive /\ watch = <<>>
      /\ cache = cortex /\ ~cache.alive
      /\ DOMAIN children = {} /\ DOMAIN childCache = {}
  BY DEF Init, Gone
<1>2. \A c \in Controllers : ~Busy(c) /\ ~work[c].copy.alive
  BY DEF Init, Idle, Gone, Busy
<1>3. CacheKeepsUp /\ RefBacked /\ WorkIsThere
  BY <1>1, <1>2 DEF CacheKeepsUp, RefBacked, WorkIsThere
<1>4. SpecsInOrder
  BY <1>1, <1>2 DEF SpecsInOrder, Precedes
<1>5. ChildrenInOrder /\ NothingForgotten
  BY <1>1 DEF ChildrenInOrder, NothingForgotten
<1> QED
  BY <1>3, <1>4, <1>5 DEF ConvergenceInvariant

LEMMA ConvergenceStep ==
  TypeOK /\ RolloutInvariant /\ ConvergenceInvariant /\ [Next]_vars
    => ConvergenceInvariant'
<1> SUFFICES ASSUME TypeOK, RolloutInvariant, ConvergenceInvariant, [Next]_vars
             PROVE  ConvergenceInvariant'
  OBVIOUS
<1>1. CacheKeepsUp /\ CacheKeepsUp'
  BY CacheKeepsUpStep DEF ConvergenceInvariant
<1>2. CASE Undeleted'
  <2>1. Undeleted
    BY <1>2, EveryStep, UndeletedBefore
  <2>2. KindOfStep
    BY <1>2, <2>1, StillUndeleted, EveryKind
  <2>3. /\ WorkIsThere /\ RefBacked /\ SpecsInOrder /\ ChildrenInOrder
        /\ NothingForgotten
    BY <2>1 DEF ConvergenceInvariant
  <2>4. WorkIsThere' /\ RefBacked' /\ SpecsInOrder' /\ ChildrenInOrder'
    BY <2>2, <2>3, WorkIsThereStep, RefBackedStep, SpecsInOrderStep,
       ChildrenInOrderStep
  <2>5. NothingForgotten'
    <3>1. ASSUME cortex'.alive, NEW c \in Controllers
          PROVE  NotForgotten(c)'
      BY <1>1, <2>1, <2>2, <2>3, <3>1, NothingForgottenStep
    <3> QED
      BY <3>1 DEF NothingForgotten
  <2> QED
    BY <1>1, <2>4, <2>5 DEF ConvergenceInvariant
<1> QED
  BY <1>1, <1>2 DEF ConvergenceInvariant

(* Whatever interleaving of edits, deliveries, workers, faults and crashes *)
(* led there: up to the first deletion, nothing owed is forgotten and no   *)
(* child is newer than its controller knows.                               *)
THEOREM ConvergenceInvariantHolds == Spec => []ConvergenceInvariant
BY ConvergenceInit, ConvergenceStep, TypeCorrect, RolloutInvariantHolds, PTL
   DEF Spec

(* Up to the first deletion a published reference names a workload that    *)
(* exists, with its service.                                               *)
THEOREM RefBackedHolds == Spec => [](Undeleted => RefBacked)
<1>1. ConvergenceInvariant => (Undeleted => RefBacked)
  BY DEF ConvergenceInvariant
<1> QED
  BY <1>1, ConvergenceInvariantHolds, PTL

(* Without the means to delete it, a Cortex is never deleted.              *)
LEMMA NeverDeleted ==
  ASSUME Policies = {}
  PROVE  Spec => []Undeleted
<1>1. Init => Undeleted
  BY DEF Init, Gone, Undeleted
<1>2. TypeOK /\ RolloutInvariant /\ Undeleted /\ [Next]_vars => Undeleted'
  <2> SUFFICES ASSUME TypeOK, RolloutInvariant, Undeleted, [Next]_vars
               PROVE  Undeleted'
    OBVIOUS
  <2>1. ~DeleteCortex
    BY DEF DeleteCortex
  <2>2. cortex' = cortex \/ cortex'.alive
    BY <2>1, EveryKind, CortexEffect, StatusEffect DEF UserStep
  <2>3. CortexStep /\ cortex.uid \in Nat
    BY EveryStep DEF StepShape, TypeOK, Snapshots
  <2>4. ASSUME NEW c \in Controllers, StatusAccepted(c), cortex' = Written(c)
        PROVE  cortex'.uid = cortex.uid /\ cortex.alive
    BY <2>4, AcceptedWrite DEF RolloutInvariant, StatusAccepted
  <2> QED
    BY <2>2, <2>3, <2>4 DEF CortexStep, Undeleted, Gone
<1> QED
  BY <1>1, <1>2, TypeCorrect, RolloutInvariantHolds, PTL DEF Spec
=============================================================================
