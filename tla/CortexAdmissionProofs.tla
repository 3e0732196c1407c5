----------------------- MODULE CortexAdmissionProofs -----------------------
(***************************************************************************)
(* Proofs about the operator with its webhooks, for every set of users,    *)
(* edits and controllers.                                                  *)
(***************************************************************************)
EXTENDS CortexAdmission, CortexRolloutProofs

----------------------------------------------------------------------------
(* Default *)

(* Over keeps what is in its first argument.                               *)
LEMMA Overlay ==
  ASSUME NEW f, NEW g
  PROVE  /\ DOMAIN Over(f, g) = DOMAIN f \cup DOMAIN g
         /\ \A x \in DOMAIN f : Over(f, g)[x] = f[x]
         /\ \A x \in DOMAIN g \ DOMAIN f : Over(f, g)[x] = g[x]
BY DEF Over

(* What the default of a section adds to it.                               *)
Added(name) ==
  CASE name \in CacheNames ->
         [replicas |-> 2, memory_limit |-> 4096, max_item_size |-> "2m"]
    [] name \in Stateful   -> [datadir_size |-> "1Gi", replicas |-> 2]
    [] name \in Stateless  -> [replicas |-> 2]

(* The three Default methods of the sections have one shape.               *)
LEMMA SectionDefaultAdds ==
  ASSUME NEW name \in Workloads, NEW section
  PROVE  SectionDefault(name, section) = Over(section, Added(name))
BY DEF Workloads, SectionDefault, Added, MemcachedStatefulSetDefault,
       StatefulSetDefault, DeploymentDefault

(* They add whatever the builders dereference.                             *)
LEMMA AddedSuffices ==
  ASSUME NEW name \in Workloads
  PROVE  Dereferenced(name) \subseteq DOMAIN Added(name)
BY DEF Workloads, CacheNames, Stateful, Stateless, StatefulSetNames,
       DeploymentNames, Dereferenced, Added

(* What Cortex.Default leaves and what it sets.                            *)
LEMMA DefaultFields ==
  ASSUME NEW spec, DOMAIN spec = DOMAIN Blank
  PROVE  /\ Default(spec).image = spec.image
         /\ Default(spec).config = spec.config
         /\ Default(spec).sections =
              [name \in Workloads |-> SectionDefault(name, Given(spec, name))]
<1>1. {"image", "config", "sections", "cacheImage"} \subseteq DOMAIN spec
  BY DEF Blank
<1> QED
  BY <1>1 DEF Default

(* One section of it.                                                      *)
LEMMA DefaultSection ==
  ASSUME NEW spec, DOMAIN spec = DOMAIN Blank, NEW name \in Workloads
  PROVE  /\ name \in DOMAIN Default(spec).sections
         /\ Default(spec).sections[name]
              = Over(Given(spec, name), Added(name))
<1>1. Default(spec).sections =
        [n \in Workloads |-> SectionDefault(n, Given(spec, n))]
  BY DefaultFields
<1> HIDE DEF Default
<1>2. Default(spec).sections[name] = SectionDefault(name, Given(spec, name))
  BY <1>1
<1> QED
  BY <1>1, <1>2, SectionDefaultAdds

(* After Cortex.Default every workload can be built, whatever was given.   *)
LEMMA DefaultCompletes ==
  ASSUME NEW spec, DOMAIN spec = DOMAIN Blank
  PROVE  Complete(Default(spec))
<1> SUFFICES ASSUME NEW name \in Workloads
             PROVE  Builds(name, Default(spec))
  BY DEF Complete
<1>1. Default(spec).sections[name] = Over(Given(spec, name), Added(name))
  BY DefaultSection
<1>2. Dereferenced(name) \subseteq DOMAIN Default(spec).sections[name]
  <2>1. DOMAIN Over(Given(spec, name), Added(name))
          = DOMAIN Given(spec, name) \cup DOMAIN Added(name)
    BY Overlay
  <2> QED
    BY <1>1, <2>1, AddedSuffices
<1>3. name \in DOMAIN Default(spec).sections
  BY DefaultSection
<1> QED
  BY <1>2, <1>3 DEF Builds

(* No field of a section that is given is replaced.                        *)
LEMMA DefaultKeeps ==
  ASSUME NEW spec, DOMAIN spec = DOMAIN Blank, NEW name \in Workloads,
         NEW field, Value(spec.sections, name, field) # {}
  PROVE  Value(Default(spec).sections, name, field)
           = Value(spec.sections, name, field)
<1>1. /\ name \in DOMAIN spec.sections
      /\ field \in DOMAIN spec.sections[name]
  BY DEF Value, Optional
<1>2. Default(spec).sections[name] = Over(spec.sections[name], Added(name))
  BY <1>1, DefaultSection DEF Given
<1>3. /\ field \in DOMAIN Default(spec).sections[name]
      /\ Default(spec).sections[name][field] = spec.sections[name][field]
  BY <1>1, <1>2 DEF Over
<1>4. name \in DOMAIN Default(spec).sections
  BY DefaultSection
<1> QED
  BY <1>1, <1>3, <1>4 DEF Value, Optional

(* Defaulting what has been defaulted changes nothing: an edit that is     *)
(* applied to a stored spec, and defaulted again, is all that changes.     *)
THEOREM DefaultIsIdempotent ==
  ASSUME NEW spec, DOMAIN spec = DOMAIN Blank
  PROVE  Default(Default(spec)) = Default(spec)
<1> DEFINE once == Default(spec)
           sections == [name \in Workloads |->
                          SectionDefault(name, Given(once, name))]
<1>1. DOMAIN once = DOMAIN spec
  BY DEF Default
<1>2. ASSUME NEW name \in Workloads
      PROVE  SectionDefault(name, Given(once, name)) = once.sections[name]
  <2>1. Given(once, name) = Over(Given(spec, name), Added(name))
    BY DefaultSection DEF Given
  <2>2. SectionDefault(name, Given(once, name))
          = Over(Over(Given(spec, name), Added(name)), Added(name))
    BY <2>1, SectionDefaultAdds
  <2>3. ASSUME NEW f, NEW g
        PROVE  Over(Over(f, g), g) = Over(f, g)
    BY DEF Over
  <2> QED
    BY <2>2, <2>3, DefaultSection
<1>3. once.sections = sections
  BY <1>2, DefaultFields
<1>4. once.cacheImage # NoImage
  BY DEF Default, Blank, DefaultCacheImage, NoImage
<1>5. Default(once) = [once EXCEPT !.sections = sections]
  BY <1>1, <1>4 DEF Default
<1>6. once = [f \in DOMAIN once |-> once[f]]
  BY DEF Default
<1> QED
  BY <1>3, <1>5, <1>6
----------------------------------------------------------------------------
(* Edits *)

(* A patch stores what it says and keeps the rest.                         *)
LEMMA PatchExplains ==
  ASSUME NEW edit, NEW spec, DOMAIN spec = DOMAIN Blank
  PROVE  Explains(edit, spec, Patched(edit, spec))
<1> DEFINE new == Patched(edit, spec)
           kept == DOMAIN spec.sections \ edit.drop
           Old(name) == IF name \in kept THEN spec.sections[name] ELSE <<>>
           New(name) == IF name \in DOMAIN edit.sections
                          THEN edit.sections[name] ELSE <<>>
<1>1. {"image", "config", "sections"} \subseteq DOMAIN spec
  BY DEF Blank
<1>2. /\ new.image = Set(edit, "image", spec.image)
      /\ new.config = Set(edit, "config", spec.config)
      /\ new.sections = [name \in kept \cup DOMAIN edit.sections |->
                           Over(New(name), Old(name))]
  BY <1>1 DEF Patched
<1> HIDE DEF new
<1>3. ASSUME NEW name \in Workloads, NEW field,
             Value(edit.sections, name, field) # {}
      PROVE  Value(new.sections, name, field)
               = Value(edit.sections, name, field)
  <2>1. name \in DOMAIN edit.sections /\ field \in DOMAIN New(name)
    BY <1>3 DEF Value, Optional
  <2>2. new.sections[name] = Over(New(name), Old(name))
    BY <1>2, <2>1
  <2>3. /\ field \in DOMAIN new.sections[name]
        /\ new.sections[name][field] = New(name)[field]
    <3> HIDE DEF New, Old
    <3> QED
      BY <2>1, <2>2 DEF Over
  <2>4. name \in DOMAIN new.sections
    BY <1>2, <2>1
  <2> QED
    BY <2>1, <2>3, <2>4 DEF Value, Optional
<1>4. ASSUME NEW name \in Workloads \ edit.drop, NEW field,
             Value(edit.sections, name, field) = {},
             Value(spec.sections, name, field) # {}
      PROVE  Value(new.sections, name, field)
               = Value(spec.sections, name, field)
  <2>1. name \in kept /\ field \in DOMAIN Old(name)
    BY <1>4 DEF Value, Optional
  <2>2. field \notin DOMAIN New(name)
    BY <1>4 DEF Value, Optional
  <2>3. new.sections[name] = Over(New(name), Old(name))
    BY <1>2, <2>1
  <2>4. /\ field \in DOMAIN new.sections[name]
        /\ new.sections[name][field] = Old(name)[field]
    <3> HIDE DEF New, Old
    <3> QED
      BY <2>1, <2>2, <2>3 DEF Over
  <2>5. name \in DOMAIN new.sections
    BY <1>2, <2>1
  <2> QED
    BY <2>1, <2>4, <2>5 DEF Value, Optional
<1>5. Explains(edit, spec, new)
  BY <1>2, <1>3, <1>4 DEF Explains
<1> QED
  BY <1>5 DEF new

(* Defaulting the outcome does not change that.                            *)
LEMMA DefaultExplains ==
  ASSUME NEW edit, NEW old, NEW new, DOMAIN new = DOMAIN Blank,
         Explains(edit, old, new)
  PROVE  Explains(edit, old, Default(new))
<1>1. /\ Default(new).image = new.image
      /\ Default(new).config = new.config
  BY DefaultFields
<1>2. ASSUME NEW name \in Workloads, NEW field \in Fields
      PROVE  LET Asked == Value(edit.sections, name, field)
                 Had   == Value(old.sections, name, field)
                 Has   == Value(Default(new).sections, name, field)
             IN  /\ Asked # {} => Has = Asked
                 /\ Asked = {} /\ Had # {} /\ name \notin edit.drop
                      => Has = Had
  <2>1. Value(new.sections, name, field) # {}
          => Value(Default(new).sections, name, field)
               = Value(new.sections, name, field)
    BY DefaultKeeps
  <2> QED
    BY <2>1 DEF Explains
<1> QED
  BY <1>1, <1>2 DEF Explains

----------------------------------------------------------------------------
(* What a request is, in the state where version now is stored *)

RequestGood(r, now) ==
  /\ r \in Requests
  /\ r.phase # "none" =>
       /\ r.edit \in Submitted
       /\ r.object \in Specs
       /\ r.rv <= now.rv
       /\ ~r.creates /\ now.alive /\ r.rv = now.rv =>
            Explains(r.edit, now.spec, r.object)
  /\ r.phase = "default" => r.passed = {}
  /\ "mutating" \in r.passed => Complete(r.object)
  /\ "validating" \in r.passed => Validate(r.object)

RequestsGood ==
  /\ requests \in [Users -> Requests]
  /\ \A u \in Users : RequestGood(requests[u], cortex)

(* The same thing as the parts of the invariant that speak of requests.    *)
LEMMA RequestsGoodMeans ==
  AdmissionTypeOK /\ WebhooksHeeded /\ BasedOnThePresent
    <=> /\ TypeOK /\ webhooks \subseteq Both /\ bypassed \in BOOLEAN
        /\ RequestsGood
BY DEF AdmissionTypeOK, WebhooksHeeded, BasedOnThePresent, RequestsGood,
       RequestGood, UnderWay

(* A request that is over claims nothing.                                  *)
LEMMA NoRequestGood ==
  ASSUME NEW now
  PROVE  RequestGood(NoRequest, now)
BY DEF RequestGood, NoRequest, Requests

(* A request starts from the version that is stored.                       *)
LEMMA PreparedGood ==
  ASSUME TypeOK, WellAdmitted(cortex), NEW edit \in Submitted
  PROVE  RequestGood(Prepared(edit), cortex)
<1> DEFINE base == IF cortex.alive THEN cortex.spec ELSE Blank
<1>1. /\ base \in Specs \cup {Blank}
      /\ cortex.rv \in Nat
      /\ cortex.alive \in BOOLEAN
  BY DEF TypeOK, Snapshots, WellAdmitted
<1>2. DOMAIN base = DOMAIN Blank /\ Patched(edit, base) \in Specs
  BY <1>1, SubmissionsAssumption DEF Submitted
<1>3. Explains(edit, base, Patched(edit, base))
  BY <1>2, PatchExplains
<1>4. Prepared(edit) =
        [phase |-> "default", edit |-> edit, creates |-> ~cortex.alive,
         rv |-> cortex.rv, passed |-> {}, object |-> Patched(edit, base)]
  BY DEF Prepared
<1> HIDE DEF base
<1>5. cortex.alive => base = cortex.spec
  BY DEF base
<1> QED
  BY <1>1, <1>2, <1>3, <1>4, <1>5 DEF RequestGood, Requests

(* The outcome of the mutating webhook, or of its absence.                 *)
LEMMA DefaultedGood ==
  ASSUME NEW r, NEW now, RequestGood(r, now), r.phase = "default",
         NEW called \in SUBSET {"mutating"}
  PROVE  RequestGood([r EXCEPT !.phase  = "validate",
                               !.passed = called,
                               !.object = IF called = {} THEN @
                                                        ELSE Default(@)],
                     now)
<1> DEFINE object == IF called = {} THEN r.object ELSE Default(r.object)
           new == [r EXCEPT !.phase = "validate", !.passed = called,
                            !.object = object]
<1>1. r \in Requests /\ r.object \in Specs /\ DOMAIN r.object = DOMAIN Blank
  BY SubmissionsAssumption DEF RequestGood
<1>2. object \in Specs
  BY <1>1, DefaultsAssumption
<1>3. called # {} => Complete(object)
  BY <1>1, DefaultCompletes
<1>4. ASSUME NEW old, Explains(r.edit, old, r.object)
      PROVE  Explains(r.edit, old, object)
  BY <1>1, <1>4, DefaultExplains
<1> HIDE DEF object
<1>5. /\ new \in Requests
      /\ new.phase = "validate" /\ new.passed = called /\ new.object = object
      /\ new.edit = r.edit /\ new.rv = r.rv /\ new.creates = r.creates
  BY <1>1, <1>2 DEF Requests, Both
<1> HIDE DEF new
<1>6. RequestGood(new, now)
  BY <1>2, <1>3, <1>4, <1>5 DEF RequestGood
<1> QED
  BY <1>6 DEF new, object

(* The outcome of the validating webhook, or of its absence.               *)
LEMMA ValidatedGood ==
  ASSUME NEW r, NEW now, RequestGood(r, now), r.phase = "validate",
         NEW called \in SUBSET {"validating"},
         called = {} \/ Validate(r.object)
  PROVE  RequestGood([r EXCEPT !.phase = "store", !.passed = @ \cup called],
                     now)
<1> DEFINE new == [r EXCEPT !.phase = "store", !.passed = r.passed \cup called]
<1>1. r \in Requests
  BY DEF RequestGood
<1>2. /\ new \in Requests
      /\ new.phase = "store" /\ new.passed = r.passed \cup called
      /\ new.object = r.object /\ new.edit = r.edit /\ new.rv = r.rv
      /\ new.creates = r.creates
  BY <1>1 DEF Requests, Both
<1> HIDE DEF new
<1>3. RequestGood(new, now)
  BY <1>2 DEF RequestGood
<1> QED
  BY <1>3 DEF new

----------------------------------------------------------------------------
(* Steps *)

(* No step of the operator changes the spec of a Cortex that lives on.     *)
LEMMA SystemKeepsSpec ==
  ASSUME TypeOK, DeleteCortex \/ System
  PROVE  \/ ~cortex'.alive
         \/ cortex.alive /\ cortex'.spec = cortex.spec
<1> USE DEF apiVars
<1>1. CASE DeleteCortex
  BY <1>1 DEF DeleteCortex, Store, Gone
<1>2. CASE cortex' = cortex
  BY <1>2 DEF TypeOK, Snapshots
<1>3. ASSUME NEW c \in Controllers, PublishStatus(c)
      PROVE  cortex.alive /\ cortex'.spec = cortex.spec
  <2>1. cortex.alive
    BY <1>3 DEF PublishStatus, StatusAccepted
  <2>2. cortex' = Written(c)
    BY <1>3 DEF PublishStatus, Store
  <2>3. CASE Written(c) = cortex
    BY <2>1, <2>2, <2>3
  <2>4. CASE Written(c)
               = [cortex EXCEPT !.status = Pending(c), !.rv = @ + 1]
    BY <2>1, <2>2, <2>4 DEF TypeOK, Snapshots
  <2> QED
    BY <2>1, <2>3, <2>4 DEF Written
<1>4. CASE Deliver \/ Resync \/ Crash
  BY <1>2, <1>4 DEF Deliver, Resync, Crash, Restarted
<1>5. ASSUME NEW i \in Managed, Collect(i) \/ SyncChild(i)
      PROVE  cortex' = cortex
  BY <1>5 DEF Collect, SyncChild
<1>6. ASSUME NEW c \in Controllers, TimerFires(c)
      PROVE  cortex' = cortex
  BY <1>6 DEF TimerFires
<1>7. ASSUME NEW c \in Controllers, Works(c) \/ Fault(c) \/ LostReply(c)
      PROVE  cortex' = cortex \/ PublishStatus(c)
  BY <1>7 DEF Works, StartAbsent, StartBlocked, StartUnbuildable, Start,
              ApplyUnchanged, ApplyCreate, ApplyUpdate, ApplyRefused, Panic,
              Restarted, StatusUpdate, StatusRefused, Fault, LostReply,
              CreateChild, UpdateChild
<1> QED
  BY <1>1, <1>2, <1>3, <1>4, <1>5, <1>6, <1>7 DEF System

(* Storing a request is the creation or an edit of a Cortex, to StepShape. *)
LEMMA StoreRequestStep ==
  ASSUME TypeOK, RequestsGood, NEW u \in Users, StoreRequest(u)
  PROVE  /\ TypeOK'
         /\ StepShape
         /\ \/ cortex' = cortex /\ bypassed' = bypassed
            \/ /\ cortex'.alive
               /\ cortex'.spec = requests[u].object
               /\ CanStore(u)
               /\ bypassed' = (bypassed \/ requests[u].passed # Both)
<1> USE DEF apiVars, infVars, ctlVars
<1>1. /\ UNCHANGED <<children, stale, cache, childCache, queue, backoff, work,
                      used>>
      /\ CanStore(u)
  BY DEF StoreRequest
<1>2. /\ \A i \in DOMAIN children' : ChildStep(i)
      /\ \A c \in Controllers : WorkStep(c)
      /\ CacheStep
  BY <1>1 DEF ChildStep, WorkStep, CacheStep
<1>3. CASE UNCHANGED <<cortex, watch, bypassed>>
  BY <1>1, <1>2, <1>3
     DEF TypeOK, StepShape, CortexStep, WatchStep, ChildMap, WorkMap,
         WorkRecord
<1>4. CASE /\ Store(Accepted(u))
           /\ bypassed' = (bypassed \/ requests[u].passed # Both)
  <2>1. requests[u].object \in Specs
    BY DEF RequestsGood, RequestGood, StoreRequest
  <2>2. CASE cortex.alive
    <3>1. Accepted(u) =
            [cortex EXCEPT !.spec = requests[u].object, !.rv = @ + 1]
      BY <2>2 DEF Accepted
    <3>2. Accepted(u) \in Snapshots
      BY <2>1, <3>1, SetSpec DEF TypeOK
    <3>3. /\ Accepted(u).alive /\ Accepted(u).uid = cortex.uid
          /\ Accepted(u).rv = cortex.rv + 1
          /\ Accepted(u).status = cortex.status
          /\ Accepted(u).spec = requests[u].object
      BY <2>2, <3>1 DEF TypeOK, Snapshots
    <3>4. cortex' = Accepted(u) /\ watch' = Append(watch, cortex')
      BY <1>4 DEF Store
    <3>5. TypeOK'
      BY <1>1, <1>4, <3>2, StoreType DEF TypeOK, ChildMap, WorkMap, WorkRecord
    <3> QED
      BY <1>1, <1>2, <1>4, <2>2, <3>3, <3>4, <3>5
         DEF StepShape, CortexStep, WatchStep
  <2>3. CASE ~cortex.alive
    <3>1. Accepted(u) =
            [alive |-> TRUE, uid |-> cortex.uid + 1, rv |-> cortex.rv + 1,
             spec |-> requests[u].object, status |-> {}]
      BY <2>3 DEF Accepted
    <3>2. Accepted(u) \in Snapshots
      BY <2>1, <3>1 DEF TypeOK, Snapshots
    <3>3. cortex' = Accepted(u) /\ watch' = Append(watch, cortex')
      BY <1>4 DEF Store
    <3>4. TypeOK'
      BY <1>1, <1>4, <3>2, StoreType DEF TypeOK, ChildMap, WorkMap, WorkRecord
    <3> QED
      BY <1>1, <1>2, <1>4, <2>3, <3>1, <3>3, <3>4
         DEF StepShape, CortexStep, WatchStep
  <2> QED
    BY <2>2, <2>3 DEF TypeOK, Snapshots
<1> QED
  BY <1>3, <1>4 DEF StoreRequest

(* The webhooks and the users' requests as they see them: what a step does *)
(* to the requests, when it does not store one.                            *)
LEMMA RequestStep ==
  ASSUME TypeOK, WellAdmitted(cortex), RequestsGood, NEW u \in Users,
         \/ Submit(u) \/ CallFails(u)
         \/ CallDefault(u) \/ CallValidate(u) \/ Conflict(u)
  PROVE  /\ TypeOK'
         /\ UNCHANGED <<apiVars, infVars, ctlVars, webhooks, bypassed>>
         /\ \E r : /\ RequestGood(r, cortex)
                  /\ requests' = [requests EXCEPT ![u] = r]
<1> USE DEF vars, apiVars, infVars, ctlVars
<1>1. RequestGood(requests[u], cortex)
  BY DEF RequestsGood
<1>2. ASSUME UNCHANGED vars
      PROVE  TypeOK'
  BY <1>2 DEF TypeOK, ChildMap, WorkMap, WorkRecord
<1>3. CASE Submit(u)
  <2>1. PICK edit \in Submitted :
          /\ requests' = [requests EXCEPT ![u] = Prepared(edit)]
          /\ Spend("edits") \/ used' = used
          /\ UNCHANGED <<apiVars, infVars, ctlVars, webhooks, bypassed>>
    BY <1>3 DEF Submit, Submitted
  <2>2. used' \in [edits : Nat, faults : Nat, crashes : Nat, resyncs : Nat]
    BY <2>1 DEF TypeOK, Spend
  <2>3. TypeOK'
    BY <2>1, <2>2 DEF TypeOK, ChildMap, WorkMap, WorkRecord
  <2> QED
    BY <2>1, <2>3, PreparedGood
<1>4. CASE CallFails(u)
  BY <1>2, <1>4, NoRequestGood DEF CallFails
<1>5. CASE CallDefault(u)
  <2> DEFINE called == webhooks \cap {"mutating"}
             r == requests[u]
             new == [r EXCEPT !.phase  = "validate",
                              !.passed = called,
                              !.object = IF called = {} THEN @ ELSE Default(@)]
  <2>1. /\ r.phase = "default"
        /\ requests' = [requests EXCEPT ![u] = new]
        /\ UNCHANGED <<vars, webhooks, bypassed>>
    BY <1>5 DEF CallDefault
  <2>2. called \in SUBSET {"mutating"}
    OBVIOUS
  <2> HIDE DEF called, r
  <2>3. r.phase = "default" /\ RequestGood(r, cortex)
    BY <1>1, <2>1 DEF r
  <2>4. RequestGood(new, cortex)
    BY <2>2, <2>3, DefaultedGood
  <2> HIDE DEF new
  <2> QED
    BY <1>2, <2>1, <2>4
<1>6. CASE CallValidate(u)
  <2> DEFINE called == webhooks \cap {"validating"}
             new == [requests[u] EXCEPT !.phase = "store",
                                        !.passed = @ \cup called]
  <2>1. /\ requests[u].phase = "validate"
        /\ requests' = [requests EXCEPT ![u] =
             IF called = {} \/ Validate(requests[u].object) THEN new
                                                            ELSE NoRequest]
        /\ UNCHANGED <<vars, webhooks, bypassed>>
    BY <1>6 DEF CallValidate
  <2>2. called \in SUBSET {"validating"}
    OBVIOUS
  <2>3. called = {} \/ Validate(requests[u].object) => RequestGood(new, cortex)
    BY <1>1, <2>1, <2>2, ValidatedGood
  <2> HIDE DEF called, new
  <2> QED
    BY <1>2, <2>1, <2>3, NoRequestGood
<1>7. CASE Conflict(u)
  <2>1. /\ requests[u].phase = "store"
        /\ requests' = [requests EXCEPT ![u] =
             IF cortex.alive /\ ~requests[u].creates
               THEN Prepared(requests[u].edit) ELSE NoRequest]
        /\ UNCHANGED <<vars, webhooks, bypassed>>
    BY <1>7 DEF Conflict, RequestsGood
  <2>2. requests[u].edit \in Submitted
    BY <1>1, <2>1 DEF RequestGood
  <2>3. RequestGood(Prepared(requests[u].edit), cortex)
    BY <2>2, PreparedGood
  <2> QED
    BY <1>2, <2>1, <2>3, NoRequestGood
<1> QED
  BY <1>3, <1>4, <1>5, <1>6, <1>7

(* A request that is left alone stays good: the version it may replace is  *)
(* the present one, or there is no such version any more.                  *)
LEMMA RequestKept ==
  ASSUME NEW r, NEW a \in Snapshots, NEW b \in Snapshots,
         RequestGood(r, a), EvolvesTo(a, b)
  PROVE  RequestGood(r, b)
<1>1. b = a \/ b.rv = a.rv + 1
  BY DEF EvolvesTo
<1>2. r \in Requests /\ r.rv \in Nat /\ a.rv \in Nat /\ b.rv \in Nat
  BY DEF RequestGood, Requests, Snapshots
<1>3. CASE b.rv = a.rv + 1
  <2>1. r.phase # "none" => r.rv <= b.rv /\ r.rv # b.rv
    BY <1>2, <1>3 DEF RequestGood
  <2> QED
    BY <2>1 DEF RequestGood
<1> QED
  BY <1>1, <1>3

(* Every copy held after a step was held before it, or is the new version. *)
LEMMA CopiesAdmittedStep ==
  ASSUME TypeOK, StepShape, CopiesAdmitted, bypassed => bypassed',
         WellAdmitted(cortex)'
  PROVE  CopiesAdmitted'
<1>1. WellAdmitted(cache) => WellAdmitted(cache)' \/ cache' # cache
  BY DEF WellAdmitted
<1>2. cache' = cortex /\ cortex' = cortex => WellAdmitted(cache)'
  BY DEF WellAdmitted
<1>3. watch # <<>> /\ cache' = Head(watch) => WellAdmitted(cache)'
  <2> SUFFICES ASSUME watch # <<>>, cache' = Head(watch)
               PROVE  WellAdmitted(cache)'
    OBVIOUS
  <2>1. 1 \in 1 .. Len(watch) /\ Head(watch) = watch[1]
    BY DEF TypeOK
  <2>2. WellAdmitted(watch[1])
    BY <2>1 DEF CopiesAdmitted
  <2> QED
    BY <2>1, <2>2 DEF WellAdmitted
<1>4. WellAdmitted(cache)'
  BY <1>1, <1>2, <1>3 DEF StepShape, CacheStep, CopiesAdmitted
<1>5. ASSUME NEW k \in 1 .. Len(watch')
      PROVE  WellAdmitted(watch[k])'
  <2>1. CASE watch' = watch
    <3>1. WellAdmitted(watch[k])
      BY <1>5, <2>1 DEF CopiesAdmitted
    <3> QED
      BY <2>1, <3>1 DEF WellAdmitted
  <2>2. CASE watch' = <<>>
    BY <1>5, <2>2
  <2>3. CASE watch # <<>> /\ watch' = Tail(watch)
    <3>1. k + 1 \in 1 .. Len(watch) /\ watch'[k] = watch[k + 1]
      BY <1>5, <2>3 DEF TypeOK
    <3>2. WellAdmitted(watch[k + 1])
      BY <3>1 DEF CopiesAdmitted
    <3> QED
      BY <3>1, <3>2 DEF WellAdmitted
  <2>4. CASE watch' = Append(watch, cortex')
    <3>1. \/ k \in 1 .. Len(watch) /\ watch'[k] = watch[k]
          \/ watch'[k] = cortex'
      BY <1>5, <2>4 DEF TypeOK
    <3>2. k \in 1 .. Len(watch) => WellAdmitted(watch[k])
      BY DEF CopiesAdmitted
    <3> QED
      BY <3>1, <3>2 DEF WellAdmitted
  <2> QED
    BY <2>1, <2>2, <2>3, <2>4 DEF StepShape, WatchStep
<1>6. ASSUME NEW c \in Controllers
      PROVE  WellAdmitted(work[c].copy)'
  <2>1. WellAdmitted(work[c].copy) /\ WellAdmitted(cache)
    BY DEF CopiesAdmitted
  <2>2. ~Idle.copy.alive
    BY DEF Idle, Gone
  <2>3. WorkStep(c)
    BY DEF StepShape
  <2>4. CASE work'[c] = Idle
    BY <2>2, <2>4 DEF WellAdmitted
  <2>5. CASE work'[c].copy = work[c].copy
    BY <2>1, <2>5 DEF WellAdmitted
  <2>6. CASE work'[c].copy = cache
    BY <2>1, <2>6 DEF WellAdmitted
  <2>7. CASE work'[c].copy = cortex'
    BY <2>7 DEF WellAdmitted
  <2> QED
    BY <2>3, <2>4, <2>5, <2>6, <2>7 DEF WorkStep
<1> QED
  BY <1>4, <1>5, <1>6 DEF CopiesAdmitted

Invariants ==
  /\ TypeOK
  /\ webhooks \subseteq Both
  /\ bypassed \in BOOLEAN
  /\ RequestsGood
  /\ RolloutInvariant
  /\ CopiesAdmitted

(* What any step does to the operator, to the version stored, and to the   *)
(* requests.                                                               *)
AdmissionShape ==
  /\ TypeOK'
  /\ StepShape
  /\ webhooks' \subseteq Both
  /\ bypassed' \in BOOLEAN
  /\ bypassed => bypassed'
  /\ WellAdmitted(cortex)'
  /\ \/ requests' = requests
     \/ \E u \in Users : \E r :
          /\ RequestGood(r, cortex)
          /\ requests' = [requests EXCEPT ![u] = r]

(* Every step of the users, the API server, the webhooks and the operator  *)
(* has that shape.                                                         *)
LEMMA EveryAdmissionStep ==
  Invariants /\ [AdmissionNext]_allVars => AdmissionShape
<1> SUFFICES ASSUME Invariants, [AdmissionNext]_allVars
             PROVE  AdmissionShape
  OBVIOUS
<1> USE DEF Invariants
<1>1. WellAdmitted(cortex)
  BY DEF CopiesAdmitted
<1>2. ASSUME UNCHANGED vars, UNCHANGED bypassed
      PROVE  TypeOK' /\ StepShape /\ WellAdmitted(cortex)'
  <2>1. cortex' = cortex
    BY <1>2 DEF vars, apiVars
  <2> QED
    BY <1>1, <1>2, <2>1, TypeStep, EveryStep DEF WellAdmitted
<1>3. ASSUME NEW u \in Users,
             \/ Submit(u) \/ CallFails(u)
             \/ CallDefault(u) \/ CallValidate(u) \/ Conflict(u)
      PROVE  AdmissionShape
  <2>1. /\ TypeOK'
        /\ UNCHANGED <<apiVars, infVars, ctlVars, webhooks, bypassed>>
        /\ \E r : /\ RequestGood(r, cortex)
                 /\ requests' = [requests EXCEPT ![u] = r]
    BY <1>1, <1>3, RequestStep
  <2>2. StepShape
    BY <2>1 DEF apiVars, infVars, ctlVars, StepShape, CortexStep, CacheStep,
                WatchStep, WorkStep, ChildStep
  <2>3. WellAdmitted(cortex)'
    BY <1>1, <2>1 DEF WellAdmitted, apiVars
  <2> QED
    BY <2>1, <2>2, <2>3 DEF AdmissionShape
<1>4. ASSUME NEW u \in Users, StoreRequest(u)
      PROVE  AdmissionShape
  <2>1. /\ TypeOK'
        /\ StepShape
        /\ \/ cortex' = cortex /\ bypassed' = bypassed
           \/ /\ cortex'.alive
              /\ cortex'.spec = requests[u].object
              /\ CanStore(u)
              /\ bypassed' = (bypassed \/ requests[u].passed # Both)
    BY <1>4, StoreRequestStep
  <2>2. requests' = [requests EXCEPT ![u] = NoRequest] /\ webhooks' = webhooks
    BY <1>4 DEF StoreRequest
  <2>3. /\ requests[u].object \in Specs
        /\ requests[u].passed = Both =>
             Complete(requests[u].object) /\ Validate(requests[u].object)
    BY <1>4 DEF StoreRequest, RequestsGood, RequestGood, Both
  <2>4. WellAdmitted(cortex)'
    <3>1. CASE cortex' = cortex /\ bypassed' = bypassed
      BY <1>1, <3>1 DEF WellAdmitted
    <3>2. CASE /\ cortex'.spec = requests[u].object
               /\ bypassed' = (bypassed \/ requests[u].passed # Both)
      <4>1. cortex'.spec # NoSpec
        BY <2>3, <3>2, SpecsAssumption
      <4>2. ~bypassed' => Complete(cortex'.spec) /\ Validate(cortex'.spec)
        BY <2>3, <3>2, ZenonT(30)
      <4> QED
        BY <4>1, <4>2 DEF WellAdmitted
    <3> QED
      BY <2>1, <3>1, <3>2
  <2>5. bypassed' \in BOOLEAN /\ (bypassed => bypassed')
    <3>1. bypassed \in BOOLEAN
      OBVIOUS
    <3>2. \/ bypassed' = bypassed
          \/ bypassed' = (bypassed \/ requests[u].passed # Both)
      BY <2>1
    <3>3. CASE bypassed
      BY <3>2, <3>3, Zenon
    <3>4. CASE ~bypassed
      BY <3>1, <3>2, <3>4, Zenon
    <3> QED
      BY <3>3, <3>4
  <2> QED
    BY <2>1, <2>2, <2>4, <2>5, NoRequestGood DEF AdmissionShape
<1>5. CASE Register
  BY <1>2, <1>5 DEF Register, AdmissionShape
<1>6. CASE (DeleteCortex \/ System) /\ UNCHANGED admVars
  <2>1. TypeOK' /\ StepShape
    BY <1>6, TypeStep, EveryStep DEF Next, User
  <2>2. WellAdmitted(cortex)'
    BY <1>1, <1>6, SystemKeepsSpec DEF WellAdmitted, admVars
  <2> QED
    BY <1>6, <2>1, <2>2 DEF admVars, AdmissionShape
<1>7. CASE UNCHANGED allVars
  BY <1>2, <1>7 DEF allVars, admVars, AdmissionShape
<1> QED
  BY <1>3, <1>4, <1>5, <1>6, <1>7 DEF AdmissionNext, Handles

(* And a step of that shape keeps the invariants.                          *)
LEMMA InvariantsStep == Invariants /\ [AdmissionNext]_allVars => Invariants'
<1> SUFFICES ASSUME Invariants, [AdmissionNext]_allVars
             PROVE  Invariants'
  OBVIOUS
<1>1. AdmissionShape
  BY EveryAdmissionStep
<1>2. RolloutInvariant'
  BY <1>1, RolloutStep DEF Invariants, AdmissionShape
<1>3. CopiesAdmitted'
  BY <1>1, CopiesAdmittedStep DEF Invariants, AdmissionShape
<1>4. EvolvesTo(cortex, cortex') /\ {cortex, cortex'} \subseteq Snapshots
  BY <1>1, EveryStepEvolves
     DEF Invariants, AdmissionShape, RolloutInvariant, TypeOK
<1>5. ASSUME NEW r, RequestGood(r, cortex)
      PROVE  RequestGood(r, cortex')
  BY <1>4, <1>5, RequestKept
<1>6. requests \in [Users -> Requests]
      /\ \A u \in Users : RequestGood(requests[u], cortex)
  BY DEF Invariants, RequestsGood
<1>7. requests' = requests => RequestsGood'
  <2> SUFFICES ASSUME requests' = requests
               PROVE  RequestsGood'
    OBVIOUS
  <2>1. \A u \in Users : RequestGood(requests'[u], cortex')
    BY <1>5, <1>6
  <2> QED
    BY <1>6, <2>1 DEF RequestsGood
<1>8. ASSUME NEW u \in Users, NEW r, RequestGood(r, cortex),
             requests' = [requests EXCEPT ![u] = r]
      PROVE  RequestsGood'
  <2>1. r \in Requests
    BY <1>8 DEF RequestGood
  <2>2. requests' \in [Users -> Requests]
    BY <1>6, <1>8, <2>1
  <2>3. ASSUME NEW w \in Users
        PROVE  RequestGood(requests'[w], cortex')
    <3>1. requests'[w] = r \/ requests'[w] = requests[w]
      BY <1>6, <1>8
    <3> QED
      BY <1>5, <1>6, <1>8, <3>1
  <2> QED
    BY <2>2, <2>3 DEF RequestsGood
<1>9. RequestsGood'
  BY <1>1, <1>7, <1>8 DEF AdmissionShape
<1>10. TypeOK' /\ webhooks' \subseteq Both /\ bypassed' \in BOOLEAN
  BY <1>1 DEF AdmissionShape
<1> QED
  BY <1>2, <1>3, <1>9, <1>10 DEF Invariants

(* They hold to begin with.                                                *)
LEMMA InvariantsInit == AdmissionInit => Invariants
<1> SUFFICES ASSUME AdmissionInit
             PROVE  Invariants
  OBVIOUS
<1>1. TypeOK /\ RolloutInvariant
  BY InitTypes, InitRollout DEF AdmissionInit
<1>2. RequestsGood
  <2>1. RequestGood(NoRequest, cortex)
    BY NoRequestGood
  <2> QED
    BY <2>1 DEF AdmissionInit, RequestsGood, RequestGood
<1>3. CopiesAdmitted
  BY DEF AdmissionInit, Init, CopiesAdmitted, WellAdmitted, Gone, Idle
<1> QED
  BY <1>1, <1>2, <1>3 DEF AdmissionInit, Invariants, Both

----------------------------------------------------------------------------
(* Theorems *)

(* Whatever is submitted, by how many users, installed webhooks or not:    *)
(* the types are right, the webhooks' verdicts are heeded, requests may    *)
(* replace only what they started from, and the order of a roll-out holds. *)
THEOREM AdmissionInvariantHolds ==
  AdmissionSpec => [](AdmissionTypeOK /\ AdmissionInvariant)
<1>1. Invariants => AdmissionTypeOK /\ AdmissionInvariant
  BY RequestsGoodMeans
     DEF Invariants, AdmissionInvariant, AdmissionTypeOK, RequestsGood,
         RequestGood, UnderWay, WebhooksHeeded, BasedOnThePresent
<1> QED
  BY <1>1, InvariantsInit, InvariantsStep, PTL DEF AdmissionSpec

(* A Cortex that has always gone through both webhooks makes no worker     *)
(* dereference a nil pointer, and leaves no worker with an empty config.   *)
THEOREM AdmittedIsSafeHolds == AdmissionSpec => []AdmittedIsSafe
<1>1. Invariants => AdmittedIsSafe
  <2> SUFFICES ASSUME Invariants, ~bypassed, NEW c \in Controllers
               PROVE  /\ ~Panicking(c)
                      /\ Busy(c) => AsYAML(work[c].copy.spec) # <<>>
    BY DEF AdmittedIsSafe
  <2> DEFINE spec == work[c].copy.spec
  <2>1. Busy(c) => Complete(spec) /\ Validate(spec)
    BY DEF Invariants, CopiesAdmitted, WellAdmitted, RolloutInvariant,
           BusyIsEntitled
  <2>2. WorkRecord(c, work[c])
    BY DEF Invariants, TypeOK, WorkMap
  <2>3. Workload(Target(c)[1]) => Target(c)[2] \in Workloads
    BY <2>2, PlansSound DEF WorkRecord, PlanShape, Target, Step, Steps
  <2>4. Busy(c) => ~Panics(Target(c), spec)
    BY <2>1, <2>3 DEF Complete, Panics
  <2>5. ASSUME Validate(spec)
        PROVE  AsYAML(spec) # <<>>
    <3>1. AsYAML(spec) = Over(DefaultCortexConfig, spec.config)
      BY <2>5 DEF Validate, AsYAML
    <3>2. "join_members" \in DOMAIN DefaultCortexConfig
      BY DEF DefaultCortexConfig
    <3>3. "join_members" \in DOMAIN AsYAML(spec)
      BY <3>1, <3>2 DEF Over
    <3>4. DOMAIN <<>> = {}
      OBVIOUS
    <3> QED
      BY <3>3, <3>4
  <2> QED
    BY <2>1, <2>4, <2>5 DEF Panicking, At, Busy
<1> QED
  BY <1>1, InvariantsInit, InvariantsStep, PTL DEF AdmissionSpec

(* Every new version of the spec is the one before it with one user's edit *)
(* applied: no edit is lost to another, and none is undone by defaulting.  *)
THEOREM EditsAreWholeHolds == AdmissionSpec => EditsAreWhole
<1>1. Invariants /\ [AdmissionNext]_allVars =>
        [cortex.alive /\ cortex'.alive /\ cortex'.spec # cortex.spec =>
           \E u \in Users :
             Explains(requests[u].edit, cortex.spec, cortex'.spec)]_allVars
  <2> SUFFICES ASSUME Invariants, AdmissionNext,
                      cortex.alive, cortex'.alive, cortex'.spec # cortex.spec
               PROVE  \E u \in Users :
                        Explains(requests[u].edit, cortex.spec, cortex'.spec)
    OBVIOUS
  <2>1. ASSUME NEW u \in Users, StoreRequest(u)
        PROVE  Explains(requests[u].edit, cortex.spec, cortex'.spec)
    <3>1. cortex'.spec = requests[u].object /\ CanStore(u)
      BY <2>1, StoreRequestStep DEF Invariants
    <3>2. requests[u].phase # "none" /\ RequestGood(requests[u], cortex)
      BY <2>1 DEF StoreRequest, Invariants, RequestsGood
    <3> QED
      BY <3>1, <3>2 DEF CanStore, RequestGood
  <2>2. ASSUME NEW u \in Users,
               \/ Submit(u) \/ CallFails(u)
               \/ CallDefault(u) \/ CallValidate(u) \/ Conflict(u)
        PROVE  cortex' = cortex
    BY <2>2 DEF Submit, CallFails, CallDefault, CallValidate, Conflict, vars,
                apiVars
  <2>3. CASE Register
    BY <2>3 DEF Register, vars, apiVars
  <2>4. CASE DeleteCortex \/ System
    BY <2>4, SystemKeepsSpec DEF Invariants
  <2> QED
    BY <2>1, <2>2, <2>3, <2>4 DEF AdmissionNext, Handles
<1> QED
  BY <1>1, InvariantsInit, InvariantsStep, PTL DEF AdmissionSpec, EditsAreWhole

(* However many users edit the Cortex at once, and past whatever webhook,  *)
(* the operator implements the abstract roll-out.                          *)
THEOREM AdmissionImplementsRollout == AdmissionSpec => ImplementsRollout
<1>1. AdmissionInit => Promise!Init
  BY DEF AdmissionInit, Init, Promise!Init, Gone
<1>2. Invariants /\ [AdmissionNext]_allVars =>
        [Promise!Next]_<<cortex.alive, cortex.uid, cortex.status>>
  BY EveryAdmissionStep, StepImplements DEF Invariants, AdmissionShape
<1> QED
  BY <1>1, <1>2, InvariantsInit, InvariantsStep, PTL
     DEF AdmissionSpec, ImplementsRollout, Promise!Spec
=============================================================================
