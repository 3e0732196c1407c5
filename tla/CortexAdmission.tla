--------------------------- MODULE CortexAdmission ---------------------------
(***************************************************************************)
(* The operator together with its admission webhooks: how a version of the *)
(* Cortex comes to be stored.                                              *)
(*                                                                         *)
(* The user's CreateCortex and EditSpec are replaced by requests (kubectl  *)
(* apply), each handled by the API server in steps: it reads the stored    *)
(* version and applies the edit to it, calls the mutating webhook, which   *)
(* is Cortex.Default, calls the validating one, which is Validate, and     *)
(* stores the outcome if no other version was stored meanwhile; if one was *)
(* it starts over.  The webhooks are served by the operator's process, and *)
(* a request fails while that is down.  They come into force when the      *)
(* operator is installed, which is after its CRDs: "make install", then    *)
(* "make deploy".                                                          *)
(***************************************************************************)
EXTENDS CortexProperties, CortexDefaults

CONSTANTS
  Users,        \* who may have a request under way
  Submissions   \* who submits which edits: pairs of a user and an edit

VARIABLES
  requests,     \* user -> the request under way
  webhooks,     \* the webhooks in force
  bypassed      \* whether a version was stored past one of them

admVars == <<requests, webhooks, bypassed>>
allVars == <<vars, admVars>>

Both == {"mutating", "validating"}

----------------------------------------------------------------------------
(* Edits.  An edit names what it sets, and the sections it removes.        *)

NoEdit == [set |-> <<>>, sections |-> <<>>, drop |-> {}]

Blank ==
  [image |-> NoImage, cacheImage |-> NoImage, config |-> <<>>, runtime |-> 0,
   account |-> [given |-> FALSE, annotations |-> {}, secrets |-> {}],
   sections |-> <<>>]

Set(edit, field, old) ==
  IF field \in DOMAIN edit.set THEN edit.set[field] ELSE old

(* The object of an edit, from the stored spec.                            *)
Patched(edit, spec) ==
  LET kept == DOMAIN spec.sections \ edit.drop
      Old(name) == IF name \in kept THEN spec.sections[name] ELSE <<>>
      New(name) == IF name \in DOMAIN edit.sections THEN edit.sections[name]
                                                    ELSE <<>>
  IN  [spec EXCEPT
         !.image = Set(edit, "image", @),
         !.config = Set(edit, "config", @),
         !.sections = [name \in kept \cup DOMAIN edit.sections |->
                         Over(New(name), Old(name))]]

(* Specs, which CortexOperator knows as what the API server may hold, is   *)
(* closed under the edits and under Default.                               *)
ASSUME SubmissionsAssumption ==
  \A spec \in Specs \cup {Blank} :
    /\ DOMAIN spec = DOMAIN Blank
    /\ \A s \in Submissions : Patched(s[2], spec) \in Specs
ASSUME DefaultsAssumption == \A spec \in Specs : Default(spec) \in Specs

----------------------------------------------------------------------------
(* Requests *)

NoRequest ==
  [phase |-> "none", edit |-> NoEdit, creates |-> FALSE, rv |-> 0,
   object |-> Blank, passed |-> {}]

UnderWay(u) == requests[u].phase # "none"

(* A create if there is no Cortex, or else the edit applied to the version *)
(* that is stored now.                                                     *)
Prepared(edit) ==
  [phase |-> "default", edit |-> edit, creates |-> ~cortex.alive,
   rv |-> cortex.rv, passed |-> {},
   object |-> Patched(edit, IF cortex.alive THEN cortex.spec ELSE Blank)]

Submit(u) ==
  \E edit \in {s[2] : s \in {t \in Submissions : t[1] = u}} :
    /\ ~UnderWay(u)
    /\ requests' = [requests EXCEPT ![u] = Prepared(edit)]
    /\ IF cortex.alive
         THEN used.edits < MaxEdits /\ Spend("edits")
         ELSE cortex.uid < MaxUids /\ UNCHANGED used
    /\ UNCHANGED <<apiVars, infVars, ctlVars, webhooks, bypassed>>

CallDefault(u) ==
  LET called == webhooks \cap {"mutating"}
      r == requests[u]
  IN  /\ r.phase = "default"
      /\ requests' = [requests EXCEPT ![u] =
           [r EXCEPT !.phase  = "validate",
                     !.passed = called,
                     !.object = IF called = {} THEN @ ELSE Default(@)]]
      /\ UNCHANGED <<vars, webhooks, bypassed>>

(* ValidateCreate and ValidateUpdate.                                      *)
CallValidate(u) ==
  LET called == webhooks \cap {"validating"}
      r == requests[u]
  IN  /\ r.phase = "validate"
      /\ requests' = [requests EXCEPT ![u] =
           IF called = {} \/ Validate(r.object)
             THEN [r EXCEPT !.phase = "store", !.passed = @ \cup called]
             ELSE NoRequest]
      /\ UNCHANGED <<vars, webhooks, bypassed>>

(* The process that serves the webhooks is down: failurePolicy=fail.       *)
CallFails(u) ==
  /\ \/ requests[u].phase = "default" /\ "mutating" \in webhooks
     \/ requests[u].phase = "validate" /\ "validating" \in webhooks
  /\ requests' = [requests EXCEPT ![u] = NoRequest]
  /\ UNCHANGED <<vars, webhooks, bypassed>>

(* What the request stores.  The status is not the user's to write.        *)
Accepted(u) ==
  IF cortex.alive
    THEN [cortex EXCEPT !.spec = requests[u].object, !.rv = @ + 1]
    ELSE [alive |-> TRUE, uid |-> cortex.uid + 1, rv |-> cortex.rv + 1,
          spec |-> requests[u].object, status |-> {}]

CanStore(u) ==
  IF requests[u].creates
    THEN ~cortex.alive /\ cortex.uid < MaxUids
    ELSE cortex.alive /\ requests[u].rv = cortex.rv

StoreRequest(u) ==
  /\ requests[u].phase = "store"
  /\ CanStore(u)
  /\ IF cortex.alive /\ cortex.spec = requests[u].object
       THEN UNCHANGED <<cortex, watch, bypassed>>
       ELSE /\ Store(Accepted(u))
            /\ bypassed' = (bypassed \/ requests[u].passed # Both)
  /\ requests' = [requests EXCEPT ![u] = NoRequest]
  /\ UNCHANGED <<children, stale, infVars, ctlVars, used, webhooks>>

(* Another version was stored meanwhile: a patch starts over, while a      *)
(* create of what exists, or a patch of what is gone, is answered with an  *)
(* error.                                                                  *)
Conflict(u) ==
  /\ requests[u].phase = "store"
  /\ ~CanStore(u)
  /\ requests' = [requests EXCEPT ![u] =
       IF cortex.alive /\ ~@.creates THEN Prepared(@.edit) ELSE NoRequest]
  /\ UNCHANGED <<vars, webhooks, bypassed>>

(* "make deploy": each webhook takes effect by itself.                     *)
Register ==
  \E w \in Both \ webhooks :
    /\ webhooks' = webhooks \cup {w}
    /\ UNCHANGED <<vars, requests, bypassed>>

----------------------------------------------------------------------------
AdmissionInit ==
  /\ Init
  /\ requests = [u \in Users |-> NoRequest]
  /\ webhooks = {}
  /\ bypassed = FALSE

Handles(u) ==
  CallDefault(u) \/ CallValidate(u) \/ StoreRequest(u) \/ Conflict(u)

AdmissionNext ==
  \/ \E u \in Users : Submit(u) \/ Handles(u) \/ CallFails(u)
  \/ Register
  \/ (DeleteCortex \/ System) /\ UNCHANGED admVars

AdmissionSpec == AdmissionInit /\ [][AdmissionNext]_allVars

----------------------------------------------------------------------------
(* What the webhooks are for *)

(* When they were in force for every version stored, no worker is about to *)
(* dereference a nil pointer and none would write an empty config map,     *)
(* whatever was submitted: no Reconcile tests its copy of the spec for     *)
(* nil, and "validation errors were handled by the webhooks".              *)
AdmittedIsSafe ==
  ~bypassed =>
    \A c \in Controllers :
      /\ ~Panicking(c)
      /\ Busy(c) => AsYAML(work[c].copy.spec) # <<>>

\* The value of a field of a section, if it has one.
Value(sections, name, field) ==
  IF name \in DOMAIN sections THEN Optional(sections[name], field) ELSE {}

Fields == {"replicas"} \cup UNION {Dereferenced(name) : name \in Workloads}

(* What an edit says is stored, and what it does not mention stays.        *)
Explains(edit, old, new) ==
  /\ new.image = Set(edit, "image", old.image)
  /\ new.config = Set(edit, "config", old.config)
  /\ \A name \in Workloads, field \in Fields :
       LET Asked == Value(edit.sections, name, field)
           Had   == Value(old.sections, name, field)
           Has   == Value(new.sections, name, field)
       IN  /\ Asked # {} => Has = Asked
           /\ Asked = {} /\ Had # {} /\ name \notin edit.drop => Has = Had

(* A new version of the spec is one edit away from the one before it: no   *)
(* request undoes another's that was stored while it was under way, and    *)
(* defaulting a section again, or a part of it, replaces nothing.          *)
EditsAreWhole ==
  [][cortex.alive /\ cortex'.alive /\ cortex'.spec # cortex.spec =>
       \E u \in Users :
         Explains(requests[u].edit, cortex.spec, cortex'.spec)]_allVars

----------------------------------------------------------------------------
(* Why it holds *)

Submitted == {s[2] : s \in Submissions}

Requests ==
  [phase : {"none", "default", "validate", "store"},
   edit : Submitted \cup {NoEdit}, creates : BOOLEAN, rv : Nat,
   object : Specs \cup {Blank}, passed : SUBSET Both]

AdmissionTypeOK ==
  /\ TypeOK
  /\ requests \in [Users -> Requests]
  /\ \A u \in Users : UnderWay(u) => /\ requests[u].edit \in Submitted
                                     /\ requests[u].object \in Specs
  /\ webhooks \subseteq Both
  /\ bypassed \in BOOLEAN

(* What the webhooks have passed is as they left it.                       *)
WebhooksHeeded ==
  \A u \in Users :
    LET r == requests[u]
    IN  /\ r.phase = "default" => r.passed = {}
        /\ "mutating" \in r.passed => Complete(r.object)
        /\ "validating" \in r.passed => Validate(r.object)

(* A request that may still replace the present version started from it.   *)
BasedOnThePresent ==
  \A u \in Users :
    UnderWay(u) =>
      LET r == requests[u]
      IN  /\ r.rv <= cortex.rv
          /\ ~r.creates /\ cortex.alive /\ r.rv = cortex.rv =>
               Explains(r.edit, cortex.spec, r.object)

WellAdmitted(version) ==
  version.alive =>
    /\ version.spec # NoSpec
    /\ ~bypassed => Complete(version.spec) /\ Validate(version.spec)

(* Every copy of the Cortex the operator holds has a spec that went        *)
(* through the webhooks, if every stored one has.                          *)
CopiesAdmitted ==
  /\ WellAdmitted(cortex)
  /\ WellAdmitted(cache)
  /\ \A k \in 1 .. Len(watch) : WellAdmitted(watch[k])
  /\ \A c \in Controllers : WellAdmitted(work[c].copy)

(* The inductive invariant behind AdmittedIsSafe and EditsAreWhole.  It    *)
(* contains that of the roll-out, which concurrent edits do not disturb.   *)
AdmissionInvariant ==
  /\ RolloutInvariant
  /\ WebhooksHeeded
  /\ BasedOnThePresent
  /\ CopiesAdmitted
=============================================================================
