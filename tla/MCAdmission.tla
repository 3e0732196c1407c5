----------------------------- MODULE MCAdmission -----------------------------
(***************************************************************************)
(* Instances of the operator with its webhooks: who edits what.            *)
(***************************************************************************)
EXTENDS CortexAdmission

JustIngester == {"Ingester"}
Nobody == {}
BadRuntimes == {9}
Scalar == [memberlist |-> 0]
Unknown == [no_such_setting |-> 0]
Unmerged == {Scalar}
Refused == {Unknown}

Edit(set, sections, drop) ==
  [set |-> set, sections |-> sections, drop |-> drop]

\* The sample manifest: an image and a config, and no section.
Sample == Edit([image |-> 1, config |-> [limits |-> 1]], <<>>, {})
Malformed == Edit([config |-> Scalar], <<>>, {})
Misspelt == Edit([config |-> Unknown], <<>>, {})
Scaled == Edit(<<>>, [ingester |-> [replicas |-> 3],
                      querier |-> [replicas |-> 3]], {})
Dropped == Edit(<<>>, <<>>, {"ingester"})

\* Two users: one keeps the manifest, the other the number of replicas.
OwnerAndScaler == {"owner", "scaler"}
OwnerEdits == {Sample, Malformed, Misspelt, Dropped}
TheirEdits ==
  ({"owner"} \X OwnerEdits) \cup ({"scaler"} \X {Scaled})

(* Every spec that edits and Default lead to.                              *)
Closed(specs) ==
  specs \cup {Default(spec) : spec \in specs}
        \cup {Patched(t[2], spec) :
                t \in TheirEdits, spec \in specs \cup {Blank}}

Reached[n \in Nat] == IF n = 0 THEN {} ELSE Closed(Reached[n - 1])

TheirSpecs == Reached[8]
=============================================================================
