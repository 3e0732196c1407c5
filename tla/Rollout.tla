------------------------------- MODULE Rollout -------------------------------
(***************************************************************************)
(* What the operator promises about the order of a roll-out, said without  *)
(* controllers, caches or versions: while a Cortex lives, references to    *)
(* its parts are published one after another, each only after the parts it *)
(* depends on, and a published reference stays until the Cortex is gone.   *)
(***************************************************************************)
EXTENDS Naturals

CONSTANTS Parts,      \* the references that can be published
          Needs(_)    \* the references a part depends on

VARIABLES live, incarnation, published

Init ==
  /\ live = FALSE
  /\ incarnation = 0
  /\ published = {}

Create ==
  /\ ~live
  /\ live' = TRUE
  /\ incarnation' = incarnation + 1
  /\ published' = {}

Publish ==
  /\ live
  /\ published \subseteq published'
  /\ published' \subseteq Parts
  /\ \A p \in published' \ published : Needs(p) \subseteq published
  /\ UNCHANGED <<live, incarnation>>

Delete ==
  /\ live
  /\ live' = FALSE
  /\ published' = {}
  /\ UNCHANGED incarnation

Next == Create \/ Publish \/ Delete

Spec == Init /\ [][Next]_<<live, incarnation, published>>
=============================================================================
