--------------------------- MODULE MCRunLifecycle ---------------------------
(* Bounds for RunLifecycle: plans built from at most MaxMutations MUTATE   *)
(* phases over two identities, with a probe phase before and after.        *)
EXTENDS RunLifecycle, ScenarioPlan

CONSTANTS
  a, b,          (* two delegated identities *)
  MaxMutations   (* bound on MUTATE phases   *)

MCIdentities == {a, b}

(* One kind of each class build_revert_plan tells apart.                   *)
MCKinds == {"ATTACH_INLINE_DENY", "UPDATE_TRUST_POLICY", "DELETE_SESSION_POLICY_SCOPE"}

Mutations ==
  [kind : {"MUTATE"}, target : MCIdentities, mutation : MCKinds, record_receipt : BOOLEAN]

Probe == [kind |-> "PROBE"]

MCPlans ==
  {BuildPlan(<<Probe>> \o ms) : ms \in UNION {[1 .. k -> Mutations] : k \in 0 .. MaxMutations}}

=============================================================================
