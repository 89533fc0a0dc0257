------------------------- MODULE MCAwsControlPlane -------------------------
(***************************************************************************)
(* Two agent roles behind the principal, the second one the stale control. *)
(***************************************************************************)
EXTENDS AwsControlPlane

MCDeclared == [r \in Agents |-> {"read", "write", "identity.delegate"}]
MCChain == <<"principal", "a", "c">>

Mutation(kind, role, denies, grants) ==
    [kind |-> kind, role |-> role, denies |-> denies, grants |-> grants]

MCMutations ==
    {Mutation("ATTACH_INLINE_DENY", "a", {"write"}, {}),
     Mutation("REPLACE_INLINE_POLICY", "a", {"read"}, {"write"}),
     Mutation("REVOKE_OLDER_SESSIONS", "a", {}, {}),
     Mutation("REMOVE_INLINE_POLICY", "c", {}, {}),
     Mutation("UPDATE_TRUST_POLICY", "c", {}, {}),
     Mutation("DELETE_SESSION_POLICY_SCOPE", "c", {}, {}),
     Mutation("ATTACH_INLINE_DENY", "principal", {"write"}, {})}
=============================================================================
