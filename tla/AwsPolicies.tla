---------------------------- MODULE AwsPolicies ----------------------------
(***************************************************************************)
(* IAM as providers/aws/mutation.py sees it, and the operations of that    *)
(* module, one IAM call per step.  IAM is eventually consistent: a read    *)
(* may return any document written since the role last settled.  Any call  *)
(* can be throttled (a ClientError), and its answer can be lost after it   *)
(* took effect.                                                            *)
(*                                                                         *)
(* A policy document is the set of its statements; {} is "no such policy". *)
(***************************************************************************)
EXTENDS Naturals, Sequences, FiniteSets

CONSTANTS
    Agents,         \* the benchmark agent roles
    Protected,      \* the bootstrap and principal roles
    StaleControl,   \* the agent roles whose names end in -agent-c-stale
    Declared,       \* [Agents -> set of capabilities]: the Terraform ceiling
    Mutations,      \* the PolicyMutation records a plan may hold
    PollTimeout     \* _READ_AFTER_WRITE_TIMEOUT_S, in ticks

MutationKinds == {"ATTACH_INLINE_DENY", "REMOVE_INLINE_POLICY", "REPLACE_INLINE_POLICY",
                  "UPDATE_TRUST_POLICY", "REVOKE_OLDER_SESSIONS", "DELETE_SESSION_POLICY_SCOPE"}

ASSUME PolicyConstants ==
    /\ PollTimeout \in Nat
    /\ \A m \in Mutations : m.kind \in MutationKinds /\ m.role \in Agents \cup Protected

VARIABLES
    iam,            \* [Agents -> [Names -> document]]: what IAM holds
    views,          \* the same shape: the documents a read may return
    call,           \* the operation of mutation.py under way, or its receipt
    clock

policyVars == <<iam, views, call>>

Transient == {"deny", "grant", "revoke"}     \* TRANSIENT_POLICY_NAMES
Names     == Transient \cup {"trust"}

DenyDocument(caps)   == {<<"Deny", c>> : c \in caps}
GrantDocument(caps)  == {<<"Allow", c>> : c \in caps}
RevokeOlder(cutoff)  == {<<"DenyOlder", cutoff>>}
DeclaredTrust        == {<<"Trust", "predecessor">>, <<"Trust", "bootstrap">>}
RevokeAssumeRole     == <<"DenyAssume", "*">>

\* The role as Terraform provisions it: a managed ceiling and no inline policy,
\* except the inline grant of the stale control.
DeclaredDocument(r, n) ==
    CASE n = "trust" -> DeclaredTrust
      [] n = "grant" /\ r \in StaleControl -> GrantDocument(Declared[r])
      [] OTHER -> {}

PolicyInit ==
    /\ iam = [r \in Agents |-> [n \in Names |-> DeclaredDocument(r, n)]]
    /\ views = [r \in Agents |-> [n \in Names |-> {DeclaredDocument(r, n)}]]
    /\ call = [pc |-> "idle"]

---------------------------------------------------------------------------
\* What a write leaves behind, and IAM catching up.
Written(r, n, doc) ==
    /\ iam' = [iam EXCEPT ![r][n] = doc]
    /\ views' = [views EXCEPT ![r][n] = @ \cup {doc}]

Settle(r) ==
    /\ \E n \in Names : Cardinality(views[r][n]) > 1
    /\ views' = [views EXCEPT ![r] = [n \in Names |-> {iam[r][n]}]]
    /\ UNCHANGED <<iam, call, clock>>

Running == call.pc \in {"delete", "read", "put", "poll"}

\* The calls of one operation.  "lossy" and "read" are history: a delete that
\* left the policy in place, and the documents the confirmation loop was shown.
Operation(op, r, pc, todo, name, doc) ==
    [pc |-> pc, op |-> op, role |-> r, todo |-> todo, name |-> name, doc |-> doc,
     start |-> clock, confirmed |-> FALSE, lossy |-> FALSE, read |-> {}]

Raised == [pc |-> "raised", op |-> call.op, role |-> call.role]

\* assert_role_is_benchmark_agent: bootstrap and principal are never mutated.
RefuseProtected(m) ==
    /\ m.role \in Protected
    /\ call' = [pc |-> "raised", op |-> m.kind, role |-> m.role]
    /\ UNCHANGED <<iam, views>>

BeginMutation(m) ==
    /\ m.role \notin Protected
    /\ call' =
         CASE m.kind \in {"ATTACH_INLINE_DENY", "REPLACE_INLINE_POLICY"} ->
                Operation(m.kind, m.role, "put", <<>>, "deny",
                          DenyDocument(m.denies) \cup GrantDocument(m.grants))
           [] m.kind = "REMOVE_INLINE_POLICY" ->
                Operation(m.kind, m.role, "delete", <<"grant">>, "grant", {})
           [] m.kind = "UPDATE_TRUST_POLICY" ->
                Operation(m.kind, m.role, "read", <<>>, "trust", {})
           [] m.kind = "REVOKE_OLDER_SESSIONS" ->
                Operation(m.kind, m.role, "put", <<>>, "revoke", RevokeOlder(clock))
           [] m.kind = "DELETE_SESSION_POLICY_SCOPE" ->
                [Operation(m.kind, m.role, "receipt", <<>>, "deny", {}) EXCEPT !.confirmed = TRUE]
    /\ UNCHANGED <<iam, views>>

\* restore_declared_policy: remove every harness-owned inline policy, then give
\* the stale control its declared grant back.
\* mutant: the session revocation is forgotten
DoomedButRevocation == <<"deny", "grant">>

Doomed == <<"deny", "grant", "revoke">>

BeginRestoreDeclared(r) ==
    /\ call' = Operation("RESTORE_DECLARED", r, "delete", Doomed, "grant",
                         DeclaredDocument(r, "grant"))
    /\ UNCHANGED <<iam, views>>

BeginRestoreTrust(r) ==
    /\ call' = Operation("RESTORE_TRUST", r, "put", <<>>, "trust", DeclaredTrust)
    /\ UNCHANGED <<iam, views>>

---------------------------------------------------------------------------
\* contextlib.suppress(ClientError): whatever became of the delete, go on.
AfterDelete(lossy) ==
    [call EXCEPT !.todo = Tail(@),
                 !.lossy = @ \/ lossy,
                 !.pc = IF Len(call.todo) > 1 THEN "delete"
                        ELSE IF call.doc # {} THEN "put" ELSE "poll"]

Delete ==
    /\ call.pc = "delete"
    /\ Written(call.role, Head(call.todo), {})
    /\ call' = AfterDelete(FALSE)

DeleteSuppressed ==
    /\ call.pc = "delete"
    /\ call' = AfterDelete(iam[call.role][Head(call.todo)] # {})
    /\ UNCHANGED <<iam, views>>

\* UPDATE_TRUST_POLICY appends its Deny to the trust policy it reads.
ReadTrust ==
    /\ call.pc = "read"
    /\ \E doc \in views[call.role]["trust"] :
          call' = [call EXCEPT !.pc = "put", !.doc = doc \cup {RevokeAssumeRole}]
    /\ UNCHANGED <<iam, views>>

Put ==
    /\ call.pc = "put"
    /\ Written(call.role, call.name, call.doc)
    /\ call' = [call EXCEPT !.pc = "poll"]

\* A ClientError of a put or of the trust read, or a failure to connect in any
\* call, leaves mutation.py as an exception; the write may have landed.
CallRaises ==
    /\ Running
    /\ call' = Raised
    /\ \/ UNCHANGED <<iam, views>>
       \/ call.pc = "put" /\ Written(call.role, call.name, call.doc)
       \/ call.pc = "delete" /\ Written(call.role, Head(call.todo), {})

---------------------------------------------------------------------------
\* _poll_until: what one fetch returns (a ClientError reads as None, here {}),
\* and which values each operation takes for a confirmation.
Fetched(n) == views[call.role][n] \cup {{}}

\* mutant: any document under the name confirms an ATTACH_INLINE_DENY
AcceptsAny(doc) ==
    CASE call.op = "RESTORE_TRUST" -> doc = call.doc
      [] call.op = "REMOVE_INLINE_POLICY" -> doc = {}
      [] call.op = "UPDATE_TRUST_POLICY" -> RevokeAssumeRole \in doc
      [] OTHER -> doc # {}

Accepts(doc) ==
    CASE call.op \in {"ATTACH_INLINE_DENY", "RESTORE_TRUST"} -> doc = call.doc
      [] call.op \in {"REPLACE_INLINE_POLICY", "REVOKE_OLDER_SESSIONS"} -> doc # {}
      [] call.op = "REMOVE_INLINE_POLICY" -> doc = {}
      [] call.op = "UPDATE_TRUST_POLICY" -> RevokeAssumeRole \in doc

\* restore_declared_policy reads the three policies in one fetch.
RestoreAccepts(docs) ==
    \A n \in Transient : (docs[n] # {}) <=> (n = "grant" /\ call.role \in StaleControl)

TimedOut == clock - call.start >= PollTimeout

Confirmation(accepted, doc) ==
    call' = [call EXCEPT !.read = @ \cup {doc},
                         !.confirmed = accepted,
                         !.pc = IF accepted \/ TimedOut THEN "receipt" ELSE "poll"]

Poll ==
    /\ call.pc = "poll" /\ call.op # "RESTORE_DECLARED"
    /\ \E doc \in Fetched(call.name) : Confirmation(Accepts(doc), doc)
    /\ UNCHANGED <<iam, views>>

PollRestore ==
    /\ call.pc = "poll" /\ call.op = "RESTORE_DECLARED"
    /\ \E docs \in [Transient -> UNION {Fetched(n) : n \in Transient}] :
          /\ \A n \in Transient : docs[n] \in Fetched(n)
          /\ Confirmation(RestoreAccepts(docs), docs["grant"])
    /\ UNCHANGED <<iam, views>>

PolicyStep ==
    \/ Delete \/ DeleteSuppressed \/ ReadTrust \/ Put \/ CallRaises \/ Poll \/ PollRestore
=============================================================================
