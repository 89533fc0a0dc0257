---------------------------- MODULE FakeProvider ----------------------------
(***************************************************************************)
(* The in-memory authorization laboratory of providers/fake: sessions that *)
(* expire on a virtual clock, identity policies, mutations that stay       *)
(* invisible to probes for a while, and the two escape hatches the         *)
(* stale-authority family relies on.                                       *)
(*                                                                         *)
(* Sessions are kept per credential but a probe names only an identity: it *)
(* is answered from the identity's most recently issued session.           *)
(***************************************************************************)
EXTENDS Integers, Sequences, FiniteSets, FiniteSetsExt

CONSTANTS
  Edges,         (* delegated identities of the graph, in hop order          *)
  Capabilities,  (* the compiled capability universe                         *)
  Intended,      (* intended authority of each identity's delegation edge    *)
  Granted,       (* what its role is granted: Intended, and for the three    *)
                 (* negative-control roles something more                    *)
  Scoped,        (* identities reached by a session-policy mechanism         *)
  StaleRoles,    (* identities bound to the stale-authority control role     *)
  Lifetime,      (* granted session duration                                 *)
  Delays,        (* propagation delays (with jitter) a mutation may draw     *)
  FlipCounts     (* oscillation_flip_count, or 0 when not oscillating        *)

Identities == {Edges[k] : k \in DOMAIN Edges}

ASSUME ProviderConstants ==
  /\ Edges \in Seq(Identities)
  /\ \A i \in Identities : Intended[i] \subseteq Granted[i] /\ Granted[i] \subseteq Capabilities
  /\ \A j, k \in DOMAIN Edges : j # k => Edges[j] # Edges[k]
  /\ Scoped \subseteq Identities /\ StaleRoles \subseteq Identities
  /\ Lifetime \in Nat \ {0} /\ Delays \subseteq Nat /\ FlipCounts \subseteq Nat

VARIABLES
  clock,    (* the virtual clock                                            *)
  policy,   (* PolicyEngine: each identity's allow and deny                 *)
  issued,   (* every session issued; a credential id is an index            *)
  revoked,  (* credentials taken out of the session store                   *)
  pending,  (* the mutation still settling for each identity                *)
  caching,  (* identities probed against their session's snapshot           *)
  blocked   (* identities whose trust policy refuses new sessions           *)

provider == <<clock, policy, issued, revoked, pending, caching, blocked>>

Policy == [allow : SUBSET Capabilities, deny : SUBSET Capabilities]

ProviderInit ==
  /\ clock = 0
  /\ policy = [i \in Identities |-> [allow |-> Granted[i], deny |-> {}]]
  /\ issued = <<>>
  /\ revoked = {}
  /\ pending = [i \in Identities |-> [pre |-> policy[i], settle |-> 0, shown |-> {}]]
  /\ caching = {}
  /\ blocked = {}

Owned(i) == {c \in DOMAIN issued : issued[c].owner = i}
Latest(i) == Max(Owned(i))
Live(c) == c \notin revoked /\ clock < issued[c].expires

(* SessionStore.issue, and the policy snapshot delegate takes with it.      *)
Session(i) == [owner |-> i, expires |-> clock + Lifetime, snapshot |-> policy[i]]

CanIssue(i) == ~(i \in StaleRoles /\ i \in blocked)

Issue(i) ==
  /\ CanIssue(i)
  /\ issued' = Append(issued, Session(i))
  /\ UNCHANGED <<clock, policy, revoked, pending, caching, blocked>>

(* The id the next session of any identity will have.                      *)
NextId == Len(issued) + 1

(* PolicyEngine.evaluate_against: an explicit deny wins, a session policy   *)
(* only narrows.                                                            *)
Evaluate(p, i, c) ==
  LET effective == IF i \in Scoped THEN p.allow \intersect Intended[i] ELSE p.allow
  IN  CASE c \in p.deny -> "DENIED_EXPLICIT"
        [] c \in effective \ p.deny -> "ALLOWED"
        [] OTHER -> "DENIED_IMPLICIT"

(* MutationVisibility.is_visible.                                           *)
Visible(transition) == clock >= transition.settle \/ clock \in transition.shown

(* ConsistencyModel.schedule: until it settles, a transition of d ticks     *)
(* that oscillates is shown after an odd number of flips.                   *)
Schedule(pre, d, flips) ==
  [pre |-> pre, settle |-> clock + d,
   shown |-> {clock + t : t \in {u \in 1 .. d - 1 :
                Cardinality({k \in DOMAIN flips : flips[k] <= u}) % 2 = 1}}]

(* Which policy a live session is judged by.                               *)
Consulted(i) ==
  CASE i \in caching -> issued[Latest(i)].snapshot
    [] i \notin caching /\ ~Visible(pending[i]) -> pending[i].pre
    [] OTHER -> policy[i]

Answer(i, c) == IF Live(Latest(i)) THEN Evaluate(Consulted(i), i, c) ELSE "DENIED_IMPLICIT"

(* apply_policy_mutation: the engine changes at once, probes keep seeing    *)
(* the state before it until it settles; revoking sessions and blocking     *)
(* issuance do not wait.                                                    *)
Mutated(p, m) ==
  CASE m.kind = "ATTACH_INLINE_DENY" -> [p EXCEPT !.deny = @ \union m.denies]
    [] m.kind = "REMOVE_INLINE_POLICY" -> [p EXCEPT !.allow = @ \ m.denies]
    [] m.kind = "REPLACE_INLINE_POLICY" -> [allow |-> m.grants, deny |-> m.denies]
    [] OTHER -> p

(* Mutant: the sessions of every identity are revoked.                     *)
MutateRevokingAll(i, m) ==
  /\ policy' = [policy EXCEPT ![i] = Mutated(@, m)]
  /\ revoked' = IF m.kind = "REVOKE_OLDER_SESSIONS" THEN DOMAIN issued ELSE revoked
  /\ pending' = [pending EXCEPT ![i] = Schedule(policy[i], 0, <<>>)]
  /\ UNCHANGED <<clock, issued, caching, blocked>>

Mutate(i, m) ==
  /\ policy' = [policy EXCEPT ![i] = Mutated(@, m)]
  /\ revoked' = IF m.kind = "REVOKE_OLDER_SESSIONS" THEN revoked \union Owned(i) ELSE revoked
  /\ blocked' = IF m.kind = "UPDATE_TRUST_POLICY"
                  THEN blocked \union ({i} \intersect StaleRoles) ELSE blocked
  /\ \E d \in Delays, n \in FlipCounts :
       \E flips \in [1 .. n -> 1 .. Max({1, d - 1})] :
         pending' = [pending EXCEPT ![i] = Schedule(policy[i], d, flips)]
  /\ UNCHANGED <<clock, issued, caching>>

EnableCaching(i) ==
  /\ caching' = caching \union {i}
  /\ UNCHANGED <<clock, policy, issued, revoked, pending, blocked>>

AdvanceClock(d) ==
  /\ clock' = clock + d
  /\ UNCHANGED <<policy, issued, revoked, pending, caching, blocked>>

ProviderTypeOK ==
  /\ clock \in Nat
  /\ policy \in [Identities -> Policy]
  /\ issued \in Seq([owner : Identities, expires : Nat, snapshot : Policy])
  /\ revoked \subseteq DOMAIN issued
  /\ pending \in [Identities -> [pre : Policy, settle : Nat, shown : SUBSET Nat]]
  /\ caching \subseteq Identities /\ blocked \subseteq Identities

=============================================================================
