-------------------------- MODULE FakeProviderProofs --------------------------
(***************************************************************************)
(* What the operations of the fake provider keep, for any chain, lifetime  *)
(* and propagation delays: the lemmas that the proofs about the runs       *)
(* against it share.                                                       *)
(***************************************************************************)
EXTENDS FakeProvider, TLAPS

SessionRecord == [owner : Identities, expires : Nat, snapshot : Policy]

\* A new session carries the policy of the moment, and its own time.
LEMMA SessionTyped ==
  ASSUME ProviderTypeOK, NEW i \in Identities
  PROVE  /\ Session(i) \in SessionRecord
         /\ Session(i).owner = i /\ Session(i).expires = clock + Lifetime
BY ProviderConstants DEF ProviderTypeOK, Session, SessionRecord

\* Issuing adds a session at the end, and leaves the others alone.
LEMMA IssueInv ==
  ASSUME ProviderTypeOK, NEW i \in Identities, Issue(i)
  PROVE  /\ ProviderTypeOK' /\ clock' = clock
         /\ NextId \in DOMAIN issued' /\ DOMAIN issued' = DOMAIN issued \union {NextId}
         /\ \A c \in DOMAIN issued : issued'[c] = issued[c] /\ c < NextId /\ c \in Nat
         /\ NextId \in Nat
         /\ issued'[NextId].owner = i /\ issued'[NextId].expires = clock + Lifetime
<1>1. issued \in Seq(SessionRecord) /\ Session(i) \in SessionRecord /\ issued' = Append(issued, Session(i))
  BY SessionTyped DEF ProviderTypeOK, SessionRecord, Issue
<1>2. /\ issued' \in Seq(SessionRecord) /\ NextId \in DOMAIN issued' /\ DOMAIN issued' = DOMAIN issued \union {NextId}
      /\ \A c \in DOMAIN issued : issued'[c] = issued[c] /\ c < NextId /\ c \in Nat
      /\ issued'[NextId] = Session(i) /\ NextId \in Nat
  BY <1>1 DEF NextId
<1>3. ProviderTypeOK'
  BY <1>2 DEF ProviderTypeOK, SessionRecord, Issue
<1>4. QED
  BY <1>2, <1>3, SessionTyped DEF Issue

\* A mutation leaves a policy a policy, and what probes saw before it.
LEMMA MutateInv ==
  ASSUME ProviderTypeOK, NEW i \in Identities, NEW m, Mutate(i, m),
         m.denies \in SUBSET Capabilities, m.grants \in SUBSET Capabilities
  PROVE  ProviderTypeOK' /\ issued' = issued /\ clock' = clock
<1>1. policy \in [Identities -> Policy] /\ policy[i] \in Policy
  BY DEF ProviderTypeOK
<1>2. Mutated(policy[i], m) \in Policy
  <2>1. CASE m.kind = "ATTACH_INLINE_DENY"
    BY <1>1, <2>1 DEF Mutated, Policy
  <2>2. CASE m.kind = "REMOVE_INLINE_POLICY"
    BY <1>1, <2>2 DEF Mutated, Policy
  <2>3. CASE m.kind = "REPLACE_INLINE_POLICY"
    BY <1>1, <2>3 DEF Mutated, Policy
  <2>4. CASE m.kind \notin {"ATTACH_INLINE_DENY", "REMOVE_INLINE_POLICY", "REPLACE_INLINE_POLICY"}
    BY <1>1, <2>4 DEF Mutated
  <2>5. QED
    BY <2>1, <2>2, <2>3, <2>4
<1>3. policy' \in [Identities -> Policy]
  BY <1>1, <1>2 DEF Mutate
<1>4. revoked' \subseteq DOMAIN issued /\ blocked' \subseteq Identities
  BY ProviderConstants DEF Mutate, ProviderTypeOK, Owned
<1>5. pending' \in [Identities -> [pre : Policy, settle : Nat, shown : SUBSET Nat]]
  <2>1. PICK d \in Delays, n \in FlipCounts :
           \E flips \in [1 .. n -> 1 .. Max({1, d - 1})] :
             pending' = [pending EXCEPT ![i] = Schedule(policy[i], d, flips)]
    BY DEF Mutate
  <2>2. PICK flips : pending' = [pending EXCEPT ![i] = Schedule(policy[i], d, flips)]
    BY <2>1
  <2>3. clock \in Nat /\ d \in Nat
    BY ProviderConstants DEF ProviderTypeOK
  <2> DEFINE shown == {clock + t : t \in {u \in 1 .. d - 1 : Cardinality({k \in DOMAIN flips : flips[k] <= u}) % 2 = 1}}
  <2>4. shown \subseteq Nat
    <3>1. \A t \in 1 .. d - 1 : clock + t \in Nat
      BY <2>3
    <3>2. \A x \in shown : \E t \in 1 .. d - 1 : x = clock + t
      OBVIOUS
    <3>3. QED
      BY <3>1, <3>2
  <2>5. Schedule(policy[i], d, flips) = [pre |-> policy[i], settle |-> clock + d, shown |-> shown]
    BY DEF Schedule
  <2> HIDE DEF shown
  <2>6. Schedule(policy[i], d, flips) \in [pre : Policy, settle : Nat, shown : SUBSET Nat]
    BY <1>1, <2>3, <2>4, <2>5
  <2>7. QED
    BY <2>2, <2>6 DEF ProviderTypeOK
<1>6. QED
  BY <1>3, <1>4, <1>5 DEF ProviderTypeOK, Mutate


\* A mutation changes its target's policy at once, keeps what probes saw before
\* it for them to see, and leaves the other identities alone.
LEMMA MutateSays ==
  ASSUME ProviderTypeOK, NEW i \in Identities, NEW m, Mutate(i, m)
  PROVE  /\ policy'[i] = Mutated(policy[i], m) /\ pending'[i].pre = policy[i]
         /\ \A j \in Identities : j # i => policy'[j] = policy[j] /\ pending'[j] = pending[j]
         /\ revoked' \subseteq revoked \union Owned(i)
<1>1. /\ policy \in [Identities -> Policy] /\ DOMAIN pending = Identities
  BY DEF ProviderTypeOK
<1>2. policy' = [policy EXCEPT ![i] = Mutated(@, m)] /\ revoked' \subseteq revoked \union Owned(i)
  BY DEF Mutate
<1>3. PICK d \in Delays, n \in FlipCounts :
         \E flips \in [1 .. n -> 1 .. Max({1, d - 1})] :
           pending' = [pending EXCEPT ![i] = Schedule(policy[i], d, flips)]
  BY DEF Mutate
<1>4. PICK flips : pending' = [pending EXCEPT ![i] = Schedule(policy[i], d, flips)]
  BY <1>3
<1>5. Schedule(policy[i], d, flips).pre = policy[i]
  BY DEF Schedule
<1>6. QED
  BY <1>1, <1>2, <1>4, <1>5

\* A probe that is not made against a session's snapshot says what the policy in
\* force says, or the one before it while the change has not become visible.
LEMMA AnswerSays ==
  ASSUME NEW i \in Identities, i \notin caching, NEW c
  PROVE  IF Live(Latest(i))
         THEN Answer(i, c) = Evaluate(IF Visible(pending[i]) THEN policy[i] ELSE pending[i].pre, i, c)
         ELSE Answer(i, c) = "DENIED_IMPLICIT"
<1>1. Consulted(i) = IF Visible(pending[i]) THEN policy[i] ELSE pending[i].pre
  BY DEF Consulted
<1>2. QED
  BY <1>1, Zenon DEF Answer

=============================================================================
