------------------------ MODULE CredentialFlowProofs ------------------------
(***************************************************************************)
(* Proofs about CredentialFlow, for any chain of identities, capabilities, *)
(* lifetimes, propagation delays and compiled plans.  The argument is that *)
(* the credential the run holds for an identity is always the newest one   *)
(* the provider issued to it, and that a matrix outlives none of the       *)
(* credentials it checked before it began.  That the verdict of            *)
(* StaleAuthority is true of the run it is read off rests on what the two  *)
(* legs of a deferral have in common besides: the moment, the policy in    *)
(* force, and the session snapshot that the fresh leg is judged by.        *)
(***************************************************************************)
EXTENDS StaleAuthority, FakeProviderProofs

Points == {"materialize", "phase", "ensure", "probe", "write", "pinned", "mint", "fresh",
           "completed", "aborted"}

\* Where the run stands in its plan.
PlaceInv ==
  /\ plan \in Plans /\ at \in 1 .. Len(plan) + 1 /\ pc \in Points
  /\ pc = "materialize" => issued = <<>>
  /\ pc \in {"materialize", "phase"} => row = 1
  /\ pc \in {"ensure", "probe", "write"} => Running("PROBE") /\ row \in DOMAIN Phase.targets
  /\ pc \in {"pinned", "mint", "fresh"} => Running("DEFERRED_EXECUTION")
  /\ pc = "pinned" => Source \in DOMAIN store

\* The run's credential of an identity is the newest session of that identity.
CredsInv ==
  pc # "materialize" =>
    /\ creds \in [Identities -> DOMAIN issued]
    /\ \A i \in Identities : issued[creds[i]].owner = i
    /\ \A c \in DOMAIN issued : c <= creds[issued[c].owner]

\* The identities of the matrix whose credential has been checked already.
Checked == IF pc = "ensure" THEN 1 .. row - 1 ELSE DOMAIN Phase.targets

\* None of them runs out before the matrix ends.
MatrixInv ==
  pc \in {"ensure", "probe"} =>
    \A j \in Checked : clock < issued[creds[Phase.targets[j]]].expires

RecordInv ==
  /\ \A key \in DOMAIN store : store[key] \in DOMAIN issued
  /\ rows \union observations \subseteq Observation
  /\ credentials \subseteq DOMAIN issued
  /\ \A o \in rows \union observations :
       /\ o.phase \in {"PROBE", "PAIRED_FRESH_CREDENTIAL"} => o.credential = o.session
       /\ o.phase = "PROBE" => o.alive
  /\ NoMatrixLostToExpiry

IInv == ProviderTypeOK /\ PlaceInv /\ CredsInv /\ MatrixInv /\ RecordInv

-----------------------------------------------------------------------------
\* The plan.

\* What a phase of a plan looks like.
LEMMA PhaseShape ==
  ASSUME plan \in Plans, at \in 1 .. Len(plan) + 1
  PROVE  /\ Len(plan) \in Nat /\ DOMAIN plan = 1 .. Len(plan)
         /\ Running("PROBE") => /\ Phase.targets \in Seq(Identities) /\ Phase.targets # <<>>
                                /\ Len(Phase.targets) \in Nat \ {0}
                                /\ DOMAIN Phase.targets = 1 .. Len(Phase.targets)
                                /\ \A j \in DOMAIN Phase.targets : Phase.targets[j] \in Identities
         /\ Running("MUTATE") => /\ Phase.target \in Identities
                                 /\ Phase.mutation.denies \in SUBSET Capabilities
                                 /\ Phase.mutation.grants \in SUBSET Capabilities
         /\ Running("WAIT") => Phase.ticks \in Nat
         /\ Running("DEFERRED_EXECUTION") => Phase.target \in Identities
         /\ at \in DOMAIN plan => at + 1 \in 1 .. Len(plan) + 1
<1>1. plan \in Seq(PlanPhase)
  BY PlansAreCompiled
<1>2. Len(plan) \in Nat /\ DOMAIN plan = 1 .. Len(plan)
  BY <1>1
<1>3. at \in DOMAIN plan => Phase \in PlanPhase
  BY <1>1 DEF Phase
<1>4. Running("PROBE") => Phase.targets \in Seq(Identities) \ {<<>>}
  BY <1>3 DEF Running, PlanPhase
<1>5. Running("MUTATE") => /\ Phase.target \in Identities
                           /\ Phase.mutation \in [kind : STRING, denies : SUBSET Capabilities, grants : SUBSET Capabilities]
  BY <1>3 DEF Running, PlanPhase
<1>6. Running("WAIT") => Phase.ticks \in Nat
  BY <1>3 DEF Running, PlanPhase
<1>7. Running("DEFERRED_EXECUTION") => Phase.target \in Identities
  BY <1>3 DEF Running, PlanPhase
<1>8. Running("PROBE") => /\ Len(Phase.targets) \in Nat \ {0}
                          /\ DOMAIN Phase.targets = 1 .. Len(Phase.targets)
                          /\ \A j \in DOMAIN Phase.targets : Phase.targets[j] \in Identities
  BY <1>4
<1>9. QED
  BY <1>2, <1>4, <1>5, <1>6, <1>7, <1>8

\* A matrix takes time, and so a kept credential has some left.
LEMMA MatrixTakesTime ==
  ASSUME plan \in Plans, at \in 1 .. Len(plan) + 1, Running("PROBE")
  PROVE  Estimate \in Nat \ {0}
<1>1. \A m, n \in Nat \ {0} : m * n \in Nat \ {0}
  OBVIOUS
<1>2. QED
  BY <1>1, PhaseShape, FlowConstants DEF Estimate

-----------------------------------------------------------------------------
\* The provider.

\* The newest session of an identity is the one the run holds.
LEMMA LatestIsHeld ==
  ASSUME ProviderTypeOK, CredsInv, pc # "materialize", NEW i \in Identities
  PROVE  Latest(i) = creds[i] /\ creds[i] \in DOMAIN issued
<1>1. /\ creds[i] \in Owned(i) /\ \A c \in Owned(i) : creds[i] >= c
      /\ Owned(i) \subseteq Nat /\ creds[i] \in DOMAIN issued
  <2>1. DOMAIN issued = 1 .. Len(issued) /\ Len(issued) \in Nat
    BY DEF ProviderTypeOK
  <2>2. creds[i] \in DOMAIN issued /\ issued[creds[i]].owner = i
    BY DEF CredsInv
  <2>3. \A c \in Owned(i) : c \in DOMAIN issued /\ c <= creds[i]
    BY DEF CredsInv, Owned
  <2>4. QED
    BY <2>1, <2>2, <2>3 DEF Owned
<1>2. \A x \in Owned(i) : (\A c \in Owned(i) : x >= c) => x = creds[i]
  BY <1>1
<1>3. QED
  BY <1>1, <1>2 DEF Latest, Max

-----------------------------------------------------------------------------
\* Observations.

\* A cell names the credential the run says, and the session that answered.
LEMMA CellsTyped ==
  ASSUME ProviderTypeOK, CredsInv, pc # "materialize", at \in Nat, NEW i \in Identities,
         NEW label \in DOMAIN issued, NEW faults,
         NEW phase \in {"PROBE", "DEFERRED_EXECUTION", "PAIRED_FRESH_CREDENTIAL"}
  PROVE  \A o \in Cells(phase, i, label, faults) :
           /\ o \in Observation /\ o.phase = phase /\ o.credential = label
           /\ o.session = creds[i] /\ (o.alive <=> Live(creds[i]))
<1>1. Latest(i) = creds[i] /\ creds[i] \in DOMAIN issued /\ clock \in Nat
  BY LatestIsHeld DEF ProviderTypeOK
<1>2. \A p, c : Evaluate(p, i, c) \in Outcomes
  BY DEF Evaluate, Outcomes
<1>3. \A c : Answer(i, c) \in Outcomes
  BY <1>2 DEF Answer, Outcomes
<1>4. \A c \in Capabilities, out \in Outcomes, current \in Outcomes, alive \in BOOLEAN :
        LET o == [phase |-> phase, at |-> at, identity |-> i, capability |-> c, credential |-> label,
                  time |-> clock, outcome |-> out, session |-> creds[i], alive |-> alive, current |-> current]
        IN  o \in Observation /\ o.phase = phase /\ o.credential = label /\ o.session = creds[i] /\ o.alive = alive
  BY <1>1 DEF Observation
<1>5. ASSUME NEW c \in Capabilities, NEW fault
      PROVE  LET o == Cell(phase, i, label, c, fault)
             IN  /\ o \in Observation /\ o.phase = phase /\ o.credential = label
                 /\ o.session = creds[i] /\ o.alive = Live(creds[i])
  <2> DEFINE out == IF fault THEN "ERROR_TRANSIENT" ELSE Answer(i, c)
             alive == Live(creds[i])
             current == Evaluate(policy[i], i, c)
  <2>1. out \in Outcomes
    BY <1>3 DEF Outcomes
  <2>2. current \in Outcomes /\ alive \in BOOLEAN
    BY <1>2 DEF Live
  <2>3. Cell(phase, i, label, c, fault) =
          [phase |-> phase, at |-> at, identity |-> i, capability |-> c, credential |-> label,
           time |-> clock, outcome |-> out, session |-> creds[i], alive |-> alive, current |-> current]
    BY <1>1, Zenon DEF Cell
  <2>4. alive = Live(creds[i])
    OBVIOUS
  <2> HIDE DEF out, alive, current
  <2>5. LET o == [phase |-> phase, at |-> at, identity |-> i, capability |-> c, credential |-> label,
                  time |-> clock, outcome |-> out, session |-> creds[i], alive |-> alive, current |-> current]
        IN  o \in Observation /\ o.phase = phase /\ o.credential = label /\ o.session = creds[i] /\ o.alive = alive
    BY <1>4, <2>1, <2>2, Zenon
  <2>6. QED
    BY <2>3, <2>4, <2>5, Zenon
<1>6. QED
  BY <1>5 DEF Cells

\* A session once issued is there to be named for the rest of the run.
LEMMA ObservationsStay ==
  ASSUME DOMAIN issued \subseteq DOMAIN issued'
  PROVE  Observation \subseteq Observation'
BY DEF Observation

\* A step that records only well-attributed observations keeps RecordInv.
LEMMA RecordFrame ==
  ASSUME RecordInv, DOMAIN issued \subseteq DOMAIN issued',
         \A key \in DOMAIN store' : store'[key] \in DOMAIN issued',
         \A o \in rows' \union observations' :
           \/ o \in rows \union observations
           \/ /\ o \in Observation
              /\ o.phase \in {"PROBE", "PAIRED_FRESH_CREDENTIAL"} => o.credential = o.session
              /\ o.phase = "PROBE" => o.alive,
         credentials' \subseteq DOMAIN issued',
         \A e \in events' : \/ e \in events
                            \/ e.kind = "MATRIX_DISCARDED" => e.cause # "expiry"
  PROVE  RecordInv'
<1>1. rows' \union observations' \subseteq Observation'
  BY ObservationsStay DEF RecordInv
<1>2. \A o \in rows' \union observations' :
        /\ o.phase \in {"PROBE", "PAIRED_FRESH_CREDENTIAL"} => o.credential = o.session
        /\ o.phase = "PROBE" => o.alive
  BY DEF RecordInv
<1>3. NoMatrixLostToExpiry'
  BY DEF RecordInv, NoMatrixLostToExpiry
<1>4. QED
  BY <1>1, <1>2, <1>3 DEF RecordInv

-----------------------------------------------------------------------------
\* The invariant.

\* The invariant holds before the first phase.
LEMMA InitInv == Init => IInv
<1> SUFFICES ASSUME Init PROVE IInv
  OBVIOUS
<1> USE DEF Init, ProviderInit
<1>1. ProviderTypeOK
  <2>1. policy \in [Identities -> Policy]
    BY ProviderConstants DEF Policy
  <2>2. pending \in [Identities -> [pre : Policy, settle : Nat, shown : SUBSET Nat]]
    BY <2>1
  <2>3. QED
    BY <2>1, <2>2 DEF ProviderTypeOK
<1>2. PlaceInv
  <2>1. Len(plan) \in Nat
    BY PlansAreCompiled
  <2>2. QED
    BY <2>1 DEF PlaceInv, Points
<1>3. CredsInv /\ MatrixInv
  BY DEF CredsInv, MatrixInv
<1>4. RecordInv
  BY DEF RecordInv, NoMatrixLostToExpiry
<1>5. QED
  BY <1>1, <1>2, <1>3, <1>4 DEF IInv

\* The provider's step: its types, and that sessions stay what they are.
LEMMA ProviderStep ==
  ASSUME IInv, [Next]_vars
  PROVE  /\ ProviderTypeOK' /\ DOMAIN issued \subseteq DOMAIN issued'
         /\ \A c \in DOMAIN issued : issued'[c] = issued[c]
<1>1. ProviderTypeOK /\ PlaceInv
  BY DEF IInv
<1>2. ASSUME UNCHANGED provider
      PROVE  /\ ProviderTypeOK' /\ issued' = issued
  BY <1>1, <1>2 DEF provider, ProviderTypeOK
<1>3. CASE Materialize
  <2>1. issued' \in Seq(SessionRecord)
    <3>1. issued' = [k \in DOMAIN Edges |-> Session(Edges[k])]
      BY <1>3 DEF Materialize
    <3>2. DOMAIN Edges = 1 .. Len(Edges) /\ Len(Edges) \in Nat /\ \A k \in DOMAIN Edges : Edges[k] \in Identities
      BY ProviderConstants
    <3>3. \A k \in DOMAIN Edges : Session(Edges[k]) \in SessionRecord
      BY <1>1, <3>2, SessionTyped
    <3>4. QED
      BY <3>1, <3>2, <3>3
  <2>2. issued = <<>> /\ revoked = {}
    BY <1>1, <1>3 DEF Materialize, PlaceInv, ProviderTypeOK
  <2>3. QED
    BY <1>1, <1>3, <2>1, <2>2 DEF Materialize, ProviderTypeOK, SessionRecord
<1>4. ASSUME NEW i \in Identities, Issue(i)
      PROVE  /\ ProviderTypeOK' /\ DOMAIN issued \subseteq DOMAIN issued'
             /\ \A c \in DOMAIN issued : issued'[c] = issued[c]
  BY <1>1, <1>4, IssueInv
<1>5. CASE Redelegate
  <2>1. Target \in Identities
    BY <1>1, <1>5, PhaseShape DEF Redelegate, PlaceInv, Target
  <2>2. QED
    BY <1>4, <1>5, <2>1 DEF Redelegate
<1>6. CASE Mint
  <2>1. Phase.target \in Identities
    BY <1>1, <1>6, PhaseShape DEF Mint, PlaceInv
  <2>2. QED
    BY <1>4, <1>6, <2>1 DEF Mint
<1>7. CASE MutatePhase
  <2>1. /\ Phase.target \in Identities
        /\ Phase.mutation.denies \in SUBSET Capabilities /\ Phase.mutation.grants \in SUBSET Capabilities
    BY <1>1, <1>7, PhaseShape DEF MutatePhase, PlaceInv
  <2>2. QED
    BY <1>1, <1>7, <2>1, MutateInv DEF MutatePhase
<1>8. CASE WaitPhase
  <2>1. Phase.ticks \in Nat
    BY <1>1, <1>8, PhaseShape DEF WaitPhase, PlaceInv
  <2>2. clock' \in Nat
    BY <1>1, <1>8, <2>1 DEF WaitPhase, AdvanceClock, ProviderTypeOK
  <2>3. QED
    BY <1>1, <1>8, <2>2 DEF WaitPhase, AdvanceClock, ProviderTypeOK
<1>9. CASE PinnedLeg
  <2>1. Phase.target \in Identities
    BY <1>1, <1>9, PhaseShape DEF PinnedLeg, PlaceInv
  <2>2. QED
    BY <1>1, <1>9, <2>1 DEF PinnedLeg, EnableCaching, ProviderTypeOK
<1>10. ASSUME \/ StartMatrix \/ KeepCredential \/ RedelegationRefused \/ PreconditionFails \/ ProbeRow
              \/ ControlFails \/ WriteMatrix
       PROVE  UNCHANGED provider
  BY <1>10 DEF StartMatrix, KeepCredential, RedelegationRefused, PreconditionFails, ProbeRow,
               ControlFails, WriteMatrix, Discard
<1>11. ASSUME ResolveFails \/ ProbePinned \/ MintRefused \/ FreshLeg \/ Complete \/ UNCHANGED vars
       PROVE  UNCHANGED provider
  BY <1>11 DEF ResolveFails, ProbePinned, MintRefused, FreshLeg, Complete, WriteDeferred, vars
<1>12. QED
  BY <1>2, <1>3, <1>5, <1>6, <1>7, <1>8, <1>9, <1>10, <1>11 DEF Next


\* A phase ends: the next one begins at its first row.
LEMMA EndPhasePlace ==
  ASSUME PlaceInv, at \in DOMAIN plan, EndPhase, plan' = plan
  PROVE  PlaceInv' /\ pc' = "phase"
<1>1. at + 1 \in 1 .. Len(plan) + 1
  BY PhaseShape DEF PlaceInv
<1>2. QED
  BY <1>1 DEF PlaceInv, EndPhase, Points

\* Every step keeps the place in the plan a place of it.
LEMMA PlaceStep == IInv /\ [Next]_vars => PlaceInv'
<1> SUFFICES ASSUME IInv, [Next]_vars PROVE PlaceInv'
  OBVIOUS
<1>1. PlaceInv
  BY DEF IInv
<1>2. ASSUME plan' = plan, at' = at
      PROVE  /\ Phase' = Phase /\ Source' = Source
             /\ \A kind : Running(kind)' = Running(kind)
  BY <1>2 DEF Phase, Source, Running
<1>3. CASE Materialize
  BY <1>1, <1>3 DEF Materialize, PlaceInv, Points
<1>4. CASE StartMatrix
  BY <1>1, <1>2, <1>4, PhaseShape DEF StartMatrix, PlaceInv, Points
<1>5. ASSUME NEW c, Remember(c), pc = "ensure"
      PROVE  PlaceInv'
  <2>1. /\ plan' = plan /\ at' = at
        /\ \/ row < Len(Phase.targets) /\ row' = row + 1 /\ pc' = "ensure"
           \/ row' = 1 /\ pc' = "probe"
    BY <1>5 DEF Remember
  <2>2. /\ Running("PROBE") /\ row \in DOMAIN Phase.targets /\ Len(Phase.targets) \in Nat \ {0}
        /\ DOMAIN Phase.targets = 1 .. Len(Phase.targets)
    BY <1>1, <1>5, PhaseShape DEF PlaceInv
  <2>3. row' \in DOMAIN Phase.targets
    BY <2>1, <2>2
  <2>4. QED
    BY <1>1, <1>2, <2>1, <2>2, <2>3 DEF PlaceInv, Points
<1>6. CASE KeepCredential \/ Redelegate
  BY <1>5, <1>6 DEF KeepCredential, Redelegate
<1>7. CASE RedelegationRefused \/ ResolveFails
  BY <1>1, <1>7 DEF RedelegationRefused, ResolveFails, PlaceInv, Points
<1>8. ASSUME NEW cause, Discard(cause), pc = "probe"
      PROVE  PlaceInv'
  BY <1>1, <1>8, EndPhasePlace DEF Discard, PlaceInv, Running
<1>9. CASE PreconditionFails \/ ControlFails
  BY <1>8, <1>9 DEF PreconditionFails, ControlFails
<1>10. CASE ProbeRow
  <2>1. /\ plan' = plan /\ at' = at /\ issued' = issued
        /\ \/ row < Len(Phase.targets) /\ row' = row + 1 /\ pc' = "probe"
           \/ row' = row /\ pc' = "write"
    BY <1>10 DEF ProbeRow, provider
  <2>2. /\ Running("PROBE") /\ row \in DOMAIN Phase.targets /\ Len(Phase.targets) \in Nat \ {0}
        /\ DOMAIN Phase.targets = 1 .. Len(Phase.targets)
    BY <1>1, <1>10, PhaseShape DEF ProbeRow, PlaceInv
  <2>3. row' \in DOMAIN Phase.targets
    BY <2>1, <2>2
  <2>4. QED
    BY <1>1, <1>2, <2>1, <2>2, <2>3 DEF PlaceInv, Points
<1>11. CASE WriteMatrix
  BY <1>1, <1>11, EndPhasePlace DEF WriteMatrix, PlaceInv, Running
<1>12. CASE MutatePhase
  BY <1>1, <1>12, EndPhasePlace DEF MutatePhase, Running
<1>13. CASE WaitPhase
  BY <1>1, <1>13, EndPhasePlace DEF WaitPhase, Running
<1>14. CASE PinnedLeg
  <2>1. /\ plan' = plan /\ at' = at /\ store' = store /\ pc' = "pinned" /\ row' = row
        /\ Running("DEFERRED_EXECUTION") /\ Source \in DOMAIN store
    BY <1>14 DEF PinnedLeg
  <2>2. QED
    BY <1>1, <1>2, <2>1 DEF PlaceInv, Points
<1>15. CASE ProbePinned
  <2>1. plan' = plan /\ at' = at /\ pc' = "mint" /\ row' = row /\ Running("DEFERRED_EXECUTION")
    BY <1>1, <1>15 DEF ProbePinned, PlaceInv
  <2>2. QED
    BY <1>1, <1>2, <2>1 DEF PlaceInv, Points
<1>16. CASE Mint
  <2>1. plan' = plan /\ at' = at /\ pc' = "fresh" /\ row' = row /\ Running("DEFERRED_EXECUTION")
    BY <1>1, <1>16 DEF Mint, PlaceInv
  <2>2. QED
    BY <1>1, <1>2, <2>1 DEF PlaceInv, Points
<1>17. CASE MintRefused \/ FreshLeg
  <2>1. EndPhase /\ plan' = plan /\ at \in DOMAIN plan
    BY <1>1, <1>17 DEF MintRefused, FreshLeg, WriteDeferred, PlaceInv, Running
  <2>2. QED
    BY <1>1, <2>1, EndPhasePlace
<1>18. CASE Complete
  BY <1>1, <1>18 DEF Complete, PlaceInv, Points
<1>19. CASE UNCHANGED vars
  <2>1. plan' = plan /\ at' = at /\ pc' = pc /\ row' = row /\ store' = store /\ issued' = issued
    BY <1>19 DEF vars, run, provider
  <2>2. QED
    BY <1>1, <1>2, <2>1 DEF PlaceInv
<1>20. QED
  BY <1>3, <1>4, <1>6, <1>7, <1>9, <1>10, <1>11, <1>12, <1>13, <1>14, <1>15, <1>16, <1>17, <1>18, <1>19 DEF Next

\* A session issued to an identity becomes the credential the run holds for it.
LEMMA HoldNew ==
  ASSUME ProviderTypeOK, CredsInv, pc # "materialize", NEW i \in Identities, Issue(i),
         creds' = [creds EXCEPT ![i] = NextId]
  PROVE  CredsInv'
<1>1. /\ NextId \in DOMAIN issued' /\ DOMAIN issued' = DOMAIN issued \union {NextId}
      /\ \A c \in DOMAIN issued : issued'[c] = issued[c] /\ c < NextId /\ c \in Nat
      /\ NextId \in Nat /\ issued'[NextId].owner = i
  BY IssueInv
<1>2. /\ creds \in [Identities -> DOMAIN issued]
      /\ \A j \in Identities : issued[creds[j]].owner = j
      /\ \A c \in DOMAIN issued : c <= creds[issued[c].owner]
  BY DEF CredsInv
<1>3. creds' \in [Identities -> DOMAIN issued']
  BY <1>1, <1>2
<1>4. \A j \in Identities : issued'[creds'[j]].owner = j
  BY <1>1, <1>2
<1>5. \A c \in DOMAIN issued' : c <= creds'[issued'[c].owner]
  <2>1. \A c \in DOMAIN issued : issued[c].owner \in Identities
    <3>1. issued \in Seq(SessionRecord)
      BY DEF ProviderTypeOK, SessionRecord
    <3>2. \A c \in DOMAIN issued : issued[c] \in SessionRecord
      BY <3>1
    <3>3. QED
      BY <3>2 DEF SessionRecord
  <2>2. QED
    BY <1>1, <1>2, <2>1
<1>6. QED
  BY <1>3, <1>4, <1>5 DEF CredsInv

\* Every step keeps the stored credentials issued ones.
LEMMA CredsStep == IInv /\ [Next]_vars => CredsInv'
<1> SUFFICES ASSUME IInv, [Next]_vars PROVE CredsInv'
  OBVIOUS
<1>1. ProviderTypeOK /\ PlaceInv /\ CredsInv
  BY DEF IInv
<1>2. ASSUME creds' = creds, issued' = issued, pc # "materialize" \/ pc' = "materialize"
      PROVE  CredsInv'
  BY <1>1, <1>2 DEF CredsInv
<1>3. CASE Materialize
  <2>1. /\ issued' = [k \in DOMAIN Edges |-> Session(Edges[k])]
        /\ creds' = [i \in Identities |-> CHOOSE k \in DOMAIN Edges : Edges[k] = i]
    BY <1>3 DEF Materialize
  <2>2. \A k \in DOMAIN Edges : Edges[k] \in Identities /\ k \in Nat /\ Session(Edges[k]).owner = Edges[k]
    BY <1>1, ProviderConstants, SessionTyped
  <2>3. \A i \in Identities : creds'[i] \in DOMAIN Edges /\ Edges[creds'[i]] = i
    BY <2>1 DEF Identities
  <2>4. \A k \in DOMAIN Edges : creds'[Edges[k]] = k
    BY <2>2, <2>3, ProviderConstants
  <2>5. creds' \in [Identities -> DOMAIN issued']
    BY <2>1, <2>3
  <2>6. \A i \in Identities : issued'[creds'[i]].owner = i
    BY <2>1, <2>2, <2>3
  <2>7. \A c \in DOMAIN issued' : c <= creds'[issued'[c].owner]
    <3>1. \A c \in DOMAIN Edges : issued'[c] = Session(Edges[c])
      BY <2>1
    <3>2. \A c \in DOMAIN Edges : issued'[c].owner = Edges[c] /\ c \in Nat
      BY <2>2, <3>1
    <3>3. DOMAIN issued' = DOMAIN Edges
      BY <2>1
    <3>4. QED
      BY <2>4, <3>2, <3>3
  <2>8. QED
    BY <2>5, <2>6, <2>7 DEF CredsInv
<1>4. CASE Redelegate
  <2>1. Target \in Identities /\ pc # "materialize"
    BY <1>1, <1>4, PhaseShape DEF Redelegate, PlaceInv, Target
  <2>2. QED
    BY <1>1, <1>4, <2>1, HoldNew DEF Redelegate
<1>5. CASE Mint
  <2>1. Phase.target \in Identities /\ pc # "materialize"
    BY <1>1, <1>5, PhaseShape DEF Mint, PlaceInv
  <2>2. QED
    BY <1>1, <1>5, <2>1, HoldNew DEF Mint
<1>6. ASSUME \/ StartMatrix \/ KeepCredential \/ RedelegationRefused \/ PreconditionFails \/ ProbeRow
             \/ ControlFails \/ WriteMatrix
      PROVE  creds' = creds /\ issued' = issued /\ pc # "materialize"
  BY <1>6 DEF StartMatrix, KeepCredential, RedelegationRefused, PreconditionFails, ProbeRow,
              ControlFails, WriteMatrix, Discard, provider
<1>7. ASSUME ResolveFails \/ ProbePinned \/ MintRefused \/ FreshLeg \/ Complete
      PROVE  creds' = creds /\ issued' = issued /\ pc # "materialize"
  BY <1>7 DEF ResolveFails, ProbePinned, MintRefused, FreshLeg, Complete, WriteDeferred, provider
<1>8. ASSUME MutatePhase \/ WaitPhase \/ PinnedLeg
      PROVE  creds' = creds /\ issued' = issued /\ pc # "materialize"
  BY <1>8 DEF MutatePhase, Mutate, WaitPhase, AdvanceClock, PinnedLeg, EnableCaching
<1>9. CASE UNCHANGED vars
  BY <1>2, <1>9 DEF vars, run, provider
<1>10. QED
  BY <1>2, <1>3, <1>4, <1>5, <1>6, <1>7, <1>8, <1>9 DEF Next


\* One more credential of the matrix has been checked, and has time left.
LEMMA CheckedGrows ==
  ASSUME PlaceInv, CredsInv, MatrixInv, pc = "ensure", NEW c, Remember(c), clock' = clock,
         \A d \in DOMAIN issued : issued'[d] = issued[d],
         clock < issued'[creds'[Target]].expires,
         \A i \in Identities : creds'[i] = creds[i] \/ clock < issued'[creds'[i]].expires
  PROVE  MatrixInv'
<1>1. /\ Running("PROBE") /\ row \in DOMAIN Phase.targets /\ Len(Phase.targets) \in Nat \ {0}
      /\ DOMAIN Phase.targets = 1 .. Len(Phase.targets)
      /\ \A j \in DOMAIN Phase.targets : Phase.targets[j] \in Identities
  BY PhaseShape DEF PlaceInv
<1>2. Phase' = Phase
  BY DEF Remember, Phase
<1>3. \A j \in 1 .. row : clock < issued'[creds'[Phase.targets[j]]].expires
  <2>1. \A j \in 1 .. row - 1 : clock < issued[creds[Phase.targets[j]]].expires
    BY DEF MatrixInv, Checked
  <2>2. \A j \in 1 .. row : j \in DOMAIN Phase.targets /\ (j = row \/ j \in 1 .. row - 1)
    BY <1>1
  <2>3. \A i \in Identities : creds[i] \in DOMAIN issued
    BY DEF CredsInv
  <2>4. QED
    BY <1>1, <2>1, <2>2, <2>3 DEF Target
<1>4. Checked' \subseteq 1 .. row
  <2>1. CASE row < Len(Phase.targets)
    <3>1. row' = row + 1 /\ pc' = "ensure"
      BY <2>1 DEF Remember
    <3>2. row' - 1 = row
      BY <1>1, <3>1
    <3>3. QED
      BY <3>1, <3>2 DEF Checked
  <2>2. CASE ~(row < Len(Phase.targets))
    <3>1. pc' = "probe" /\ DOMAIN Phase.targets = 1 .. row
      BY <1>1, <2>2 DEF Remember
    <3>2. QED
      BY <1>2, <3>1 DEF Checked
  <2>3. QED
    BY <2>1, <2>2
<1>5. QED
  BY <1>2, <1>3, <1>4 DEF MatrixInv

\* Every step keeps the matrix in progress the one of its phase.
LEMMA MatrixStep == IInv /\ [Next]_vars => MatrixInv'
<1> SUFFICES ASSUME IInv, [Next]_vars PROVE MatrixInv'
  OBVIOUS
<1>1. /\ ProviderTypeOK /\ PlaceInv /\ CredsInv /\ MatrixInv
      /\ clock \in Nat /\ Lifetime \in Nat \ {0}
  BY ProviderConstants DEF IInv, ProviderTypeOK
<1>2. ASSUME pc' \notin {"ensure", "probe"}
      PROVE  MatrixInv'
  BY <1>2 DEF MatrixInv
<1>3. ASSUME pc = "ensure"
      PROVE  /\ Target \in Identities /\ creds[Target] \in DOMAIN issued
             /\ issued[creds[Target]].expires \in Nat /\ Estimate \in Nat \ {0}
  <2>1. Target \in Identities /\ Estimate \in Nat \ {0}
    BY <1>1, <1>3, PhaseShape, MatrixTakesTime DEF PlaceInv, Target
  <2>2. creds[Target] \in DOMAIN issued
    BY <1>1, <1>3, <2>1 DEF CredsInv
  <2>3. issued[creds[Target]] \in SessionRecord
    <3>1. issued \in Seq(SessionRecord)
      BY <1>1 DEF ProviderTypeOK, SessionRecord
    <3>2. QED
      BY <2>2, <3>1
  <2>4. QED
    BY <2>1, <2>2, <2>3 DEF SessionRecord
<1>4. CASE StartMatrix
  <2>1. row' = 1 /\ pc' = "ensure"
    BY <1>1, <1>4 DEF StartMatrix, PlaceInv
  <2>2. QED
    BY <2>1 DEF MatrixInv, Checked
<1>5. CASE KeepCredential
  <2>1. issued' = issued /\ clock' = clock /\ creds' = creds /\ pc = "ensure" /\ Remember(creds[Target])
    BY <1>5 DEF KeepCredential, provider
  <2>2. clock < issued[creds[Target]].expires
    <3>1. ~(issued[creds[Target]].expires - clock < 2 * Estimate)
      BY <1>5 DEF KeepCredential, NeedsRedelegation
    <3>2. QED
      BY <1>1, <1>3, <2>1, <3>1
  <2>3. QED
    BY <1>1, <2>1, <2>2, CheckedGrows
<1>6. CASE Redelegate
  <2>1. /\ pc = "ensure" /\ Issue(Target) /\ creds' = [creds EXCEPT ![Target] = NextId] /\ Remember(NextId)
        /\ creds \in [Identities -> DOMAIN issued] /\ Target \in Identities
    BY <1>1, <1>3, <1>6 DEF Redelegate, CredsInv
  <2>2. /\ clock' = clock /\ issued'[NextId].expires = clock + Lifetime
        /\ \A d \in DOMAIN issued : issued'[d] = issued[d]
    BY <1>1, <2>1, IssueInv
  <2>3. creds'[Target] = NextId /\ \A i \in Identities : creds'[i] = creds[i] \/ creds'[i] = NextId
    BY <2>1
  <2>4. clock < issued'[NextId].expires
    BY <1>1, <2>2
  <2>5. QED
    BY <1>1, <2>1, <2>2, <2>3, <2>4, CheckedGrows
<1>7. CASE ProbeRow
  <2>1. /\ pc = "probe" /\ Phase' = Phase /\ pc' \in {"probe", "write"}
        /\ issued' = issued /\ clock' = clock /\ creds' = creds
    BY <1>7 DEF ProbeRow, Phase, provider
  <2>2. QED
    BY <1>1, <2>1 DEF MatrixInv, Checked
<1>8. ASSUME \/ Materialize \/ RedelegationRefused \/ PreconditionFails \/ ControlFails \/ WriteMatrix
             \/ MutatePhase \/ WaitPhase
      PROVE  pc' \notin {"ensure", "probe"}
  BY <1>8 DEF Materialize, RedelegationRefused, PreconditionFails, ControlFails, WriteMatrix,
              MutatePhase, WaitPhase, Discard, EndPhase
<1>9. ASSUME \/ ResolveFails \/ PinnedLeg \/ ProbePinned \/ Mint \/ MintRefused \/ FreshLeg \/ Complete
      PROVE  pc' \notin {"ensure", "probe"}
  BY <1>9 DEF ResolveFails, PinnedLeg, ProbePinned, Mint, MintRefused, FreshLeg, Complete,
              WriteDeferred, EndPhase
<1>10. CASE UNCHANGED vars
  <2>1. Phase' = Phase /\ pc' = pc /\ row' = row /\ issued' = issued /\ clock' = clock /\ creds' = creds
    BY <1>10 DEF vars, run, provider, Phase
  <2>2. QED
    BY <1>1, <2>1 DEF MatrixInv, Checked
<1>11. QED
  BY <1>2, <1>4, <1>5, <1>6, <1>7, <1>8, <1>9, <1>10 DEF Next

\* Every step keeps the records attributed to what signed them.
LEMMA RecordStep == IInv /\ [Next]_vars => RecordInv'
<1> SUFFICES ASSUME IInv, [Next]_vars PROVE RecordInv'
  OBVIOUS
<1>1. /\ ProviderTypeOK /\ PlaceInv /\ CredsInv /\ MatrixInv /\ RecordInv
      /\ DOMAIN issued \subseteq DOMAIN issued'
      /\ \A key \in DOMAIN store : store[key] \in DOMAIN issued'
      /\ credentials \subseteq DOMAIN issued'
  BY ProviderStep DEF IInv, RecordInv
<1>2. at \in Nat
  BY <1>1, PhaseShape DEF PlaceInv
<1>3. ASSUME pc # "materialize"
      PROVE  \A i \in Identities : creds[i] \in DOMAIN issued
  BY <1>1, <1>3 DEF CredsInv
<1>4. ASSUME rows' \union observations' \subseteq rows \union observations,
             store' = store, credentials' = credentials, events' = events
      PROVE  RecordInv'
  BY <1>1, <1>4, RecordFrame
<1>5. ASSUME StartMatrix \/ RedelegationRefused \/ ResolveFails \/ PinnedLeg \/ Mint \/ Complete
      PROVE  UNCHANGED <<rows, observations, store, credentials, events>>
  BY <1>5 DEF StartMatrix, RedelegationRefused, ResolveFails, PinnedLeg, Mint, Complete, bundle
<1>6. CASE Materialize
  <2>1. /\ UNCHANGED <<store, rows, observations, events>> /\ credentials' = DOMAIN Edges
        /\ DOMAIN issued' = DOMAIN Edges
    BY <1>6 DEF Materialize
  <2>2. QED
    BY <1>1, <2>1, RecordFrame
<1>7. ASSUME NEW c \in DOMAIN issued', Remember(c)
      PROVE  \A key \in DOMAIN store' : store'[key] \in DOMAIN issued'
  <2>1. store' = Recorded(c)
    BY <1>7 DEF Remember
  <2>2. \A key \in DOMAIN store' : store'[key] = c \/ (key \in DOMAIN store /\ store'[key] = store[key])
    BY <2>1 DEF Recorded
  <2>3. QED
    BY <1>1, <1>7, <2>2
<1>8. CASE KeepCredential
  <2>1. Target \in Identities /\ pc # "materialize"
    BY <1>1, <1>8, PhaseShape DEF KeepCredential, PlaceInv, Target
  <2>2. /\ creds[Target] \in DOMAIN issued' /\ Remember(creds[Target])
        /\ UNCHANGED <<rows, observations, credentials, events>>
    BY <1>1, <1>3, <1>8, <2>1 DEF KeepCredential, Remember
  <2>3. \A key \in DOMAIN store' : store'[key] \in DOMAIN issued'
    BY <1>7, <2>2
  <2>4. QED
    BY <1>1, <2>2, <2>3, RecordFrame
<1>9. CASE Redelegate
  <2>1. Target \in Identities
    BY <1>1, <1>9, PhaseShape DEF Redelegate, PlaceInv, Target
  <2>2. NextId \in DOMAIN issued' /\ Remember(NextId) /\ UNCHANGED <<rows, observations, credentials>>
    BY <1>1, <1>9, <2>1, IssueInv DEF Redelegate, Remember
  <2>3. \A key \in DOMAIN store' : store'[key] \in DOMAIN issued'
    BY <1>7, <2>2
  <2>4. \A e \in events' : e \in events \/ (e.kind = "MATRIX_DISCARDED" => e.cause # "expiry")
    BY <1>9 DEF Redelegate
  <2>5. QED
    BY <1>1, <2>2, <2>3, <2>4, RecordFrame
<1>10. ASSUME NEW cause, Discard(cause), cause # "expiry"
       PROVE  RecordInv'
  <2>1. rows' = {} /\ UNCHANGED <<store, observations, credentials>>
    BY <1>10 DEF Discard, EndPhase
  <2>2. \A e \in events' : e \in events \/ e.cause # "expiry"
    BY <1>10 DEF Discard
  <2>3. QED
    BY <1>1, <2>1, <2>2, RecordFrame
<1>11. CASE PreconditionFails
  BY <1>10, <1>11 DEF PreconditionFails
<1>12. CASE ControlFails
  <2>1. /\ pc = "probe" /\ row \in DOMAIN Phase.targets /\ Target \in Identities
    BY <1>1, <1>12, PhaseShape DEF ControlFails, PlaceInv, Target
  <2>2. Latest(Target) = creds[Target] /\ clock < issued[creds[Target]].expires
    BY <1>1, <2>1, LatestIsHeld DEF MatrixInv, Checked, Target
  <2>3. Discard("control")
    BY <1>12, <2>2 DEF ControlFails
  <2>4. QED
    BY <1>10, <2>3
<1>13. CASE ProbeRow
  <2>1. /\ pc = "probe" /\ Target \in Identities /\ creds[Target] \in DOMAIN issued
    BY <1>1, <1>3, <1>13, PhaseShape DEF ProbeRow, PlaceInv, Target
  <2>2. PICK faults \in Faults :
          /\ \A c \in Controls : c \notin faults /\ Answer(Target, c) = "ALLOWED"
          /\ rows' = rows \union Cells("PROBE", Target, creds[Target], faults)
    BY <1>13 DEF ProbeRow
  <2>3. Live(creds[Target])
    <3>1. PICK c \in Controls : Answer(Target, c) = "ALLOWED"
      BY <2>2, FlowConstants
    <3>2. Live(Latest(Target))
      BY <3>1 DEF Answer
    <3>3. QED
      BY <1>1, <2>1, <3>2, LatestIsHeld
  <2>4. \A o \in Cells("PROBE", Target, creds[Target], faults) :
          o \in Observation /\ o.credential = o.session /\ o.alive
    BY <1>1, <1>2, <2>1, <2>3, CellsTyped
  <2>5. UNCHANGED <<store, observations, credentials, events>>
    BY <1>13 DEF ProbeRow, bundle
  <2>6. QED
    BY <1>1, <2>2, <2>4, <2>5, RecordFrame
<1>14. CASE WriteMatrix
  BY <1>4, <1>14 DEF WriteMatrix, EndPhase
<1>15. CASE MutatePhase
  <2>1. rows' = {} /\ UNCHANGED <<store, observations, credentials>>
    BY <1>15 DEF MutatePhase, EndPhase
  <2>2. \A e \in events' : e \in events \/ e.kind # "MATRIX_DISCARDED"
    BY <1>15 DEF MutatePhase
  <2>3. QED
    BY <1>1, <2>1, <2>2, RecordFrame
<1>16. CASE WaitPhase
  BY <1>4, <1>16 DEF WaitPhase, EndPhase, bundle
<1>17. CASE ProbePinned
  <2>1. /\ Phase.target \in Identities /\ pc # "materialize" /\ Source \in DOMAIN store
        /\ store[Source] \in DOMAIN issued
    BY <1>1, <1>17, PhaseShape DEF ProbePinned, PlaceInv, RecordInv
  <2>2. PICK faults \in Faults : rows' = rows \union Cells("DEFERRED_EXECUTION", Phase.target, store[Source], faults)
    BY <1>17 DEF ProbePinned
  <2>3. \A o \in Cells("DEFERRED_EXECUTION", Phase.target, store[Source], faults) :
          o \in Observation /\ o.phase = "DEFERRED_EXECUTION"
    BY <1>1, <1>2, <2>1, CellsTyped
  <2>4. UNCHANGED <<store, observations, credentials, events>>
    BY <1>17 DEF ProbePinned, bundle
  <2>5. QED
    BY <1>1, <2>2, <2>3, <2>4, RecordFrame
<1>18. ASSUME NEW cells, NEW event, WriteDeferred(cells, event), event.kind # "MATRIX_DISCARDED",
              pc # "materialize", Phase.target \in Identities,
              \A o \in cells : \/ o \in rows
                               \/ o \in Observation /\ o.credential = o.session /\ o.phase # "PROBE"
       PROVE  RecordInv'
  <2>1. /\ rows' = {} /\ observations' = observations \union cells /\ store' = store
        /\ events' = events \union {event} /\ credentials' = credentials \union {creds[Phase.target]}
    BY <1>18 DEF WriteDeferred, EndPhase
  <2>2. credentials' \subseteq DOMAIN issued'
    BY <1>1, <1>3, <1>18, <2>1
  <2>3. QED
    BY <1>1, <1>18, <2>1, <2>2, RecordFrame
<1>19. CASE MintRefused
  <2>1. Phase.target \in Identities /\ pc # "materialize"
    BY <1>1, <1>19, PhaseShape DEF MintRefused, PlaceInv
  <2>2. QED
    BY <1>18, <1>19, <2>1 DEF MintRefused
<1>20. CASE FreshLeg
  <2>1. Phase.target \in Identities /\ pc # "materialize" /\ creds[Phase.target] \in DOMAIN issued
    BY <1>1, <1>3, <1>20, PhaseShape DEF FreshLeg, PlaceInv
  <2>2. PICK faults \in Faults :
          WriteDeferred(rows \union Cells("PAIRED_FRESH_CREDENTIAL", Phase.target, creds[Phase.target], faults),
            [kind |-> "PAIRED_FRESH_CREDENTIAL_MINTED", at |-> at, identity |-> Phase.target])
    BY <1>20 DEF FreshLeg
  <2>3. \A o \in Cells("PAIRED_FRESH_CREDENTIAL", Phase.target, creds[Phase.target], faults) :
          o \in Observation /\ o.credential = o.session /\ o.phase # "PROBE"
    BY <1>1, <1>2, <2>1, CellsTyped
  <2>4. QED
    BY <1>18, <2>1, <2>2, <2>3
<1>21. CASE UNCHANGED vars
  BY <1>4, <1>21 DEF vars, run, bundle
<1>22. QED
  BY <1>4, <1>5, <1>6, <1>8, <1>9, <1>11, <1>12, <1>13, <1>14, <1>15, <1>16, <1>17, <1>19, <1>20, <1>21 DEF Next

\* The inductive invariant of credentials and rows holds of every behaviour.
THEOREM Invariance == Spec => []IInv
<1>1. IInv /\ [Next]_vars => IInv'
  BY ProviderStep, PlaceStep, CredsStep, MatrixStep, RecordStep DEF IInv
<1>2. QED
  BY InitInv, <1>1, PTL DEF Spec

-----------------------------------------------------------------------------
\* What the invariant says of every reachable state.

\* The run and the provider keep their types, for any compiled plan: every
\* credential the run holds, pins or writes is a session that was issued.
THEOREM TypeCorrect == Spec => []TypeOK
<1>1. IInv => TypeOK
  BY DEF IInv, PlaceInv, CredsInv, RecordInv, TypeOK, Points
<1>2. QED
  BY Invariance, <1>1, PTL

\* A row of a probe matrix or of a fresh leg names the session that answered it
\* (matrix.py, deferred.py), however often identities are redelegated or paired.
THEOREM RowsAttributed == Spec => []RowsAreAttributed
<1>1. IInv => RowsAreAttributed
  BY DEF IInv, RecordInv, RowsAreAttributed, Of
<1>2. QED
  BY Invariance, <1>1, PTL

\* A written row of a probe matrix was answered by a live session: its control
\* capability was allowed (control.py:49-95), which a dead session never is.
THEOREM MatricesLive == Spec => []MatricesAreAlive
<1>1. IInv => MatricesAreAlive
  BY DEF IInv, RecordInv, MatricesAreAlive, Of
<1>2. QED
  BY Invariance, <1>1, PTL

\* No matrix is discarded because a credential ran out, for any lifetime and any
\* estimate of its duration above zero (delegation.py:119-127, matrix.py:42-51).
THEOREM NoExpiryLoss == Spec => []NoMatrixLostToExpiry
<1>1. IInv => NoMatrixLostToExpiry
  BY DEF IInv, RecordInv
<1>2. QED
  BY Invariance, <1>1, PTL

-----------------------------------------------------------------------------
\* The two legs of a deferral.

Deferred(o) == o.phase = "DEFERRED_EXECUTION"
Paired(o) == o.phase = "PAIRED_FRESH_CREDENTIAL"
Deferring == pc \in {"pinned", "mint", "fresh"}

\* What was allowed was allowed by a session alive at the time.
AllowedInv ==
  \A o \in rows \union observations :
    o.outcome = "ALLOWED" => o.alive /\ o.time < issued[o.session].expires

\* A phase's rows are its own, and are written once.
PhaseInv ==
  /\ \A o \in rows : o.at = at
  /\ \A o \in observations : o.at < at
  /\ pc \in {"materialize", "phase", "ensure", "pinned"} => rows = {}
  /\ pc \in {"probe", "write"} => \A o \in rows : o.phase = "PROBE"

\* The pinned leg has said what the policy in force says, and the fresh session
\* carries that policy.
LegsInv ==
  /\ Deferring => Phase.target \in caching
  /\ pc \in {"mint", "fresh"} =>
       /\ Capabilities # {} => rows # {}
       /\ \A d \in rows : /\ Deferred(d) /\ d.identity = Phase.target
                          /\ d.current = Evaluate(policy[d.identity], d.identity, d.capability)
  /\ pc = "fresh" => /\ Live(creds[Phase.target])
                     /\ issued[creds[Phase.target]].snapshot = policy[Phase.target]

\* A fresh leg belongs to a deferral, and was told what the deferral's rows note
\* of the policy in force.
PairsInv ==
  \A f \in observations : Paired(f) =>
    /\ \E d \in observations : Deferred(d) /\ d.identity = f.identity /\ d.at = f.at
    /\ \A d \in observations :
         Deferred(d) /\ d.identity = f.identity /\ d.at = f.at /\ d.capability = f.capability =>
           f.outcome \in {"ERROR_TRANSIENT", d.current}

DInv == AllowedInv /\ PhaseInv /\ LegsInv /\ PairsInv

-----------------------------------------------------------------------------

\* What each cell of a row says.
LEMMA CellsSay ==
  ASSUME ProviderTypeOK, CredsInv, pc # "materialize", NEW i \in Identities, NEW label, NEW faults, NEW phase
  PROVE  /\ \A o \in Cells(phase, i, label, faults) :
              /\ o.phase = phase /\ o.at = at /\ o.identity = i /\ o.time = clock
              /\ o.capability \in Capabilities /\ o.session = creds[i]
              /\ o.outcome \in {"ERROR_TRANSIENT", Answer(i, o.capability)}
              /\ o.current = Evaluate(policy[i], i, o.capability)
              /\ o.outcome = "ALLOWED" => o.alive /\ clock < issued[o.session].expires
         /\ Capabilities # {} => Cells(phase, i, label, faults) # {}
<1>1. Latest(i) = creds[i]
  BY LatestIsHeld
<1>2. \A c : Answer(i, c) = "ALLOWED" => Live(creds[i])
  BY <1>1 DEF Answer
<1>3. \A out, current : \A alive \in BOOLEAN, c \in Capabilities :
        LET o == [phase |-> phase, at |-> at, identity |-> i, capability |-> c, credential |-> label,
                  time |-> clock, outcome |-> out, session |-> creds[i], alive |-> alive, current |-> current]
        IN  /\ o.phase = phase /\ o.at = at /\ o.identity = i /\ o.time = clock /\ o.capability = c
            /\ o.session = creds[i] /\ o.outcome = out /\ o.current = current /\ o.alive = alive
  OBVIOUS
<1>4. ASSUME NEW c \in Capabilities, NEW fault
      PROVE  LET o == Cell(phase, i, label, c, fault)
             IN  /\ o.phase = phase /\ o.at = at /\ o.identity = i /\ o.time = clock /\ o.capability = c
                 /\ o.session = creds[i] /\ o.outcome = (IF fault THEN "ERROR_TRANSIENT" ELSE Answer(i, c))
                 /\ o.current = Evaluate(policy[i], i, c) /\ o.alive = Live(creds[i])
  <2> DEFINE out == IF fault THEN "ERROR_TRANSIENT" ELSE Answer(i, c)
             alive == Live(creds[i])
             current == Evaluate(policy[i], i, c)
  <2>1. alive \in BOOLEAN
    BY DEF Live
  <2>2. Cell(phase, i, label, c, fault) =
          [phase |-> phase, at |-> at, identity |-> i, capability |-> c, credential |-> label,
           time |-> clock, outcome |-> out, session |-> creds[i], alive |-> alive, current |-> current]
    BY <1>1, Zenon DEF Cell
  <2>3. out = (IF fault THEN "ERROR_TRANSIENT" ELSE Answer(i, c)) /\ alive = Live(creds[i])
        /\ current = Evaluate(policy[i], i, c)
    OBVIOUS
  <2> HIDE DEF out, alive, current
  <2>4. LET o == [phase |-> phase, at |-> at, identity |-> i, capability |-> c, credential |-> label,
                  time |-> clock, outcome |-> out, session |-> creds[i], alive |-> alive, current |-> current]
        IN  /\ o.phase = phase /\ o.at = at /\ o.identity = i /\ o.time = clock /\ o.capability = c
            /\ o.session = creds[i] /\ o.outcome = out /\ o.current = current /\ o.alive = alive
    BY <1>3, <2>1, Zenon
  <2>5. QED
    BY <2>2, <2>3, <2>4, Zenon
<1>5. ASSUME NEW o \in Cells(phase, i, label, faults)
      PROVE  /\ o.phase = phase /\ o.at = at /\ o.identity = i /\ o.time = clock
             /\ o.capability \in Capabilities /\ o.session = creds[i]
             /\ o.outcome \in {"ERROR_TRANSIENT", Answer(i, o.capability)}
             /\ o.current = Evaluate(policy[i], i, o.capability) /\ (o.alive <=> Live(creds[i]))
  <2>1. PICK c \in Capabilities : o = Cell(phase, i, label, c, c \in faults)
    BY DEF Cells
  <2>2. QED
    BY <1>4, <2>1
<1>6. \A o \in Cells(phase, i, label, faults) :
        o.outcome = "ALLOWED" => o.alive /\ clock < issued[o.session].expires
  BY <1>2, <1>5 DEF Live
<1>7. QED
  BY <1>5, <1>6 DEF Cells

\* Every row of the phase and every observation was there before the step, or is
\* a cell of this phase.
LEMMA NewRows ==
  ASSUME IInv, DInv, [Next]_vars, NEW o \in rows' \union observations'
  PROVE  \/ o \in rows \union observations
         \/ /\ pc # "materialize"
            /\ \E i \in Identities, phase \in {"PROBE", "DEFERRED_EXECUTION", "PAIRED_FRESH_CREDENTIAL"} :
                 \E label, faults : o \in Cells(phase, i, label, faults)
<1>1. PlaceInv
  BY DEF IInv
<1>2. CASE ProbeRow
  <2>1. pc # "materialize" /\ Target \in Identities
    BY <1>1, <1>2, PhaseShape DEF ProbeRow, PlaceInv, Target
  <2>2. observations' = observations
    BY <1>2 DEF ProbeRow, bundle
  <2>3. PICK faults \in Faults : rows' = rows \union Cells("PROBE", Target, creds[Target], faults)
    BY <1>2 DEF ProbeRow
  <2>4. QED
    BY <2>1, <2>2, <2>3
<1>3. CASE ProbePinned
  <2>1. pc # "materialize" /\ Phase.target \in Identities
    BY <1>1, <1>3, PhaseShape DEF ProbePinned, PlaceInv
  <2>2. observations' = observations
    BY <1>3 DEF ProbePinned, bundle
  <2>3. PICK faults \in Faults : rows' = rows \union Cells("DEFERRED_EXECUTION", Phase.target, store[Source], faults)
    BY <1>3 DEF ProbePinned
  <2>4. QED
    BY <2>1, <2>2, <2>3
<1>4. CASE FreshLeg
  <2>1. pc # "materialize" /\ Phase.target \in Identities
    BY <1>1, <1>4, PhaseShape DEF FreshLeg, PlaceInv
  <2>2. PICK faults \in Faults :
          WriteDeferred(rows \union Cells("PAIRED_FRESH_CREDENTIAL", Phase.target, creds[Phase.target], faults),
            [kind |-> "PAIRED_FRESH_CREDENTIAL_MINTED", at |-> at, identity |-> Phase.target])
    BY <1>4 DEF FreshLeg
  <2>3. /\ observations' = observations \union rows
                             \union Cells("PAIRED_FRESH_CREDENTIAL", Phase.target, creds[Phase.target], faults)
        /\ rows' = {}
    BY <2>2 DEF WriteDeferred, EndPhase
  <2>4. QED
    BY <2>1, <2>3
<1>5. ASSUME \/ Materialize \/ StartMatrix \/ KeepCredential \/ Redelegate \/ RedelegationRefused
             \/ PreconditionFails \/ ControlFails \/ WriteMatrix
      PROVE  o \in rows \union observations
  BY <1>5 DEF Materialize, StartMatrix, KeepCredential, Redelegate, RedelegationRefused, PreconditionFails,
              ControlFails, WriteMatrix, Discard, EndPhase, Remember, bundle
<1>6. ASSUME MutatePhase \/ WaitPhase \/ ResolveFails \/ PinnedLeg \/ Mint \/ MintRefused \/ Complete \/ UNCHANGED vars
      PROVE  o \in rows \union observations
  BY <1>6 DEF MutatePhase, WaitPhase, ResolveFails, PinnedLeg, Mint, MintRefused, Complete, WriteDeferred,
              EndPhase, bundle, vars, run
<1>7. QED
  BY <1>2, <1>3, <1>4, <1>5, <1>6 DEF Next

\* Every step keeps what the legs of a deferral were allowed.
LEMMA AllowedStep == IInv /\ DInv /\ [Next]_vars => AllowedInv'
<1> SUFFICES ASSUME IInv, DInv, [Next]_vars, NEW o \in rows' \union observations', o.outcome = "ALLOWED"
             PROVE  o.alive /\ o.time < issued'[o.session].expires
  BY DEF AllowedInv
<1>1. ProviderTypeOK /\ CredsInv /\ RecordInv /\ AllowedInv /\ \A c \in DOMAIN issued : issued'[c] = issued[c]
  BY ProviderStep DEF IInv, DInv
<1>2. CASE o \in rows \union observations
  <2>1. o.session \in DOMAIN issued
    BY <1>1, <1>2 DEF RecordInv, Observation
  <2>2. QED
    BY <1>1, <1>2, <2>1 DEF AllowedInv
<1>3. ASSUME pc # "materialize", NEW i \in Identities, NEW phase, NEW label, NEW faults,
             o \in Cells(phase, i, label, faults)
      PROVE  o.alive /\ o.time < issued'[o.session].expires
  <2>1. o.session = creds[i] /\ o.time = clock /\ o.alive /\ clock < issued[creds[i]].expires
    BY <1>1, <1>3, CellsSay
  <2>2. creds[i] \in DOMAIN issued
    BY <1>1, <1>3 DEF CredsInv
  <2>3. QED
    BY <1>1, <2>1, <2>2
<1>4. QED
  BY <1>2, <1>3, NewRows

\* Every step keeps a deferral within its phase.
LEMMA PhaseStep == IInv /\ DInv /\ [Next]_vars => PhaseInv'
<1> SUFFICES ASSUME IInv, DInv, [Next]_vars PROVE PhaseInv'
  OBVIOUS
<1>1. PlaceInv /\ PhaseInv /\ ProviderTypeOK /\ CredsInv
  BY DEF IInv, DInv
<1>2. at \in Nat
  BY <1>1, PhaseShape DEF PlaceInv
<1>3. ASSUME NEW cells, observations' = observations \union cells, EndPhase, \A o \in cells : o.at = at
      PROVE  PhaseInv'
  <2>1. at' = at + 1 /\ rows' = {} /\ pc' = "phase"
    BY <1>3 DEF EndPhase
  <2>2. \A o \in observations : o.at \in Nat /\ o.at < at
    BY <1>1 DEF IInv, RecordInv, Observation, PhaseInv
  <2>3. \A n \in Nat : n < at => n < at + 1
    BY <1>2
  <2>4. at < at + 1
    BY <1>2
  <2>5. QED
    BY <1>3, <2>1, <2>2, <2>3, <2>4 DEF PhaseInv
<1>4. ASSUME observations' = observations, EndPhase
      PROVE  PhaseInv'
  <2> DEFINE none == {}
  <2>1. observations' = observations \union none /\ \A o \in none : o.at = at
    BY <1>4
  <2> HIDE DEF none
  <2>2. QED
    BY <1>3, <1>4, <2>1
<1>5. ASSUME PreconditionFails \/ ControlFails \/ MutatePhase \/ WaitPhase
      PROVE  PhaseInv'
  BY <1>4, <1>5 DEF PreconditionFails, ControlFails, MutatePhase, WaitPhase, Discard, bundle
<1>6. CASE WriteMatrix
  BY <1>1, <1>3, <1>6 DEF WriteMatrix, PhaseInv
<1>7. CASE MintRefused
  BY <1>1, <1>3, <1>7 DEF MintRefused, WriteDeferred, PhaseInv
<1>8. CASE FreshLeg
  <2>1. pc # "materialize" /\ Phase.target \in Identities
    BY <1>1, <1>8, PhaseShape DEF FreshLeg, PlaceInv
  <2>2. PICK faults \in Faults :
          WriteDeferred(rows \union Cells("PAIRED_FRESH_CREDENTIAL", Phase.target, creds[Phase.target], faults),
            [kind |-> "PAIRED_FRESH_CREDENTIAL_MINTED", at |-> at, identity |-> Phase.target])
    BY <1>8 DEF FreshLeg
  <2> DEFINE cells == rows \union Cells("PAIRED_FRESH_CREDENTIAL", Phase.target, creds[Phase.target], faults)
  <2>3. \A o \in cells : o.at = at
    BY <1>1, <2>1, CellsSay DEF PhaseInv
  <2>4. observations' = observations \union cells /\ EndPhase
    BY <2>2 DEF WriteDeferred
  <2> HIDE DEF cells
  <2>5. QED
    BY <1>3, <2>3, <2>4
<1>9. CASE ProbeRow
  <2>1. /\ pc = "probe" /\ Target \in Identities
        /\ at' = at /\ observations' = observations /\ pc' \in {"probe", "write"}
    BY <1>1, <1>9, PhaseShape DEF ProbeRow, PlaceInv, Target, bundle
  <2>2. PICK faults \in Faults : rows' = rows \union Cells("PROBE", Target, creds[Target], faults)
    BY <1>9 DEF ProbeRow
  <2>3. \A o \in Cells("PROBE", Target, creds[Target], faults) : o.at = at /\ o.phase = "PROBE"
    BY <1>1, <2>1, CellsSay
  <2>4. QED
    BY <1>1, <2>1, <2>2, <2>3 DEF PhaseInv
<1>10. CASE ProbePinned
  <2>1. /\ pc = "pinned" /\ Phase.target \in Identities
        /\ at' = at /\ observations' = observations /\ pc' = "mint"
    BY <1>1, <1>10, PhaseShape DEF ProbePinned, PlaceInv, bundle
  <2>2. PICK faults \in Faults : rows' = rows \union Cells("DEFERRED_EXECUTION", Phase.target, store[Source], faults)
    BY <1>10 DEF ProbePinned
  <2>3. \A o \in Cells("DEFERRED_EXECUTION", Phase.target, store[Source], faults) : o.at = at
    BY <1>1, <2>1, CellsSay
  <2>4. QED
    BY <1>1, <2>1, <2>2, <2>3 DEF PhaseInv
<1>11. ASSUME Materialize \/ StartMatrix \/ KeepCredential \/ Redelegate
       PROVE  at' = at /\ observations' = observations /\ rows' = rows /\ rows = {}
              /\ pc' \in {"phase", "ensure", "probe"}
  BY <1>1, <1>11 DEF Materialize, StartMatrix, KeepCredential, Redelegate, Remember, PhaseInv, bundle
<1>12. ASSUME RedelegationRefused \/ ResolveFails \/ PinnedLeg \/ Mint \/ Complete
       PROVE  /\ at' = at /\ observations' = observations /\ rows' = rows
              /\ pc' \in {"aborted", "pinned", "fresh", "completed"}
              /\ pc' = "pinned" => rows = {}
  BY <1>1, <1>12 DEF RedelegationRefused, ResolveFails, PinnedLeg, Mint, Complete, PhaseInv, bundle
<1>13. ASSUME \/ Materialize \/ StartMatrix \/ KeepCredential \/ Redelegate
              \/ RedelegationRefused \/ ResolveFails \/ PinnedLeg \/ Mint \/ Complete
       PROVE  PhaseInv'
  BY <1>1, <1>11, <1>12, <1>13 DEF PhaseInv
<1>14. CASE UNCHANGED vars
  BY <1>1, <1>14 DEF vars, run, bundle, PhaseInv
<1>15. QED
  BY <1>5, <1>6, <1>7, <1>8, <1>9, <1>10, <1>13, <1>14 DEF Next


\* Every step keeps the legs of a deferral those of its pin.
LEMMA LegsStep == IInv /\ DInv /\ [Next]_vars => LegsInv'
<1> SUFFICES ASSUME IInv, DInv, [Next]_vars PROVE LegsInv'
  OBVIOUS
<1>1. PlaceInv /\ PhaseInv /\ LegsInv /\ ProviderTypeOK /\ CredsInv
  BY DEF IInv, DInv
<1>2. ASSUME pc' \notin {"pinned", "mint", "fresh"}
      PROVE  LegsInv'
  BY <1>2 DEF LegsInv, Deferring
<1>3. CASE PinnedLeg
  <2>1. Phase' = Phase /\ pc' = "pinned" /\ caching' = caching \union {Phase.target}
    BY <1>3 DEF PinnedLeg, EnableCaching, Phase
  <2>2. QED
    BY <2>1 DEF LegsInv, Deferring
<1>4. CASE ProbePinned
  <2>1. /\ pc = "pinned" /\ pc' = "mint" /\ Phase' = Phase /\ caching' = caching /\ policy' = policy
        /\ rows = {} /\ Phase.target \in caching
    BY <1>1, <1>4 DEF ProbePinned, Phase, provider, PhaseInv, LegsInv, Deferring
  <2>2. Phase.target \in Identities
    BY <1>1, <2>1, PhaseShape DEF PlaceInv
  <2>3. PICK faults \in Faults : rows' = rows \union Cells("DEFERRED_EXECUTION", Phase.target, store[Source], faults)
    BY <1>4 DEF ProbePinned
  <2> DEFINE cells == Cells("DEFERRED_EXECUTION", Phase.target, store[Source], faults)
  <2>4. /\ \A d \in cells : /\ Deferred(d) /\ d.identity = Phase.target
                            /\ d.current = Evaluate(policy[d.identity], d.identity, d.capability)
        /\ Capabilities # {} => cells # {}
    BY <1>1, <2>1, <2>2, CellsSay DEF Deferred
  <2>5. rows' = cells
    BY <2>1, <2>3
  <2> HIDE DEF cells
  <2>6. \A d \in rows' : /\ Deferred(d) /\ d.identity = Phase.target
                         /\ d.current = Evaluate(policy'[d.identity], d.identity, d.capability)
    BY <2>1, <2>4, <2>5
  <2>7. Capabilities # {} => rows' # {}
    BY <2>4, <2>5
  <2>8. QED
    BY <2>1, <2>6, <2>7 DEF LegsInv, Deferring, Evaluate, Deferred
<1>5. CASE Mint
  <2> DEFINE i == Phase.target
  <2>1. /\ pc = "mint" /\ pc' = "fresh" /\ Phase' = Phase /\ rows' = rows
        /\ Issue(i) /\ creds' = [creds EXCEPT ![i] = NextId]
    BY <1>5 DEF Mint, Phase
  <2>2. /\ caching' = caching /\ policy' = policy /\ revoked' = revoked /\ clock' = clock
        /\ issued' = Append(issued, Session(i))
    BY <2>1 DEF Issue
  <2>3. i \in Identities /\ creds \in [Identities -> DOMAIN issued]
    BY <1>1, <2>1, PhaseShape DEF PlaceInv, CredsInv
  <2>4. creds'[i] = NextId
    BY <2>1, <2>3
  <2>5. issued'[NextId].expires = clock + Lifetime /\ \A c \in DOMAIN issued : c < NextId /\ c \in Nat
    BY <1>1, <2>1, <2>3, IssueInv
  <2>6. issued'[NextId] = Session(i)
    BY <1>1, <2>2 DEF NextId, ProviderTypeOK
  <2>7. issued'[NextId].snapshot = policy[i]
    BY <2>6 DEF Session
  <2>8. NextId \notin revoked
    BY <1>1, <2>5 DEF ProviderTypeOK
  <2>9. clock < clock + Lifetime
    BY <1>1, ProviderConstants DEF ProviderTypeOK
  <2>10. creds'[i] \notin revoked' /\ clock' < issued'[creds'[i]].expires
    BY <2>2, <2>4, <2>5, <2>8, <2>9
  <2>11. /\ i \in caching
         /\ Capabilities # {} => rows # {}
         /\ \A d \in rows : /\ Deferred(d) /\ d.identity = i
                            /\ d.current = Evaluate(policy[d.identity], d.identity, d.capability)
    BY <1>1, <2>1 DEF LegsInv, Deferring
  <2>12. Deferring' => Phase'.target \in caching'
    BY <2>1, <2>2, <2>11
  <2>13. Live(creds[Phase.target])'
    BY <2>1, <2>10 DEF Live
  <2>14. QED
    BY <2>1, <2>2, <2>4, <2>7, <2>11, <2>12, <2>13 DEF LegsInv, Deferred, Evaluate
<1>6. ASSUME \/ Materialize \/ StartMatrix \/ KeepCredential \/ Redelegate \/ RedelegationRefused
             \/ PreconditionFails \/ ProbeRow \/ ControlFails \/ WriteMatrix
      PROVE  pc' \notin {"pinned", "mint", "fresh"}
  BY <1>6 DEF Materialize, StartMatrix, KeepCredential, Redelegate, RedelegationRefused, PreconditionFails,
              ProbeRow, ControlFails, WriteMatrix, Discard, EndPhase, Remember
<1>7. ASSUME MutatePhase \/ WaitPhase \/ ResolveFails \/ MintRefused \/ FreshLeg \/ Complete
      PROVE  pc' \notin {"pinned", "mint", "fresh"}
  BY <1>7 DEF MutatePhase, WaitPhase, ResolveFails, MintRefused, FreshLeg, Complete, WriteDeferred, EndPhase
<1>8. CASE UNCHANGED vars
  <2>1. Phase' = Phase /\ pc' = pc /\ rows' = rows /\ creds' = creds /\ UNCHANGED provider
    BY <1>8 DEF vars, run, Phase
  <2>2. QED
    BY <1>1, <2>1 DEF LegsInv, Deferring, Live, Deferred, Evaluate, provider
<1>9. QED
  BY <1>2, <1>3, <1>4, <1>5, <1>6, <1>7, <1>8 DEF Next

\* A new session is judged by the policy in force, whatever is still settling.
LEMMA FreshAnswer ==
  ASSUME IInv, LegsInv, pc = "fresh", NEW c
  PROVE  /\ Phase.target \in Identities
         /\ Answer(Phase.target, c) = Evaluate(policy[Phase.target], Phase.target, c)
<1>1. ProviderTypeOK /\ CredsInv /\ Phase.target \in Identities
  BY PhaseShape DEF IInv, PlaceInv
<1>2. Latest(Phase.target) = creds[Phase.target]
  BY <1>1, LatestIsHeld
<1>3. /\ Phase.target \in caching /\ Live(creds[Phase.target])
      /\ issued[creds[Phase.target]].snapshot = policy[Phase.target]
  BY DEF LegsInv, Deferring
<1>4. Consulted(Phase.target) = policy[Phase.target]
  BY <1>2, <1>3 DEF Consulted
<1>5. QED
  BY <1>1, <1>2, <1>3, <1>4, Zenon DEF Answer

\* Every step keeps the recorded pairs complete.
LEMMA PairsStep == IInv /\ DInv /\ [Next]_vars => PairsInv'
<1> SUFFICES ASSUME IInv, DInv, [Next]_vars PROVE PairsInv'
  OBVIOUS
<1>1. PlaceInv /\ PhaseInv /\ LegsInv /\ PairsInv /\ ProviderTypeOK /\ CredsInv
  BY DEF IInv, DInv
<1>2. at \in Nat /\ \A o \in observations : o.at # at
  <2>1. at \in Nat
    BY <1>1, PhaseShape DEF PlaceInv
  <2>2. \A o \in observations : o.at \in Nat /\ o.at < at
    BY <1>1 DEF IInv, RecordInv, Observation, PhaseInv
  <2>3. QED
    BY <2>1, <2>2
<1>3. ASSUME observations' = observations
      PROVE  PairsInv'
  BY <1>1, <1>3 DEF PairsInv, Paired, Deferred
<1>4. ASSUME NEW cells, observations' = observations \union cells,
             \A o \in cells : o.at = at,
             \A f \in cells : Paired(f) =>
               /\ \E d \in cells : Deferred(d) /\ d.identity = f.identity
               /\ \A d \in cells : Deferred(d) /\ d.identity = f.identity /\ d.capability = f.capability =>
                    f.outcome \in {"ERROR_TRANSIENT", d.current}
      PROVE  PairsInv'
  <2> SUFFICES ASSUME NEW f \in observations', Paired(f)
               PROVE  /\ \E d \in observations' : Deferred(d) /\ d.identity = f.identity /\ d.at = f.at
                      /\ \A d \in observations' :
                           Deferred(d) /\ d.identity = f.identity /\ d.at = f.at /\ d.capability = f.capability =>
                             f.outcome \in {"ERROR_TRANSIENT", d.current}
    BY DEF PairsInv, Paired, Deferred
  <2>1. CASE f \in observations
    BY <1>1, <1>2, <1>4, <2>1 DEF PairsInv
  <2>2. CASE f \in cells
    BY <1>2, <1>4, <2>2
  <2>3. QED
    BY <1>4, <2>1, <2>2
<1>5. CASE WriteMatrix
  <2>1. observations' = observations \union rows /\ \A o \in rows : o.at = at /\ ~Paired(o)
    BY <1>1, <1>5 DEF WriteMatrix, PhaseInv, Paired
  <2>2. QED
    BY <1>4, <2>1
<1>6. CASE MintRefused
  <2>1. observations' = observations \union rows /\ \A o \in rows : o.at = at /\ ~Paired(o)
    BY <1>1, <1>6 DEF MintRefused, WriteDeferred, PhaseInv, LegsInv, Deferred, Paired
  <2>2. QED
    BY <1>4, <2>1
<1>7. CASE FreshLeg
  <2> DEFINE i == Phase.target
  <2>1. pc = "fresh" /\ i \in Identities
    BY <1>1, <1>7, PhaseShape DEF FreshLeg, PlaceInv
  <2>2. PICK faults \in Faults :
          WriteDeferred(rows \union Cells("PAIRED_FRESH_CREDENTIAL", i, creds[i], faults),
            [kind |-> "PAIRED_FRESH_CREDENTIAL_MINTED", at |-> at, identity |-> i])
    BY <1>7 DEF FreshLeg
  <2> DEFINE fresh == Cells("PAIRED_FRESH_CREDENTIAL", i, creds[i], faults)
  <2>3. \A f \in fresh : /\ f.phase = "PAIRED_FRESH_CREDENTIAL" /\ f.at = at /\ f.identity = i
                         /\ f.capability \in Capabilities
                         /\ f.outcome \in {"ERROR_TRANSIENT", Answer(i, f.capability)}
    BY <1>1, <2>1, CellsSay
  <2>4. \A c : Answer(i, c) = Evaluate(policy[i], i, c)
    BY <1>1, <2>1, FreshAnswer
  <2>5. observations' = observations \union (rows \union fresh)
    BY <2>2 DEF WriteDeferred
  <2> HIDE DEF fresh
  <2>6. /\ Capabilities # {} => rows # {}
        /\ \A d \in rows : /\ Deferred(d) /\ ~Paired(d) /\ d.at = at /\ d.identity = i
                           /\ d.current = Evaluate(policy[i], i, d.capability)
    BY <1>1, <2>1 DEF LegsInv, PhaseInv, Deferred, Paired
  <2>7. \A f \in fresh : Paired(f) /\ ~Deferred(f) /\ f.outcome \in {"ERROR_TRANSIENT", Evaluate(policy[i], i, f.capability)}
    BY <2>3, <2>4 DEF Paired, Deferred
  <2> DEFINE cells == rows \union fresh
  <2>8. \A o \in cells : o.at = at
    BY <2>3, <2>6
  <2>9. ASSUME NEW f \in cells, Paired(f)
        PROVE  /\ \E d \in cells : Deferred(d) /\ d.identity = f.identity
               /\ \A d \in cells : Deferred(d) /\ d.identity = f.identity /\ d.capability = f.capability =>
                    f.outcome \in {"ERROR_TRANSIENT", d.current}
    <3>1. f \in fresh
      BY <2>6, <2>9
    <3>2. rows # {}
      BY <2>3, <2>6, <3>1
    <3>3. \E d \in cells : Deferred(d) /\ d.identity = f.identity
      BY <2>3, <2>6, <3>1, <3>2
    <3>4. ASSUME NEW d \in cells, Deferred(d), d.capability = f.capability
          PROVE  f.outcome \in {"ERROR_TRANSIENT", d.current}
      BY <2>6, <2>7, <3>1, <3>4
    <3>5. QED
      BY <3>3, <3>4
  <2>10. observations' = observations \union cells
    BY <2>5
  <2> HIDE DEF cells
  <2>11. QED
    BY <1>4, <2>8, <2>9, <2>10
<1>8. ASSUME \/ Materialize \/ StartMatrix \/ KeepCredential \/ Redelegate \/ RedelegationRefused
             \/ PreconditionFails \/ ProbeRow \/ ControlFails \/ MutatePhase
      PROVE  observations' = observations
  BY <1>8 DEF Materialize, StartMatrix, KeepCredential, Redelegate, RedelegationRefused, PreconditionFails,
              ProbeRow, ControlFails, MutatePhase, Discard, Remember, bundle
<1>9. ASSUME WaitPhase \/ ResolveFails \/ PinnedLeg \/ ProbePinned \/ Mint \/ Complete \/ UNCHANGED vars
      PROVE  observations' = observations
  BY <1>9 DEF WaitPhase, ResolveFails, PinnedLeg, ProbePinned, Mint, Complete, bundle, vars, run
<1>10. QED
  BY <1>3, <1>5, <1>6, <1>7, <1>8, <1>9 DEF Next

\* The invariant of deferrals holds along with the one it rests on.
THEOREM DeferralInvariance == Spec => [](IInv /\ DInv)
<1>1. Init => DInv
  BY DEF Init, DInv, AllowedInv, PhaseInv, LegsInv, Deferring, PairsInv
<1>2. IInv /\ DInv /\ [Next]_vars => DInv'
  BY AllowedStep, PhaseStep, LegsStep, PairsStep DEF DInv
<1>3. QED
  BY Invariance, <1>1, <1>2, PTL DEF Spec


-----------------------------------------------------------------------------
\* The verdict.

\* classify_stale_authority (analysis/stale.py) reports staleness for a live
\* allowance alone, and never without a fresh leg to the contrary.
LEMMA VerdictTable ==
  ASSUME NEW outcome \in Outcomes, NEW expired \in BOOLEAN, NEW fresh
  PROVE  /\ Classify(outcome, expired, FALSE, fresh) = "STALE_AUTHORITY_LIVE_CREDENTIAL"
              <=> outcome = "ALLOWED" /\ ~expired /\ fresh # "ALLOWED"
BY DEF Classify, Outcomes, Denials

\* Of a deferred row answered from the session it names, analysis/stale.py never
\* says that an expired credential was honoured; and if its identity was deferred
\* once, lost no session scope and met no transient error in either leg, the row is
\* called stale exactly when a live session was allowed what the policy in force
\* denies or no new session could be issued for. So for any plans, lifetimes and
\* propagation delays.
THEOREM StaleVerdictTrue == Spec => []StaleVerdictIsTrue
<1>1. IInv /\ DInv => StaleVerdictIsTrue
  <2> SUFFICES ASSUME IInv, DInv, NEW o \in Measured, o.session = o.credential
               PROVE  /\ Verdict(o) # "EXPIRED_CREDENTIAL_HONORED"
                      /\ /\ Deferrals(o.identity) = {o.at}
                         /\ \A f \in OwnFresh(o) \union {o} : f.outcome # "ERROR_TRANSIENT"
                         /\ ~ScopeRemoved(o.identity)
                         => (Verdict(o) = "STALE_AUTHORITY_LIVE_CREDENTIAL"
                               <=> o.alive /\ o.outcome = "ALLOWED" /\ (o.current # "ALLOWED" \/ OwnFresh(o) = {}))
    BY DEF StaleVerdictIsTrue
  <2> DEFINE expired == o.time >= issued[o.credential].expires
  <2>1. /\ o \in observations /\ Deferred(o) /\ o.outcome \in Outcomes
        /\ o.time \in Nat /\ o.credential \in DOMAIN issued
    BY DEF Measured, Of, Deferred, IInv, RecordInv, Observation
  <2>2. issued[o.credential].expires \in Nat
    <3>1. issued \in Seq(SessionRecord)
      BY DEF IInv, ProviderTypeOK, SessionRecord
    <3>2. issued[o.credential] \in SessionRecord
      BY <2>1, <3>1
    <3>3. QED
      BY <3>2 DEF SessionRecord
  <2>3. o.outcome = "ALLOWED" => o.alive /\ ~expired
    BY <2>1, <2>2 DEF DInv, AllowedInv
  <2>4. expired \in BOOLEAN /\ Verdict(o) = Classify(o.outcome, expired, ScopeRemoved(o.identity), FreshOutcome(o))
    BY DEF Verdict
  <2> HIDE DEF expired
  <2>5. Verdict(o) # "EXPIRED_CREDENTIAL_HONORED"
    <3>1. CASE o.outcome = "ALLOWED"
      BY <2>3, <2>4, <3>1 DEF Classify, Denials
    <3>2. CASE o.outcome \in Denials
      BY <2>4, <3>2 DEF Classify, Denials
    <3>3. CASE o.outcome = "ERROR_TRANSIENT"
      BY <2>4, <3>3 DEF Classify, Denials
    <3>4. QED
      BY <2>1, <3>1, <3>2, <3>3 DEF Outcomes, Denials
  <2>6. ASSUME Deferrals(o.identity) = {o.at}, ~ScopeRemoved(o.identity),
               \A f \in OwnFresh(o) \union {o} : f.outcome # "ERROR_TRANSIENT"
        PROVE  Verdict(o) = "STALE_AUTHORITY_LIVE_CREDENTIAL"
                 <=> o.alive /\ o.outcome = "ALLOWED" /\ (o.current # "ALLOWED" \/ OwnFresh(o) = {})
    <3>1. ASSUME NEW f \in FreshLegs(o)
          PROVE  f \in observations /\ f.at = o.at /\ f.outcome \in {"ERROR_TRANSIENT", o.current}
      <4>1. f \in observations /\ Paired(f) /\ f.identity = o.identity /\ f.capability = o.capability
        BY <3>1 DEF FreshLegs, Of, Paired
      <4>2. PICK d \in observations : Deferred(d) /\ d.identity = f.identity /\ d.at = f.at
        BY <4>1 DEF DInv, PairsInv
      <4>3. d.at \in Deferrals(o.identity)
        BY <4>1, <4>2 DEF Deferrals, Of, Deferred
      <4>4. f.at = o.at
        BY <2>6, <4>2, <4>3
      <4>5. QED
        BY <2>1, <4>1, <4>4 DEF DInv, PairsInv
    <3>2. OwnFresh(o) = FreshLegs(o)
      BY <3>1 DEF OwnFresh
    <3>3. FreshLegs(o) # {} => FreshOutcome(o) = o.current
      <4> SUFFICES ASSUME FreshLegs(o) # {} PROVE FreshOutcome(o) = o.current
        OBVIOUS
      <4> DEFINE last == CHOOSE f \in FreshLegs(o) : \A g \in FreshLegs(o) : g.at <= f.at
      <4>1. o.at \in Nat
        BY <2>1 DEF IInv, RecordInv, Observation
      <4>2. \E f \in FreshLegs(o) : \A g \in FreshLegs(o) : g.at <= f.at
        BY <3>1, <4>1
      <4>3. last \in FreshLegs(o)
        BY <4>2
      <4>4. FreshOutcome(o) = last.outcome
        BY DEF FreshOutcome
      <4> HIDE DEF last
      <4>5. QED
        BY <2>6, <3>1, <3>2, <4>3, <4>4
    <3>4. FreshLegs(o) = {} => FreshOutcome(o) = "NONE"
      BY DEF FreshOutcome
    <3>5. ScopeRemoved(o.identity) = FALSE
      BY <2>6 DEF ScopeRemoved
    <3>6. Verdict(o) = "STALE_AUTHORITY_LIVE_CREDENTIAL"
            <=> o.outcome = "ALLOWED" /\ ~expired /\ FreshOutcome(o) # "ALLOWED"
      BY <2>1, <2>4, <3>5, VerdictTable
    <3>7. QED
      BY <2>3, <3>2, <3>3, <3>4, <3>6
  <2>7. QED
    BY <2>5, <2>6
<1>2. QED
  BY DeferralInvariance, <1>1, PTL

=============================================================================
