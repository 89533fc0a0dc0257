------------------------ MODULE RevocationWindowProofs ------------------------
(***************************************************************************)
(* Proofs about PollWindow and about the windows RevocationWindow measures *)
(* from it, for any chain, lifetime, propagation delays, oscillations,     *)
(* pacing and compiled plans.  The argument follows the samples, written   *)
(* or not: they are taken at strictly increasing times, and each says what *)
(* the policy in view at its time says.                                    *)
(***************************************************************************)
EXTENDS RevocationWindow, FakeProviderProofs, FiniteSetTheorems, WellFoundedInduction

Points == {"materialize", "phase", "pace", "probe", "judge", "completed", "aborted"}
Polling == pc \in {"pace", "probe", "judge"}
Outcomes == {"ALLOWED", "DENIED_EXPLICIT", "DENIED_IMPLICIT", "ERROR_TRANSIENT"}

SampleRecord ==
  [at : Nat, identity : Identities, capability : Capabilities, time : Nat,
   outcome : Outcomes, alive : BOOLEAN]

MutationRecord == [at : Nat, target : Identities, sent : Nat]

\* Every sample of the run, in the order they were taken.
Taken == observations \o polls

\* Where the run stands in its plan, and how long the poll in progress has gone on.
PlaceInv ==
  /\ plan \in Plans /\ pacing \in Pacings /\ at \in 1 .. Len(plan) + 1 /\ pc \in Points
  /\ caching = {}
  /\ IF pc = "materialize" THEN issued = <<>> ELSE \A i \in Identities : Latest(i) \in Owned(i)
  /\ Polling => Running("POLL")
  /\ Polling => elapsed \in 0 .. Phase.max_duration + Phase.interval - 1
  /\ pc \in {"pace", "probe"} => elapsed < Phase.max_duration

SamplesInv ==
  /\ observations \in Seq(SampleRecord) /\ polls \in Seq(SampleRecord)
  /\ pc \in {"materialize", "phase", "completed"} => polls = <<>>
  /\ pc = "materialize" => observations = <<>>
  /\ \A k \in DOMAIN observations : observations[k].at < at
  /\ \A k \in DOMAIN polls : polls[k].at = at

\* Two samples are never of the same instant.
TimesInv ==
  /\ \A k \in DOMAIN Taken : Taken[k].time <= clock
  /\ pc = "probe" \/ pacing = "real" => \A k \in DOMAIN Taken : Taken[k].time < clock
  /\ \A j, k \in DOMAIN Taken : j < k => Taken[j].time < Taken[k].time /\ Taken[j].at <= Taken[k].at

MutationsInv ==
  /\ mutations \in Seq(MutationRecord)
  /\ \A k \in DOMAIN mutations :
       /\ mutations[k].at < at /\ mutations[k].at \in Mutations
       /\ plan[mutations[k].at].target = mutations[k].target
       /\ mutations[k].sent <= clock

\* An identity that no mutation has named keeps the authority it was granted.
Initial(i) == [allow |-> Granted[i], deny |-> {}]
Untouched(i) == \A k \in DOMAIN mutations : mutations[k].target # i
Told(o, p) == o.outcome \in {"ERROR_TRANSIENT", Evaluate(p, o.identity, o.capability)}

UntouchedInv ==
  \A i \in Identities : Untouched(i) =>
    /\ policy[i] = Initial(i) /\ pending[i].pre = Initial(i) /\ Owned(i) \intersect revoked = {}
    /\ \A k \in DOMAIN Taken : Taken[k].identity = i =>
         IF Taken[k].alive THEN Told(Taken[k], Initial(i))
         ELSE Taken[k].outcome \in {"ERROR_TRANSIENT", "DENIED_IMPLICIT"}
                /\ issued[Latest(i)].expires <= Taken[k].time

\* The samples of an identity mutated once: those taken before say what it was
\* granted, and those taken after say so until the transition has settled.
Seen(i, m, o) == IF pending[i].settle <= o.time THEN Mutated(Initial(i), m) ELSE Initial(i)

SoleInv ==
  \A n \in Mutations : Mutations = {n} /\ mutations # <<>> =>
    LET i == plan[n].target
        m == plan[n].mutation
    IN  /\ Len(mutations) = 1
        /\ policy[i] = Mutated(Initial(i), m) /\ pending[i].pre = Initial(i)
        /\ \A k \in DOMAIN Taken : Taken[k].identity = i /\ Taken[k].alive =>
             IF Taken[k].at <= n
             THEN Told(Taken[k], Initial(i)) /\ Taken[k].time <= mutations[1].sent
             ELSE pending[i].shown = {} => Told(Taken[k], Seen(i, m, Taken[k]))

\* The streak is the longest row of matching polls that ends with the last one,
\* and none has been long enough before.
Matching(k) == k \in DOMAIN polls /\ MatchesTarget(polls[k].outcome)
FullStreak(n) == \A k \in n - Phase.stability_count + 1 .. n : Matching(k)

StreakInv ==
  Polling =>
    /\ streak \in 0 .. Phase.stability_count /\ streak <= Len(polls)
    /\ \A k \in Len(polls) - streak + 1 .. Len(polls) : Matching(k)
    /\ ~Matching(Len(polls) - streak)
    /\ pc \in {"pace", "probe"} => streak < Phase.stability_count
    /\ pc = "judge" => polls # <<>>
    /\ \A n \in DOMAIN polls : FullStreak(n) => pc = "judge" /\ n = Len(polls)

StopsInv ==
  /\ \A s \in stops : s.at < at /\ s.at \in DOMAIN plan
  /\ StableStopsAreStreaks

IInv ==
  /\ ProviderTypeOK /\ PlaceInv /\ SamplesInv /\ TimesInv /\ MutationsInv
  /\ UntouchedInv /\ SoleInv /\ StreakInv /\ StopsInv


-----------------------------------------------------------------------------
\* The plan and the samples.

\* What a phase of a plan looks like.
LEMMA PhaseShape ==
  ASSUME plan \in Plans, at \in 1 .. Len(plan) + 1
  PROVE  /\ Len(plan) \in Nat /\ DOMAIN plan = 1 .. Len(plan) /\ at \in Nat
         /\ Running("POLL") => /\ Phase.target \in Identities /\ Phase.capability \in Capabilities
                               /\ Phase.interval \in Nat \ {0} /\ Phase.max_duration \in Nat \ {0}
                               /\ Phase.stability_count \in Nat \ {0}
                               /\ Phase.stop_on \in {"STABLE_DENIAL", "STABLE_ALLOW", "TIMEOUT"}
         /\ Running("MUTATE") => /\ Phase.target \in Identities
                                 /\ Phase.mutation.denies \in SUBSET Capabilities
                                 /\ Phase.mutation.grants \in SUBSET Capabilities
         /\ Running("WAIT") => Phase.ticks \in Nat
         /\ at \in DOMAIN plan => at + 1 \in 1 .. Len(plan) + 1
         /\ at < at + 1
<1>1. plan \in Seq(PlanPhase)
  BY PlansAreCompiled
<1>2. Len(plan) \in Nat /\ DOMAIN plan = 1 .. Len(plan)
  BY <1>1
<1>3. at \in DOMAIN plan => Phase \in PlanPhase
  BY <1>1 DEF Phase
<1>4. Running("POLL") => /\ Phase.target \in Identities /\ Phase.capability \in Capabilities
                         /\ Phase.interval \in Nat \ {0} /\ Phase.max_duration \in Nat \ {0}
                         /\ Phase.stability_count \in Nat \ {0}
                         /\ Phase.stop_on \in {"STABLE_DENIAL", "STABLE_ALLOW", "TIMEOUT"}
  BY <1>3 DEF Running, PlanPhase
<1>5. Running("MUTATE") => /\ Phase.target \in Identities
                           /\ Phase.mutation \in [kind : STRING, denies : SUBSET Capabilities, grants : SUBSET Capabilities]
  BY <1>3 DEF Running, PlanPhase
<1>6. Running("WAIT") => Phase.ticks \in Nat
  BY <1>3 DEF Running, PlanPhase
<1>7. at \in Nat /\ at < at + 1 /\ (at \in DOMAIN plan => at + 1 \in 1 .. Len(plan) + 1)
  BY <1>2
<1>8. QED
  BY <1>2, <1>4, <1>5, <1>6, <1>7

\* A sample records the place, the cell and the moment it was taken.
LEMMA SampleTyped ==
  ASSUME clock \in Nat, at \in Nat, Phase.target \in Identities, Phase.capability \in Capabilities,
         NEW outcome \in Outcomes
  PROVE  LET o == Sample(outcome)
         IN  /\ o \in SampleRecord /\ o.at = at /\ o.identity = Phase.target /\ o.capability = Phase.capability
             /\ o.time = clock /\ o.outcome = outcome /\ (o.alive <=> Live(Latest(Phase.target)))
<1>1. \A alive \in BOOLEAN :
        LET o == [at |-> at, identity |-> Phase.target, capability |-> Phase.capability, time |-> clock,
                  outcome |-> outcome, alive |-> alive]
        IN  /\ o \in SampleRecord /\ o.at = at /\ o.identity = Phase.target /\ o.capability = Phase.capability
            /\ o.time = clock /\ o.outcome = outcome /\ o.alive = alive
  BY DEF SampleRecord
<1> DEFINE alive == Live(Latest(Phase.target))
<1>2. alive \in BOOLEAN
  BY DEF Live
<1>3. Sample(outcome) = [at |-> at, identity |-> Phase.target, capability |-> Phase.capability, time |-> clock,
                         outcome |-> outcome, alive |-> alive]
  BY Zenon DEF Sample
<1>4. alive = Live(Latest(Phase.target))
  OBVIOUS
<1> HIDE DEF alive
<1>5. QED
  BY <1>1, <1>2, <1>3, <1>4, Zenon

\* The samples taken are those of ended polls, then those of the running one.
LEMMA TakenShape ==
  ASSUME observations \in Seq(SampleRecord), polls \in Seq(SampleRecord)
  PROVE  /\ Taken \in Seq(SampleRecord) /\ DOMAIN Taken = 1 .. Len(Taken)
         /\ Len(Taken) = Len(observations) + Len(polls) /\ Len(Taken) \in Nat
         /\ Len(observations) \in Nat /\ Len(polls) \in Nat
         /\ DOMAIN observations = 1 .. Len(observations) /\ DOMAIN polls = 1 .. Len(polls)
         /\ DOMAIN observations \subseteq DOMAIN Taken
         /\ \A k \in DOMAIN observations : Taken[k] = observations[k]
         /\ \A k \in DOMAIN Taken : k \notin DOMAIN observations =>
              k - Len(observations) \in DOMAIN polls /\ Taken[k] = polls[k - Len(observations)]
BY DEF Taken

\* One more sample comes after the others.
LEMMA Appended ==
  ASSUME observations \in Seq(SampleRecord), polls \in Seq(SampleRecord), NEW o \in SampleRecord,
         observations' = observations, polls' = Append(polls, o)
  PROVE  /\ Taken' \in Seq(SampleRecord) /\ DOMAIN Taken' = DOMAIN Taken \union {Len(Taken) + 1}
         /\ Taken'[Len(Taken) + 1] = o
         /\ \A k \in DOMAIN Taken : Taken'[k] = Taken[k] /\ k < Len(Taken) + 1 /\ k \in Nat
         /\ Len(Taken) + 1 \notin DOMAIN Taken
<1>1. Taken \in Seq(SampleRecord) /\ DOMAIN Taken = 1 .. Len(Taken) /\ Len(Taken) \in Nat
  BY TakenShape
<1>2. Taken' = Append(Taken, o)
  BY DEF Taken
<1>3. QED
  BY <1>1, <1>2

\* A poll phase that is over has written what it took.
LEMMA Written ==
  ASSUME observations \in Seq(SampleRecord), polls \in Seq(SampleRecord),
         observations' = observations \o polls, polls' = <<>>
  PROVE  Taken' = Taken /\ observations' \in Seq(SampleRecord) /\ observations' = Taken
BY DEF Taken


-----------------------------------------------------------------------------
\* The steps of the run.

\* A poll takes one sample, of the moment it begins.
LEMMA PollTakes ==
  ASSUME IInv, Poll
  PROVE  /\ \E o \in SampleRecord :
              /\ o.at = at /\ o.identity = Phase.target /\ o.capability = Phase.capability /\ o.time = clock
              /\ o.outcome \in {"ERROR_TRANSIENT", Answer(Phase.target, Phase.capability)}
              /\ o.alive <=> Live(Latest(Phase.target))
              /\ polls' = Append(polls, o)
              /\ streak' = IF MatchesTarget(o.outcome) THEN streak + 1 ELSE 0
         /\ pc = "probe" /\ pc' = "judge" /\ elapsed' = elapsed + Phase.interval /\ Running("POLL")
         /\ UNCHANGED <<policy, issued, revoked, pending, caching, blocked>>
         /\ UNCHANGED <<pacing, plan, at, observations, mutations, stops>>
         /\ clock' \in Nat /\ clock <= clock' /\ (pacing = "real" => clock < clock')
<1>1. /\ clock \in Nat /\ at \in Nat /\ Running("POLL") /\ pc = "probe"
      /\ Phase.target \in Identities /\ Phase.capability \in Capabilities
  BY PhaseShape DEF IInv, ProviderTypeOK, PlaceInv, Polling, Poll
<1>2. PICK outcome \in Answers : Probed(outcome) /\ streak' = IF MatchesTarget(outcome) THEN streak + 1 ELSE 0
  BY DEF Poll
<1>3. outcome \in {"ERROR_TRANSIENT", Answer(Phase.target, Phase.capability)}
  BY DEF Answers
<1>4. \A p, i, c : Evaluate(p, i, c) \in Outcomes
  BY DEF Evaluate, Outcomes
<1>5. Answer(Phase.target, Phase.capability) \in Outcomes
  BY <1>4 DEF Answer, Outcomes
<1>6. outcome \in Outcomes
  BY <1>3, <1>5 DEF Outcomes
<1>7. PICK o : o = Sample(outcome)
  OBVIOUS
<1>8. /\ o \in SampleRecord /\ o.at = at /\ o.identity = Phase.target /\ o.capability = Phase.capability
      /\ o.time = clock /\ o.outcome = outcome /\ (o.alive <=> Live(Latest(Phase.target)))
  BY <1>1, <1>6, <1>7, SampleTyped
<1>9. polls' = Append(polls, o) /\ elapsed' = elapsed + Phase.interval /\ pc' = "judge"
  BY <1>2, <1>7 DEF Probed
<1>10. PICK rtt : rtt \in (IF pacing = "real" THEN RoundTrips ELSE {0}) /\ AdvanceClock(rtt)
  BY DEF Poll
<1>11. rtt \in Nat /\ (pacing = "real" => rtt # 0)
  BY <1>10, PollConstants
<1>12. clock' = clock + rtt
  BY <1>10 DEF AdvanceClock
<1>13. clock' \in Nat /\ clock <= clock' /\ (pacing = "real" => clock < clock')
  BY <1>1, <1>11, <1>12
<1>14. /\ UNCHANGED <<policy, issued, revoked, pending, caching, blocked>>
       /\ UNCHANGED <<pacing, plan, at, observations, mutations, stops>>
  BY <1>10 DEF Poll, AdvanceClock
<1>15. QED
  BY <1>1, <1>2, <1>3, <1>8, <1>9, <1>13, <1>14

\* Every other step but a mutation leaves the samples and the policies as they are.
LEMMA Quiet ==
  ASSUME IInv, [Next]_vars, ~Materialize, ~Poll, ~MutatePhase
  PROVE  /\ Taken' = Taken /\ observations' \in Seq(SampleRecord) /\ polls' \in Seq(SampleRecord)
         /\ UNCHANGED <<plan, pacing, policy, issued, revoked, pending, caching, blocked, mutations>>
         /\ clock' \in Nat /\ clock <= clock'
         /\ pc' = "probe" /\ pacing # "real" => clock < clock' \/ (pc = "probe" /\ clock' = clock)
<1>1. /\ clock \in Nat /\ PlaceInv /\ Deadline \in Nat
      /\ observations \in Seq(SampleRecord) /\ polls \in Seq(SampleRecord)
  BY PollConstants DEF IInv, ProviderTypeOK, SamplesInv
<1>2. ASSUME NEW d \in Nat, AdvanceClock(d)
      PROVE  /\ clock' \in Nat /\ clock <= clock' /\ (d # 0 => clock < clock')
             /\ UNCHANGED <<policy, issued, revoked, pending, caching, blocked>>
  BY <1>1, <1>2 DEF AdvanceClock
<1>3. ASSUME UNCHANGED provider
      PROVE  /\ clock' \in Nat /\ clock <= clock' /\ clock' = clock
             /\ UNCHANGED <<policy, issued, revoked, pending, caching, blocked>>
  BY <1>1, <1>3 DEF provider
<1>4. ASSUME observations' = observations, polls' = polls
      PROVE  Taken' = Taken /\ observations' \in Seq(SampleRecord) /\ polls' \in Seq(SampleRecord)
  BY <1>1, <1>4 DEF Taken
<1>5. CASE StartPoll
  <2>1. polls = <<>>
    BY <1>5 DEF IInv, SamplesInv, StartPoll
  <2>2. observations' = observations /\ polls' = polls /\ pc' = "pace" /\ UNCHANGED <<provider, plan, pacing, mutations>>
    BY <1>5, <2>1 DEF StartPoll
  <2>3. QED
    BY <1>3, <1>4, <2>2
<1>6. CASE PaceVirtual
  <2>1. Phase.interval \in Nat \ {0}
    BY <1>1, <1>6, PhaseShape DEF PlaceInv, Polling, PaceVirtual
  <2>2. observations' = observations /\ polls' = polls /\ AdvanceClock(Phase.interval) /\ UNCHANGED <<plan, pacing, mutations>>
    BY <1>6 DEF PaceVirtual
  <2>3. QED
    BY <1>2, <1>4, <2>1, <2>2
<1>7. CASE PaceReal
  <2>1. observations' = observations /\ polls' = polls /\ pacing = "real" /\ UNCHANGED <<provider, plan, pacing, mutations>>
    BY <1>7 DEF PaceReal
  <2>2. QED
    BY <1>3, <1>4, <2>1
<1>8. CASE PaceToDeadline
  <2>1. /\ observations' = observations /\ polls' = polls /\ clock < Deadline /\ AdvanceClock(Deadline - clock)
        /\ pc' = "aborted" /\ UNCHANGED <<plan, pacing, mutations>>
    BY <1>8 DEF PaceToDeadline
  <2>2. Deadline - clock \in Nat
    BY <1>1, <2>1
  <2>3. QED
    BY <1>2, <1>4, <2>1, <2>2
<1>9. CASE StopStable \/ StopTimeout
  <2>1. /\ observations' = observations \o polls /\ polls' = <<>> /\ pc' = "phase"
        /\ UNCHANGED <<provider, plan, pacing, mutations>>
    BY <1>9 DEF StopStable, StopTimeout, StopPoll, EndPhase
  <2>2. polls' \in Seq(SampleRecord)
    BY <2>1
  <2>3. QED
    BY <1>1, <1>3, <2>1, <2>2, Written
<1>10. CASE WaitPhase
  <2>1. Phase.ticks \in Nat
    BY <1>1, <1>10, PhaseShape DEF PlaceInv, WaitPhase
  <2>2. observations' = observations /\ polls' = polls /\ pc' # "probe" /\ UNCHANGED <<plan, pacing, mutations>>
    BY <1>10 DEF WaitPhase, EndPhase
  <2>3. CASE pacing = "virtual" \/ clock + Phase.ticks < Deadline
    <3>1. AdvanceClock(Phase.ticks)
      BY <1>10, <2>3 DEF WaitPhase
    <3>2. QED
      BY <1>2, <1>4, <2>1, <2>2, <3>1
  <2>4. CASE ~(pacing = "virtual" \/ clock + Phase.ticks < Deadline)
    <3>1. AdvanceClock(Deadline - clock) /\ clock < Deadline
      BY <1>10, <2>4 DEF WaitPhase, InTime
    <3>2. Deadline - clock \in Nat
      BY <1>1, <3>1
    <3>3. QED
      BY <1>2, <1>4, <2>2, <3>1, <3>2
  <2>5. QED
    BY <2>3, <2>4
<1>11. CASE DeadlineRaises \/ PollAgain \/ Complete
  <2>1. observations' = observations /\ polls' = polls /\ pc' # "probe" /\ UNCHANGED <<provider, plan, pacing, mutations>>
    BY <1>11 DEF DeadlineRaises, PollAgain, Complete
  <2>2. QED
    BY <1>3, <1>4, <2>1
<1>12. CASE UNCHANGED vars
  <2>1. observations' = observations /\ polls' = polls /\ pc' = pc /\ UNCHANGED <<provider, plan, pacing, mutations>>
    BY <1>12 DEF vars, run
  <2>2. QED
    BY <1>3, <1>4, <2>1
<1>13. QED
  BY <1>5, <1>6, <1>7, <1>8, <1>9, <1>10, <1>11, <1>12 DEF Next


\* A mutation is made at the end of its phase and changes what its target may do.
LEMMA Mutates ==
  ASSUME IInv, MutatePhase
  PROVE  /\ Running("MUTATE") /\ Phase.target \in Identities /\ at \in Mutations /\ Mutations' = Mutations
         /\ Mutate(Phase.target, Phase.mutation) /\ issued' = issued /\ clock' = clock /\ caching' = caching
         /\ mutations' = Append(mutations, [at |-> at, target |-> Phase.target, sent |-> clock])
         /\ at' = at + 1 /\ pc = "phase" /\ pc' = "phase" /\ Taken' = Taken
         /\ UNCHANGED <<pacing, plan, streak, elapsed, polls, observations, stops>>
         /\ ProviderTypeOK'
<1>1. Running("MUTATE") /\ pc = "phase"
  BY DEF MutatePhase
<1>2. /\ Phase.target \in Identities /\ Phase.mutation.denies \in SUBSET Capabilities
      /\ Phase.mutation.grants \in SUBSET Capabilities
  BY <1>1, PhaseShape DEF IInv, PlaceInv
<1>3. /\ Mutate(Phase.target, Phase.mutation)
      /\ mutations' = Append(mutations, [at |-> at, target |-> Phase.target, sent |-> clock])
      /\ at' = at + 1 /\ pc' = "phase"
      /\ UNCHANGED <<pacing, plan, streak, elapsed, polls, observations, stops>>
  BY DEF MutatePhase, EndPhase
<1>4. ProviderTypeOK' /\ issued' = issued /\ clock' = clock /\ caching' = caching
  BY <1>2, <1>3, MutateInv DEF IInv, Mutate
<1>5. at \in Mutations /\ Mutations' = Mutations
  BY <1>1, <1>3 DEF Mutations, Running, Phase
<1>6. Taken' = Taken
  BY <1>3 DEF Taken
<1>7. QED
  BY <1>1, <1>2, <1>3, <1>4, <1>5, <1>6

\* Every identity gets its session, and has but the one.
LEMMA Materializes ==
  ASSUME IInv, Materialize
  PROVE  /\ ProviderTypeOK' /\ Taken' = Taken /\ Taken = <<>> /\ pc = "materialize" /\ pc' = "phase" /\ revoked = {}
         /\ \A i \in Identities : (Latest(i) \in Owned(i))'
         /\ UNCHANGED <<clock, policy, revoked, pending, caching, blocked>>
         /\ UNCHANGED <<pacing, plan, at, streak, elapsed, polls, observations, mutations, stops>>
<1>1. ProviderTypeOK
  BY DEF IInv
<1>2. /\ pc = "materialize" /\ pc' = "phase" /\ issued' = [k \in DOMAIN Edges |-> Session(Edges[k])]
      /\ UNCHANGED <<clock, policy, revoked, pending, caching, blocked>>
      /\ UNCHANGED <<pacing, plan, at, streak, elapsed, polls, observations, mutations, stops>>
  BY DEF Materialize
<1>3. observations = <<>> /\ polls = <<>>
  BY <1>2 DEF IInv, SamplesInv
<1>4. Taken' = Taken /\ Taken = <<>>
  BY <1>2, <1>3 DEF Taken
<1>5. DOMAIN Edges = 1 .. Len(Edges) /\ Len(Edges) \in Nat /\ \A k \in DOMAIN Edges : Edges[k] \in Identities
  BY ProviderConstants
<1>6. \A k \in DOMAIN Edges : Session(Edges[k]) \in SessionRecord /\ Session(Edges[k]).owner = Edges[k]
  BY <1>1, <1>5, SessionTyped
<1>7. issued' \in Seq(SessionRecord) /\ DOMAIN issued' = DOMAIN Edges
  BY <1>2, <1>5, <1>6
<1>8. ASSUME NEW i \in Identities
      PROVE  Latest(i)' \in Owned(i)'
  <2>1. PICK k \in DOMAIN Edges : Edges[k] = i
    BY DEF Identities
  <2>2. Owned(i)' = {k}
    BY <1>2, <1>6, <1>7, <2>1, ProviderConstants DEF Owned
  <2>3. k \in Nat /\ k >= k
    BY <1>5, <2>1
  <2>4. QED
    BY <2>2, <2>3 DEF Latest, Max
<1>9. revoked = {}
  <2>1. DOMAIN issued = {}
    BY <1>2 DEF IInv, PlaceInv
  <2>2. QED
    BY <1>1, <2>1 DEF ProviderTypeOK
<1>10. ProviderTypeOK'
  BY <1>1, <1>2, <1>7, <1>9 DEF ProviderTypeOK, SessionRecord
<1>11. QED
  BY <1>2, <1>4, <1>8, <1>9, <1>10

\* Every step keeps the provider typed.
LEMMA ProviderStep == IInv /\ [Next]_vars => ProviderTypeOK'
<1> SUFFICES ASSUME IInv, [Next]_vars PROVE ProviderTypeOK'
  OBVIOUS
<1>1. CASE Materialize
  BY <1>1, Materializes
<1>2. CASE MutatePhase
  BY <1>2, Mutates
<1>3. CASE Poll
  BY <1>3, PollTakes DEF IInv, ProviderTypeOK
<1>4. CASE ~Materialize /\ ~Poll /\ ~MutatePhase
  BY <1>4, Quiet DEF IInv, ProviderTypeOK
<1>5. QED
  BY <1>1, <1>2, <1>3, <1>4

\* Every step keeps the place in the plan a place of it.
LEMMA PlaceStep == IInv /\ [Next]_vars => PlaceInv'
<1> SUFFICES ASSUME IInv, [Next]_vars PROVE PlaceInv'
  OBVIOUS
<1>1. PlaceInv
  BY DEF IInv
<1>2. ASSUME plan' = plan, pacing' = pacing, caching' = caching, pc' \in Points, at' \in 1 .. Len(plan) + 1,
             pc' # "materialize", ~Polling', \A i \in Identities : (Latest(i) \in Owned(i))'
      PROVE  PlaceInv'
  BY <1>1, <1>2 DEF PlaceInv, Polling
<1>3. ASSUME issued' = issued, pc # "materialize"
      PROVE  \A i \in Identities : (Latest(i) \in Owned(i))'
  BY <1>1, <1>3 DEF PlaceInv, Latest, Owned
<1>4. at \in DOMAIN plan => at + 1 \in 1 .. Len(plan) + 1
  BY <1>1, PhaseShape DEF PlaceInv
<1>5. CASE Materialize
  BY <1>1, <1>2, <1>5, Materializes DEF PlaceInv, Points, Polling
<1>6. CASE MutatePhase
  <2>1. at' \in 1 .. Len(plan) + 1
    BY <1>4, <1>6, Mutates DEF Running
  <2>2. QED
    BY <1>1, <1>2, <1>3, <1>6, <2>1, Mutates DEF PlaceInv, Points, Polling
<1>7. CASE Poll
  <2>1. /\ pc = "probe" /\ pc' = "judge" /\ elapsed' = elapsed + Phase.interval /\ Running("POLL")
        /\ UNCHANGED <<plan, at, pacing, caching, issued>>
    BY <1>7, PollTakes
  <2>2. /\ Phase.interval \in Nat \ {0} /\ Phase.max_duration \in Nat \ {0}
        /\ elapsed \in Nat /\ elapsed < Phase.max_duration
    BY <1>1, <2>1, PhaseShape DEF PlaceInv, Polling
  <2>3. elapsed' \in 0 .. Phase.max_duration + Phase.interval - 1
    BY <2>1, <2>2
  <2>4. Phase' = Phase /\ Running("POLL")'
    BY <2>1 DEF Phase, Running
  <2>5. QED
    BY <1>1, <1>3, <2>1, <2>3, <2>4 DEF PlaceInv, Points, Polling
<1>8. CASE StartPoll
  <2>1. /\ pc = "phase" /\ pc' = "pace" /\ elapsed' = 0 /\ Running("POLL")
        /\ UNCHANGED <<plan, at, pacing, caching, issued>>
    BY <1>8 DEF StartPoll, provider
  <2>2. Phase' = Phase /\ Running("POLL")'
    BY <2>1 DEF Phase, Running
  <2>3. Phase.interval \in Nat \ {0} /\ Phase.max_duration \in Nat \ {0}
    BY <1>1, <2>1, PhaseShape DEF PlaceInv
  <2>4. 0 < Phase.max_duration /\ 0 \in 0 .. Phase.max_duration + Phase.interval - 1
    BY <2>3
  <2>5. QED
    BY <1>1, <1>3, <2>1, <2>2, <2>4 DEF PlaceInv, Points, Polling
<1>9. CASE PaceVirtual \/ PaceReal
  <2>1. pc = "pace" /\ pc' = "probe" /\ elapsed' = elapsed /\ UNCHANGED <<plan, at, pacing, caching, issued>>
    BY <1>9 DEF PaceVirtual, PaceReal, AdvanceClock, provider
  <2>2. Phase' = Phase /\ Running("POLL")'
    BY <1>1, <2>1 DEF Phase, Running, PlaceInv, Polling
  <2>3. QED
    BY <1>1, <1>3, <2>1, <2>2 DEF PlaceInv, Points, Polling
<1>10. CASE PollAgain
  <2>1. /\ pc = "judge" /\ pc' = "pace" /\ ~TimedOut /\ elapsed' = elapsed
        /\ UNCHANGED <<plan, at, pacing, caching, issued>>
    BY <1>10 DEF PollAgain, provider
  <2>2. Phase' = Phase /\ Running("POLL")'
    BY <1>1, <2>1 DEF Phase, Running, PlaceInv, Polling
  <2>3. Phase.max_duration \in Nat /\ Phase.interval \in Nat /\ elapsed \in 0 .. Phase.max_duration + Phase.interval - 1
    BY <1>1, <2>1, PhaseShape DEF PlaceInv, Polling
  <2>4. elapsed < Phase.max_duration
    BY <2>1, <2>3 DEF TimedOut
  <2>5. QED
    BY <1>1, <1>3, <2>1, <2>2, <2>4 DEF PlaceInv, Points, Polling
<1>11. CASE StopStable \/ StopTimeout
  <2>1. pc = "judge" /\ pc' = "phase" /\ at' = at + 1 /\ UNCHANGED <<plan, pacing, caching, issued>>
    BY <1>11 DEF StopStable, StopTimeout, StopPoll, EndPhase, provider
  <2>2. at' \in 1 .. Len(plan) + 1
    BY <1>1, <1>4, <2>1 DEF PlaceInv, Polling, Running
  <2>3. QED
    BY <1>2, <1>3, <2>1, <2>2 DEF Points, Polling
<1>12. CASE WaitPhase
  <2>1. /\ pc = "phase" /\ pc' \in {"phase", "aborted"} /\ at' \in {at, at + 1} /\ Running("WAIT")
        /\ UNCHANGED <<plan, pacing, caching, issued>>
    BY <1>12 DEF WaitPhase, EndPhase, AdvanceClock
  <2>2. at' \in 1 .. Len(plan) + 1
    BY <1>1, <1>4, <2>1 DEF PlaceInv, Running
  <2>3. QED
    BY <1>2, <1>3, <2>1, <2>2 DEF Points, Polling
<1>13. CASE DeadlineRaises \/ PaceToDeadline \/ Complete
  <2>1. /\ pc # "materialize" /\ pc' \in {"completed", "aborted"}
        /\ UNCHANGED <<plan, at, pacing, caching, issued>>
    BY <1>13 DEF DeadlineRaises, PaceToDeadline, Complete, AdvanceClock, provider
  <2>2. QED
    BY <1>1, <1>2, <1>3, <2>1 DEF Points, Polling, PlaceInv
<1>14. CASE UNCHANGED vars
  <2>1. /\ UNCHANGED <<pc, plan, at, pacing, elapsed, caching, issued>>
    BY <1>14 DEF vars, run, provider
  <2>2. Phase' = Phase /\ (Running("POLL") => Running("POLL")')
    BY <2>1 DEF Phase, Running
  <2>3. QED
    BY <1>1, <1>3, <2>1, <2>2 DEF PlaceInv, Polling
<1>15. QED
  BY <1>5, <1>6, <1>7, <1>8, <1>9, <1>10, <1>11, <1>12, <1>13, <1>14 DEF Next


\* A run goes through its plan forwards only.
LEMMA AtGrows ==
  ASSUME IInv, [Next]_vars
  PROVE  at' \in Nat /\ at <= at' /\ at \in Nat
<1>1. at \in Nat
  BY PhaseShape DEF IInv, PlaceInv
<1>2. at' \in {at, at + 1}
  <2>1. ASSUME Materialize \/ DeadlineRaises \/ StartPoll \/ PaceVirtual \/ PaceReal \/ PaceToDeadline \/ Poll
        PROVE  at' \in {at, at + 1}
    BY <2>1 DEF Materialize, DeadlineRaises, StartPoll, PaceVirtual, PaceReal, PaceToDeadline, Poll
  <2>2. ASSUME StopStable \/ StopTimeout \/ PollAgain \/ MutatePhase \/ WaitPhase \/ Complete \/ UNCHANGED vars
        PROVE  at' \in {at, at + 1}
    BY <2>2 DEF StopStable, StopTimeout, StopPoll, PollAgain, MutatePhase, WaitPhase, Complete, EndPhase, vars, run
  <2>3. QED
    BY <2>1, <2>2 DEF Next
<1>3. QED
  BY <1>1, <1>2

\* Every step keeps the samples those of the plan so far.
LEMMA SamplesStep == IInv /\ [Next]_vars => SamplesInv'
<1> SUFFICES ASSUME IInv, [Next]_vars PROVE SamplesInv'
  OBVIOUS
<1>1. /\ SamplesInv /\ at \in Nat
  BY AtGrows DEF IInv
<1>2. \A k \in DOMAIN observations : observations[k].at \in Nat /\ observations[k].at < at + 1
  <2>1. \A k \in DOMAIN observations : observations[k] \in SampleRecord
    BY <1>1 DEF SamplesInv
  <2>2. \A n \in Nat : n < at => n < at + 1
    BY <1>1
  <2>3. QED
    BY <1>1, <2>1, <2>2 DEF SamplesInv, SampleRecord
<1>3. CASE Poll
  <2>1. PICK o \in SampleRecord : o.at = at /\ polls' = Append(polls, o)
    BY <1>3, PollTakes
  <2>2. pc' = "judge" /\ UNCHANGED <<observations, at>>
    BY <1>3, PollTakes
  <2>3. polls' \in Seq(SampleRecord) /\ \A k \in DOMAIN polls' : polls'[k].at = at
    BY <1>1, <2>1 DEF SamplesInv
  <2>4. QED
    BY <1>1, <2>2, <2>3 DEF SamplesInv
<1>4. CASE StopStable \/ StopTimeout
  <2>1. observations' = observations \o polls /\ polls' = <<>> /\ at' = at + 1 /\ pc' = "phase"
    BY <1>4 DEF StopStable, StopTimeout, StopPoll, EndPhase
  <2>2. /\ observations' = Taken /\ observations' \in Seq(SampleRecord) /\ polls' \in Seq(SampleRecord)
    BY <1>1, <2>1, Written DEF SamplesInv
  <2>3. at < at + 1
    BY <1>1
  <2>4. \A k \in DOMAIN Taken : Taken[k].at < at + 1
    BY <1>1, <1>2, <2>3, TakenShape DEF SamplesInv
  <2>5. QED
    BY <2>1, <2>2, <2>4 DEF SamplesInv
<1>5. ASSUME polls = <<>>, UNCHANGED <<observations, polls>>, at' \in {at, at + 1}, pc' # "materialize"
      PROVE  SamplesInv'
  BY <1>1, <1>2, <1>5 DEF SamplesInv
<1>6. CASE MutatePhase \/ WaitPhase \/ Materialize \/ Complete
  <2>1. /\ pc \in {"materialize", "phase"} /\ pc' # "materialize" /\ at' \in {at, at + 1}
        /\ UNCHANGED <<observations, polls>>
    BY <1>6 DEF MutatePhase, WaitPhase, Materialize, Complete, EndPhase
  <2>2. QED
    BY <1>1, <1>5, <2>1 DEF SamplesInv
<1>7. CASE StartPoll
  <2>1. pc = "phase" /\ pc' = "pace" /\ polls' = <<>> /\ UNCHANGED <<observations, at>>
    BY <1>7 DEF StartPoll
  <2>2. QED
    BY <1>1, <1>5, <2>1 DEF SamplesInv
<1>8. CASE PaceVirtual \/ PaceReal \/ PaceToDeadline \/ PollAgain \/ DeadlineRaises
  <2>1. pc' \in {"probe", "pace", "aborted"} /\ UNCHANGED <<observations, polls, at>>
    BY <1>8 DEF PaceVirtual, PaceReal, PaceToDeadline, PollAgain, DeadlineRaises
  <2>2. QED
    BY <1>1, <2>1 DEF SamplesInv
<1>9. CASE UNCHANGED vars
  BY <1>1, <1>9 DEF SamplesInv, vars, run
<1>10. QED
  BY <1>3, <1>4, <1>6, <1>7, <1>8, <1>9 DEF Next

\* Every sample taken is typed, and none is of a later phase.
LEMMA TakenTyped ==
  ASSUME IInv
  PROVE  /\ Taken \in Seq(SampleRecord) /\ clock \in Nat
         /\ \A k \in DOMAIN Taken : /\ Taken[k] \in SampleRecord /\ Taken[k].time \in Nat /\ Taken[k].at \in Nat
                                    /\ Taken[k].identity \in Identities /\ Taken[k].outcome \in Outcomes
                                    /\ Taken[k].at <= at
<1>1. SamplesInv /\ at \in Nat /\ clock \in Nat
  BY PhaseShape DEF IInv, PlaceInv, ProviderTypeOK
<1>2. Taken \in Seq(SampleRecord)
  BY <1>1, TakenShape DEF SamplesInv
<1>3. \A k \in DOMAIN Taken : /\ Taken[k].time \in Nat /\ Taken[k].at \in Nat
                              /\ Taken[k].identity \in Identities /\ Taken[k].outcome \in Outcomes
  <2>1. \A k \in DOMAIN Taken : Taken[k] \in SampleRecord
    BY <1>2
  <2>2. QED
    BY <2>1 DEF SampleRecord
<1>4. \A k \in DOMAIN Taken : Taken[k].at < at \/ Taken[k].at = at
  BY <1>1, TakenShape DEF SamplesInv
<1>5. \A k \in DOMAIN Taken : Taken[k] \in SampleRecord
  BY <1>2
<1>6. QED
  BY <1>1, <1>2, <1>3, <1>4, <1>5

\* Every step keeps the samples in the order of their times.
LEMMA TimesStep == IInv /\ [Next]_vars => TimesInv'
<1> SUFFICES ASSUME IInv, [Next]_vars PROVE TimesInv'
  OBVIOUS
<1>1. /\ TimesInv /\ SamplesInv /\ clock \in Nat /\ at \in Nat
      /\ \A k \in DOMAIN Taken : Taken[k].time \in Nat /\ Taken[k].at \in Nat /\ Taken[k].at <= at
  BY TakenTyped, AtGrows DEF IInv
<1>2. CASE Materialize
  BY <1>1, <1>2, Materializes DEF TimesInv
<1>3. CASE MutatePhase
  BY <1>1, <1>3, Mutates DEF TimesInv
<1>4. CASE Poll
  <2>1. PICK o \in SampleRecord : o.at = at /\ o.time = clock /\ polls' = Append(polls, o)
    BY <1>4, PollTakes
  <2>2. /\ pc = "probe" /\ pc' = "judge" /\ UNCHANGED <<observations, pacing>>
        /\ clock' \in Nat /\ clock <= clock' /\ (pacing = "real" => clock < clock')
    BY <1>4, PollTakes
  <2> DEFINE last == Len(Taken) + 1
  <2>3. /\ DOMAIN Taken' = DOMAIN Taken \union {last} /\ Taken'[last] = o
        /\ \A k \in DOMAIN Taken : Taken'[k] = Taken[k] /\ k < last /\ k \in Nat
        /\ last \notin DOMAIN Taken
    BY <1>1, <2>1, <2>2, Appended DEF SamplesInv
  <2>4. \A k \in DOMAIN Taken : Taken[k].time < clock
    BY <1>1, <2>2 DEF TimesInv
  <2>5. last \in Nat
    BY <1>1, TakenShape DEF SamplesInv
  <2> HIDE DEF last
  <2>6. \A k \in DOMAIN Taken' : Taken'[k].time <= clock'
    BY <1>1, <2>1, <2>2, <2>3, <2>4
  <2>7. pacing = "real" => \A k \in DOMAIN Taken' : Taken'[k].time < clock'
    BY <1>1, <2>1, <2>2, <2>3, <2>4
  <2>8. ASSUME NEW j \in DOMAIN Taken', NEW k \in DOMAIN Taken', j < k
        PROVE  Taken'[j].time < Taken'[k].time /\ Taken'[j].at <= Taken'[k].at
    <3>1. j \in DOMAIN Taken
      BY <2>3, <2>5, <2>8
    <3>2. CASE k \in DOMAIN Taken
      BY <1>1, <2>3, <2>8, <3>1, <3>2 DEF TimesInv
    <3>3. CASE k = last
      BY <1>1, <2>1, <2>3, <2>4, <3>1, <3>3
    <3>4. QED
      BY <2>3, <3>2, <3>3
  <2>9. QED
    BY <2>2, <2>6, <2>7, <2>8 DEF TimesInv
<1>5. CASE ~Materialize /\ ~Poll /\ ~MutatePhase
  <2>1. /\ Taken' = Taken /\ pacing' = pacing /\ clock' \in Nat /\ clock <= clock'
        /\ pc' = "probe" /\ pacing # "real" => clock < clock' \/ (pc = "probe" /\ clock' = clock)
    BY <1>5, Quiet
  <2>2. \A k \in DOMAIN Taken : Taken[k].time <= clock'
    BY <1>1, <2>1 DEF TimesInv
  <2>3. pc' = "probe" \/ pacing = "real" => \A k \in DOMAIN Taken : Taken[k].time < clock'
    BY <1>1, <2>1 DEF TimesInv
  <2>4. QED
    BY <1>1, <2>1, <2>2, <2>3 DEF TimesInv
<1>6. QED
  BY <1>2, <1>3, <1>4, <1>5

\* Every step keeps the mutations recorded in their order and at their times.
LEMMA MutationsStep == IInv /\ [Next]_vars => MutationsInv'
<1> SUFFICES ASSUME IInv, [Next]_vars PROVE MutationsInv'
  OBVIOUS
<1>0. mutations \in Seq(MutationRecord) /\ \A k \in DOMAIN mutations : mutations[k] \in MutationRecord
  BY DEF IInv, MutationsInv
<1>1. /\ MutationsInv /\ clock \in Nat /\ at \in Nat /\ at' \in Nat /\ at <= at'
      /\ \A k \in DOMAIN mutations : mutations[k].at \in Nat /\ mutations[k].sent \in Nat
  BY <1>0, AtGrows DEF IInv, ProviderTypeOK, MutationRecord
<1>2. ASSUME UNCHANGED <<plan, mutations>>, clock' \in Nat, clock <= clock'
      PROVE  MutationsInv'
  <2>1. Mutations' = Mutations
    BY <1>2 DEF Mutations
  <2>2. \A k \in DOMAIN mutations : mutations[k].at < at' /\ mutations[k].sent <= clock'
    BY <1>1, <1>2 DEF MutationsInv
  <2>3. QED
    BY <1>1, <1>2, <2>1, <2>2 DEF MutationsInv
<1>3. CASE MutatePhase
  <2> DEFINE m == [at |-> at, target |-> Phase.target, sent |-> clock]
  <2>1. /\ at \in Mutations /\ Mutations' = Mutations /\ plan' = plan /\ clock' = clock /\ at' = at + 1
        /\ mutations' = Append(mutations, m) /\ Phase.target \in Identities
    BY <1>3, Mutates
  <2>2. m \in MutationRecord /\ m.at = at /\ m.target = plan[at].target /\ m.sent = clock
    BY <1>1, <2>1 DEF Phase, MutationRecord
  <2> HIDE DEF m
  <2>3. mutations \in Seq(MutationRecord)
    BY <1>1 DEF MutationsInv
  <2>4. /\ mutations' \in Seq(MutationRecord)
        /\ \A k \in DOMAIN mutations' : (k \in DOMAIN mutations /\ mutations'[k] = mutations[k]) \/ mutations'[k] = m
    BY <2>1, <2>2, <2>3
  <2>5. at < at + 1 /\ \A n \in Nat : n < at => n < at + 1
    BY <1>1
  <2>6. clock <= clock
    BY <1>1
  <2>7. ASSUME NEW k \in DOMAIN mutations'
        PROVE  /\ mutations'[k].at < at' /\ mutations'[k].at \in Mutations
               /\ plan[mutations'[k].at].target = mutations'[k].target
               /\ mutations'[k].sent <= clock
    BY <1>1, <2>1, <2>2, <2>4, <2>5, <2>6 DEF MutationsInv
  <2>8. QED
    BY <2>1, <2>4, <2>7 DEF MutationsInv
<1>4. CASE Materialize
  <2>1. clock' = clock /\ UNCHANGED <<plan, mutations>>
    BY <1>4, Materializes
  <2>2. clock <= clock
    BY <1>1
  <2>3. QED
    BY <1>1, <1>2, <2>1, <2>2
<1>5. CASE Poll
  BY <1>2, <1>5, PollTakes
<1>6. CASE ~Materialize /\ ~Poll /\ ~MutatePhase
  BY <1>2, <1>6, Quiet
<1>7. QED
  BY <1>3, <1>4, <1>5, <1>6


\* What a poll is told, of an identity whose policy and the one before it are known.
LEMMA PollSays ==
  ASSUME IInv, Poll
  PROVE  \E o \in SampleRecord :
           /\ o.at = at /\ o.identity = Phase.target /\ o.time = clock /\ polls' = Append(polls, o)
           /\ IF o.alive
              THEN Told(o, IF Visible(pending[o.identity]) THEN policy[o.identity] ELSE pending[o.identity].pre)
              ELSE /\ o.outcome \in {"ERROR_TRANSIENT", "DENIED_IMPLICIT"}
                   /\ ~Live(Latest(o.identity))
<1>1. Phase.target \in Identities /\ caching = {}
  BY PollTakes, PhaseShape DEF IInv, PlaceInv
<1>2. PICK o \in SampleRecord :
        /\ o.at = at /\ o.identity = Phase.target /\ o.capability = Phase.capability /\ o.time = clock
        /\ o.outcome \in {"ERROR_TRANSIENT", Answer(Phase.target, Phase.capability)}
        /\ o.alive <=> Live(Latest(Phase.target))
        /\ polls' = Append(polls, o)
  BY PollTakes
<1>3. IF Live(Latest(Phase.target))
      THEN Answer(Phase.target, Phase.capability)
             = Evaluate(IF Visible(pending[Phase.target]) THEN policy[Phase.target] ELSE pending[Phase.target].pre,
                        Phase.target, Phase.capability)
      ELSE Answer(Phase.target, Phase.capability) = "DENIED_IMPLICIT"
  BY <1>1, AnswerSays
<1>4. CASE o.alive
  BY <1>2, <1>3, <1>4 DEF Told
<1>5. CASE ~o.alive
  BY <1>2, <1>3, <1>5
<1>6. QED
  BY <1>2, <1>4, <1>5

\* Every step keeps an identity no mutation has reached as it was.
LEMMA UntouchedStep == IInv /\ [Next]_vars => UntouchedInv'
<1> SUFFICES ASSUME IInv, [Next]_vars PROVE UntouchedInv'
  OBVIOUS
<1>1. UntouchedInv /\ ProviderTypeOK /\ PlaceInv /\ SamplesInv
  BY DEF IInv
<1>2. ASSUME UNCHANGED <<policy, issued, revoked, pending, mutations>>, Taken' = Taken
      PROVE  UntouchedInv'
  BY <1>1, <1>2 DEF UntouchedInv, Untouched, Told, Owned, Latest, Initial
<1>3. CASE Materialize
  <2>1. Taken' = <<>> /\ revoked' = {} /\ UNCHANGED <<policy, pending, mutations>>
    BY <1>3, Materializes
  <2>2. QED
    BY <1>1, <2>1 DEF UntouchedInv, Untouched, Initial
<1>4. CASE Poll
  <2>1. PICK o \in SampleRecord :
           /\ o.at = at /\ o.identity = Phase.target /\ o.time = clock /\ polls' = Append(polls, o)
           /\ IF o.alive
              THEN Told(o, IF Visible(pending[o.identity]) THEN policy[o.identity] ELSE pending[o.identity].pre)
              ELSE /\ o.outcome \in {"ERROR_TRANSIENT", "DENIED_IMPLICIT"}
                   /\ ~Live(Latest(o.identity))
    BY <1>4, PollSays
  <2>2. UNCHANGED <<policy, issued, revoked, pending, mutations, observations>> /\ pc = "probe"
    BY <1>4, PollTakes
  <2> DEFINE last == Len(Taken) + 1
  <2>3. DOMAIN Taken' = DOMAIN Taken \union {last} /\ Taken'[last] = o /\ \A k \in DOMAIN Taken : Taken'[k] = Taken[k]
    BY <1>1, <2>1, <2>2, Appended DEF SamplesInv
  <2> HIDE DEF last
  <2>4. o.identity \in Identities
    BY DEF SampleRecord
  <2>5. ASSUME Untouched(o.identity), o.alive
        PROVE  Told(o, Initial(o.identity))
    BY <1>1, <2>1, <2>4, <2>5 DEF UntouchedInv
  <2>6. ASSUME Untouched(o.identity), ~o.alive
        PROVE  /\ o.outcome \in {"ERROR_TRANSIENT", "DENIED_IMPLICIT"}
               /\ issued[Latest(o.identity)].expires <= o.time
    <3>1. Latest(o.identity) \in Owned(o.identity) /\ Latest(o.identity) \notin revoked
      BY <1>1, <2>2, <2>4, <2>6 DEF UntouchedInv, PlaceInv
    <3>2. Latest(o.identity) \in DOMAIN issued
      BY <3>1 DEF Owned
    <3>3. issued[Latest(o.identity)] \in SessionRecord
      <4>1. issued \in Seq(SessionRecord)
        BY <1>1 DEF ProviderTypeOK, SessionRecord
      <4>2. QED
        BY <3>2, <4>1
    <3>4. issued[Latest(o.identity)].expires \in Nat /\ clock \in Nat
      BY <1>1, <3>3 DEF SessionRecord, ProviderTypeOK
    <3>5. ~(clock < issued[Latest(o.identity)].expires)
      BY <2>1, <2>6, <3>1 DEF Live
    <3>6. QED
      BY <2>1, <2>6, <3>4, <3>5
  <2>7. ASSUME NEW i \in Identities, Untouched(i), NEW k \in DOMAIN Taken', Taken'[k].identity = i
        PROVE  IF Taken'[k].alive THEN Told(Taken'[k], Initial(i))
               ELSE Taken'[k].outcome \in {"ERROR_TRANSIENT", "DENIED_IMPLICIT"}
                      /\ issued[Latest(i)].expires <= Taken'[k].time
    <3>1. CASE k \in DOMAIN Taken
      BY <1>1, <2>3, <2>7, <3>1 DEF UntouchedInv
    <3>2. CASE k = last
      BY <2>3, <2>5, <2>6, <2>7, <3>2
    <3>3. QED
      BY <2>3, <2>7, <3>1, <3>2
  <2>8. \A i : Latest(i)' = Latest(i) /\ Owned(i)' = Owned(i) /\ (Untouched(i)' <=> Untouched(i)) /\ Initial(i)' = Initial(i)
    BY <2>2 DEF Latest, Owned, Untouched, Initial
  <2>9. QED
    BY <1>1, <2>2, <2>7, <2>8 DEF UntouchedInv, Told, Owned, Latest, Initial, Untouched
<1>5. CASE MutatePhase
  <2> DEFINE m == [at |-> at, target |-> Phase.target, sent |-> clock]
  <2>1. /\ Phase.target \in Identities /\ Mutate(Phase.target, Phase.mutation) /\ issued' = issued /\ Taken' = Taken
        /\ mutations' = Append(mutations, m)
    BY <1>5, Mutates
  <2>2. mutations \in Seq(MutationRecord) /\ m.target = Phase.target
    BY DEF IInv, MutationsInv
  <2>3. m \in MutationRecord
    BY <1>1, <2>1, AtGrows DEF ProviderTypeOK, MutationRecord
  <2> HIDE DEF m
  <2>4. /\ DOMAIN mutations \subseteq DOMAIN mutations' /\ Len(mutations) + 1 \in DOMAIN mutations'
        /\ \A k \in DOMAIN mutations : mutations'[k] = mutations[k]
        /\ mutations'[Len(mutations) + 1] = m
    BY <2>1, <2>2, <2>3
  <2>5. ASSUME NEW i \in Identities, Untouched(i)'
        PROVE  /\ Untouched(i) /\ i # Phase.target /\ policy'[i] = policy[i] /\ pending'[i] = pending[i]
               /\ Owned(i) \intersect revoked' = {}
    <3>1. Untouched(i) /\ i # Phase.target
      BY <2>2, <2>4, <2>5 DEF Untouched
    <3>2. policy'[i] = policy[i] /\ pending'[i] = pending[i] /\ revoked' \subseteq revoked \union Owned(Phase.target)
      BY <1>1, <2>1, <3>1, MutateSays
    <3>3. Owned(i) \intersect revoked = {}
      BY <1>1, <3>1 DEF UntouchedInv
    <3>4. Owned(i) \intersect Owned(Phase.target) = {}
      BY <3>1 DEF Owned
    <3>5. QED
      BY <3>1, <3>2, <3>3, <3>4
  <2>6. QED
    BY <1>1, <2>1, <2>5 DEF UntouchedInv, Told, Owned, Latest, Initial
<1>6. CASE ~Materialize /\ ~Poll /\ ~MutatePhase
  BY <1>2, <1>6, Quiet
<1>7. QED
  BY <1>3, <1>4, <1>5, <1>6

\* Every step keeps what a sole mutation's samples say of it.
LEMMA SoleStep == IInv /\ [Next]_vars => SoleInv'
<1> SUFFICES ASSUME IInv, [Next]_vars PROVE SoleInv'
  OBVIOUS
<1>1. SoleInv /\ UntouchedInv /\ MutationsInv /\ ProviderTypeOK /\ PlaceInv /\ SamplesInv
  BY DEF IInv
<1>2. ASSUME UNCHANGED <<plan, policy, pending, mutations>>, Taken' = Taken
      PROVE  SoleInv'
  <2>1. Mutations' = Mutations
    BY <1>2 DEF Mutations
  <2>2. QED
    BY <1>1, <1>2, <2>1 DEF SoleInv, Told, Seen, Initial
<1>3. CASE Poll
  <2>1. PICK o \in SampleRecord :
           /\ o.at = at /\ o.identity = Phase.target /\ o.time = clock /\ polls' = Append(polls, o)
           /\ o.alive => Told(o, IF Visible(pending[o.identity]) THEN policy[o.identity] ELSE pending[o.identity].pre)
    BY <1>3, PollSays
  <2>2. UNCHANGED <<plan, policy, issued, revoked, pending, mutations, observations>>
    BY <1>3, PollTakes
  <2> DEFINE last == Len(Taken) + 1
  <2>3. DOMAIN Taken' = DOMAIN Taken \union {last} /\ Taken'[last] = o /\ \A k \in DOMAIN Taken : Taken'[k] = Taken[k]
    BY <1>1, <2>1, <2>2, Appended DEF SamplesInv
  <2> HIDE DEF last
  <2>4. Mutations' = Mutations
    BY <2>2 DEF Mutations
  <2>5. ASSUME NEW n \in Mutations, Mutations = {n}, mutations # <<>>
        PROVE  ~(at <= n)
    <3>1. 1 \in DOMAIN mutations /\ mutations[1].at \in Nat
      <4>1. mutations \in Seq(MutationRecord)
        BY <1>1 DEF MutationsInv
      <4>2. 1 \in DOMAIN mutations
        BY <2>5, <4>1
      <4>3. mutations[1] \in MutationRecord
        BY <4>1, <4>2
      <4>4. QED
        BY <4>2, <4>3 DEF MutationRecord
    <3>2. mutations[1].at = n /\ mutations[1].at < at
      BY <1>1, <2>5, <3>1 DEF MutationsInv
    <3>3. at \in Nat
      BY AtGrows
    <3>4. QED
      BY <3>1, <3>2, <3>3
  <2>6. ASSUME NEW n \in Mutations, Mutations = {n}, mutations # <<>>, o.alive, o.identity = plan[n].target,
               pending[o.identity].shown = {}
        PROVE  Told(o, Seen(o.identity, plan[n].mutation, o))
    <3>1. /\ policy[o.identity] = Mutated(Initial(o.identity), plan[n].mutation)
          /\ pending[o.identity].pre = Initial(o.identity)
      BY <1>1, <2>6 DEF SoleInv
    <3>2. Visible(pending[o.identity]) <=> clock >= pending[o.identity].settle
      BY <2>6 DEF Visible
    <3>3. clock \in Nat /\ pending[o.identity].settle \in Nat
      <4>1. o.identity \in Identities
        BY DEF SampleRecord
      <4>2. pending[o.identity] \in [pre : Policy, settle : Nat, shown : SUBSET Nat]
        BY <1>1, <4>1 DEF ProviderTypeOK
      <4>3. QED
        BY <1>1, <4>2 DEF ProviderTypeOK
    <3>4. Visible(pending[o.identity]) <=> pending[o.identity].settle <= o.time
      BY <2>1, <3>2, <3>3
    <3>5. QED
      BY <2>1, <2>6, <3>1, <3>4 DEF Seen
  <2>7. ASSUME NEW n \in Mutations, Mutations = {n}, mutations # <<>>, NEW k \in DOMAIN Taken',
               Taken'[k].identity = plan[n].target, Taken'[k].alive
        PROVE  IF Taken'[k].at <= n
               THEN Told(Taken'[k], Initial(plan[n].target)) /\ Taken'[k].time <= mutations[1].sent
               ELSE pending[plan[n].target].shown = {} =>
                      Told(Taken'[k], Seen(plan[n].target, plan[n].mutation, Taken'[k]))
    <3>1. CASE k \in DOMAIN Taken
      BY <1>1, <2>3, <2>7, <3>1 DEF SoleInv
    <3>2. CASE k = last
      BY <2>1, <2>3, <2>5, <2>6, <2>7, <3>2
    <3>3. QED
      BY <2>3, <2>7, <3>1, <3>2
  <2>8. QED
    BY <1>1, <2>2, <2>4, <2>7 DEF SoleInv, Told, Seen, Initial
<1>4. CASE MutatePhase
  <2> DEFINE m == [at |-> at, target |-> Phase.target, sent |-> clock]
  <2>1. /\ Phase.target \in Identities /\ Mutate(Phase.target, Phase.mutation) /\ Taken' = Taken
        /\ mutations' = Append(mutations, m) /\ at \in Mutations /\ Mutations' = Mutations /\ plan' = plan
    BY <1>4, Mutates
  <2>2. m.sent = clock /\ m.at = at /\ m.target = Phase.target
    OBVIOUS
  <2> HIDE DEF m
  <2>3. ASSUME NEW n \in Mutations, Mutations = {n}
        PROVE  n = at /\ mutations = <<>>
    <3>1. n = at
      BY <2>1, <2>3
    <3>2. \A k \in DOMAIN mutations : mutations[k].at = at /\ mutations[k].at < at
      BY <1>1, <2>3, <3>1 DEF MutationsInv
    <3>3. at \in Nat
      BY AtGrows
    <3>4. DOMAIN mutations = {}
      BY <3>2, <3>3
    <3>5. mutations \in Seq(MutationRecord)
      BY <1>1 DEF MutationsInv
    <3>6. QED
      BY <3>1, <3>4, <3>5
  <2>4. ASSUME NEW n \in Mutations, Mutations = {n}
        PROVE  /\ mutations' = <<m>> /\ plan[n].target = Phase.target /\ plan[n].mutation = Phase.mutation
               /\ policy'[Phase.target] = Mutated(Initial(Phase.target), Phase.mutation)
               /\ pending'[Phase.target].pre = Initial(Phase.target)
               /\ \A k \in DOMAIN Taken : Taken[k].identity = Phase.target /\ Taken[k].alive =>
                     Taken[k].at <= n /\ Told(Taken[k], Initial(Phase.target)) /\ Taken[k].time <= clock
    <3>1. n = at /\ mutations = <<>>
      BY <2>3, <2>4
    <3>2. Untouched(Phase.target)
      BY <3>1 DEF Untouched
    <3>3. /\ policy[Phase.target] = Initial(Phase.target)
          /\ \A k \in DOMAIN Taken : Taken[k].identity = Phase.target /\ Taken[k].alive =>
               Told(Taken[k], Initial(Phase.target))
      BY <1>1, <2>1, <3>2 DEF UntouchedInv
    <3>4. policy'[Phase.target] = Mutated(policy[Phase.target], Phase.mutation) /\ pending'[Phase.target].pre = policy[Phase.target]
      BY <1>1, <2>1, MutateSays
    <3>5. \A k \in DOMAIN Taken : Taken[k].at <= at /\ Taken[k].time <= clock
      BY TakenTyped DEF IInv, TimesInv
    <3>6. mutations' = <<m>>
      BY <2>1, <3>1
    <3>7. QED
      BY <3>1, <3>3, <3>4, <3>5, <3>6 DEF Phase
  <2>5. mutations' = <<m>> => Len(mutations') = 1 /\ mutations'[1].sent = clock
    BY <2>2
  <2>6. ASSUME NEW n \in Mutations, Mutations = {n}
        PROVE  /\ Len(mutations') = 1
               /\ policy'[plan[n].target] = Mutated(Initial(plan[n].target), plan[n].mutation)
               /\ pending'[plan[n].target].pre = Initial(plan[n].target)
               /\ \A k \in DOMAIN Taken : Taken[k].identity = plan[n].target /\ Taken[k].alive =>
                    Taken[k].at <= n /\ Told(Taken[k], Initial(plan[n].target)) /\ Taken[k].time <= mutations'[1].sent
    BY <2>4, <2>5, <2>6
  <2>7. QED
    BY <2>1, <2>6 DEF SoleInv, Told, Initial
<1>5. CASE Materialize
  BY <1>2, <1>5, Materializes
<1>6. CASE ~Materialize /\ ~Poll /\ ~MutatePhase
  BY <1>2, <1>6, Quiet
<1>7. QED
  BY <1>3, <1>4, <1>5, <1>6


\* Each poll lengthens the streak or starts it over.
LEMMA StreakStep == IInv /\ [Next]_vars => StreakInv'
<1> SUFFICES ASSUME IInv, [Next]_vars, Polling' PROVE StreakInv'
  BY DEF StreakInv
<1>1. StreakInv /\ PlaceInv /\ SamplesInv
  BY DEF IInv
<1>2. Polling => /\ Phase.stability_count \in Nat \ {0} /\ Running("POLL")
                 /\ Len(polls) \in Nat /\ DOMAIN polls = 1 .. Len(polls)
  BY <1>1, PhaseShape DEF PlaceInv, SamplesInv
<1>3. ASSUME UNCHANGED <<plan, at>>
      PROVE  /\ Phase' = Phase
             /\ \A k : Matching(k)' <=> k \in DOMAIN polls' /\ MatchesTarget(polls'[k].outcome)
  BY <1>3 DEF Phase, Matching, MatchesTarget
<1>4. ASSUME UNCHANGED <<plan, at, streak, polls>>
      PROVE  \A n : Matching(n)' = Matching(n) /\ FullStreak(n)' = FullStreak(n)
  BY <1>3, <1>4 DEF Phase, Matching, FullStreak, MatchesTarget
<1>5. CASE StartPoll
  <2>1. /\ streak' = 0 /\ polls' = <<>> /\ pc' = "pace" /\ UNCHANGED <<plan, at>> /\ Running("POLL")
    BY <1>5 DEF StartPoll
  <2>2. Phase' = Phase /\ Phase.stability_count \in Nat \ {0}
    BY <1>1, <1>3, <2>1, PhaseShape DEF PlaceInv
  <2>3. \A k : ~Matching(k)'
    BY <2>1 DEF Matching
  <2>4. 0 \in 0 .. Phase.stability_count /\ 0 < Phase.stability_count /\ Len(polls') = 0
    BY <2>1, <2>2
  <2>5. QED
    BY <2>1, <2>2, <2>3, <2>4 DEF StreakInv
<1>6. CASE Poll
  <2>1. PICK o \in SampleRecord :
          polls' = Append(polls, o) /\ streak' = IF MatchesTarget(o.outcome) THEN streak + 1 ELSE 0
    BY <1>6, PollTakes
  <2>2. pc = "probe" /\ pc' = "judge" /\ UNCHANGED <<plan, at>>
    BY <1>6, PollTakes
  <2>0. PICK L, sc, c : L = Len(polls) /\ sc = Phase.stability_count /\ c = streak
    OBVIOUS
  <2>3. /\ polls \in Seq(SampleRecord) /\ L \in Nat /\ DOMAIN polls = 1 .. L /\ sc \in Nat \ {0}
        /\ c \in Nat /\ c < sc /\ c <= L
    BY <1>1, <1>2, <2>0, <2>2 DEF SamplesInv, StreakInv, Polling
  <2>4. /\ Len(polls') = L + 1 /\ DOMAIN polls' = 1 .. L + 1 /\ polls'[L + 1] = o
        /\ \A k \in 1 .. L : polls'[k] = polls[k]
    BY <2>0, <2>1, <2>3
  <2>5. /\ \A k \in 1 .. L : Matching(k)' <=> Matching(k)
        /\ Matching(L + 1)' <=> MatchesTarget(o.outcome)
        /\ \A k : k \notin 1 .. L + 1 => ~Matching(k)'
    <3>1. \A k \in 1 .. L : k \in 1 .. L + 1
      BY <2>3
    <3>2. L + 1 \in 1 .. L + 1
      BY <2>3
    <3>3. QED
      BY <1>3, <2>2, <2>3, <2>4, <3>1, <3>2 DEF Matching
  <2>6. \A k : k \notin 1 .. L => ~Matching(k)
    BY <2>3 DEF Matching
  <2>7. /\ \A k \in L - c + 1 .. L : Matching(k)
        /\ ~Matching(L - c)
        /\ \A n \in 1 .. L : ~FullStreak(n)
    BY <1>1, <2>0, <2>2, <2>3 DEF StreakInv, Polling
  <2>8. Phase' = Phase
    BY <1>3, <2>2
  <2>9. \A n \in 1 .. L : ~FullStreak(n)'
    <3>1. SUFFICES ASSUME NEW n \in 1 .. L, FullStreak(n)' PROVE FALSE
      OBVIOUS
    <3>2. \A k \in n - sc + 1 .. n : Matching(k)'
      BY <2>0, <2>8, <3>1 DEF FullStreak
    <3>3. \A k \in n - sc + 1 .. n : k \in 1 .. L + 1 /\ k <= n
      BY <2>3, <2>5, <3>2
    <3>4. \A k \in n - sc + 1 .. n : k \in 1 .. L
      BY <2>3, <3>3
    <3>5. \A k \in n - sc + 1 .. n : Matching(k)
      BY <2>5, <3>2, <3>4
    <3>6. QED
      BY <2>0, <2>7, <3>5 DEF FullStreak
  <2>10. CASE MatchesTarget(o.outcome)
    <3>1. streak' = c + 1
      BY <2>0, <2>1, <2>10
    <3>2. streak' \in 0 .. sc /\ streak' <= L + 1 /\ (L + 1) - streak' = L - c
      BY <2>3, <3>1
    <3>3. \A k \in (L + 1) - streak' + 1 .. L + 1 : Matching(k)'
      <4>1. \A k \in L - c + 1 .. L + 1 : k = L + 1 \/ (k \in L - c + 1 .. L /\ k \in 1 .. L)
        BY <2>3
      <4>2. QED
        BY <2>5, <2>7, <2>10, <3>2, <4>1
    <3>4. ~Matching(L - c)'
      <4>1. L - c \in 1 .. L \/ L - c \notin 1 .. L + 1
        BY <2>3
      <4>2. CASE L - c \in 1 .. L
        BY <2>5, <2>7, <4>2
      <4>3. CASE L - c \notin 1 .. L + 1
        BY <2>5, <4>3
      <4>4. QED
        BY <4>1, <4>2, <4>3
    <3>5. QED
      BY <2>0, <2>2, <2>3, <2>4, <2>8, <2>9, <3>2, <3>3, <3>4 DEF StreakInv
  <2>11. CASE ~MatchesTarget(o.outcome)
    <3>1. streak' = 0
      BY <2>1, <2>11
    <3>2. 0 \in 0 .. sc /\ 0 <= L + 1 /\ (L + 1) - 0 = L + 1 /\ (L + 1) - 0 + 1 .. L + 1 = {}
      BY <2>3
    <3>3. QED
      BY <2>0, <2>2, <2>3, <2>4, <2>5, <2>8, <2>9, <2>11, <3>1, <3>2 DEF StreakInv
  <2>12. QED
    BY <2>10, <2>11
<1>7. CASE PollAgain
  <2>1. pc = "judge" /\ pc' = "pace" /\ ~Stable /\ UNCHANGED <<plan, at, streak, polls>>
    BY <1>7 DEF PollAgain
  <2>0. PICK L, sc : L = Len(polls) /\ sc = Phase.stability_count
    OBVIOUS
  <2>2. /\ L \in Nat /\ DOMAIN polls = 1 .. L /\ sc \in Nat \ {0} /\ streak \in 0 .. sc /\ streak <= L
        /\ ~Matching(L - streak) /\ \A n \in 1 .. L : FullStreak(n) => n = L
    BY <1>1, <1>2, <2>0, <2>1 DEF StreakInv, Polling
  <2>3. streak < sc
    BY <2>0, <2>1, <2>2 DEF Stable
  <2>4. ~FullStreak(L)
    <3>1. L - streak \in L - sc + 1 .. L
      BY <2>2, <2>3
    <3>2. QED
      BY <2>0, <2>2, <3>1 DEF FullStreak
  <2>5. \A n \in DOMAIN polls : ~FullStreak(n)
    BY <2>2, <2>4
  <2>6. Phase' = Phase /\ \A n : Matching(n)' = Matching(n) /\ FullStreak(n)' = FullStreak(n)
    BY <1>3, <1>4, <2>1
  <2>7. QED
    BY <1>1, <2>0, <2>1, <2>2, <2>3, <2>5, <2>6 DEF StreakInv, Polling, Matching, FullStreak
<1>8. CASE PaceVirtual \/ PaceReal
  <2>1. pc = "pace" /\ pc' = "probe" /\ UNCHANGED <<plan, at, streak, polls>>
    BY <1>8 DEF PaceVirtual, PaceReal
  <2>2. Phase' = Phase /\ \A n : Matching(n)' = Matching(n) /\ FullStreak(n)' = FullStreak(n)
    BY <1>3, <1>4, <2>1
  <2>3. QED
    BY <1>1, <2>1, <2>2 DEF StreakInv, Polling, Matching, FullStreak
<1>9. CASE UNCHANGED vars
  <2>1. UNCHANGED <<pc, plan, at, streak, polls>>
    BY <1>9 DEF vars, run
  <2>2. QED
    BY <1>1, <2>1 DEF StreakInv, Polling, Matching, FullStreak, Phase, MatchesTarget
<1>10. ASSUME pc' \notin {"pace", "probe", "judge"} PROVE StreakInv'
  BY <1>10 DEF Polling
<1>11. ASSUME Materialize \/ DeadlineRaises \/ PaceToDeadline \/ StopStable \/ StopTimeout \/ MutatePhase \/ WaitPhase \/ Complete
       PROVE  pc' \in {"phase", "completed", "aborted"}
  BY <1>11 DEF Materialize, DeadlineRaises, PaceToDeadline, StopStable, StopTimeout, StopPoll, MutatePhase, WaitPhase,
               Complete, EndPhase
<1>12. QED
  BY <1>5, <1>6, <1>7, <1>8, <1>9, <1>10, <1>11 DEF Next



-----------------------------------------------------------------------------
\* The stops: what was reported of the phases that are over stays true of them.

Streaks(n) ==
  {k \in InPhase(n) : \A j \in k - plan[n].stability_count + 1 .. k :
                        j \in With(InPhase(n), Sought(plan[n].stop_on))}

StopTold(s) ==
  /\ s.stop_reason \in {"STABLE_ALLOW", "STABLE_DENIAL"} =>
       \E last \in InPhase(s.at) : Streaks(s.at) = {last} /\ \A k \in InPhase(s.at) : k <= last
  /\ s.stop_reason = "TIMEOUT" /\ plan[s.at].stop_on # "TIMEOUT" => Streaks(s.at) = {}

\* The property of stops, stop by stop.
LEMMA StopsAreTold == StableStopsAreStreaks <=> \A s \in stops : StopTold(s)
BY DEF StableStopsAreStreaks, StopTold, Streaks

\* The streaks of the phase in progress are those of its polls, once written.
LEMMA StreaksWritten ==
  ASSUME NEW L \in Nat, L = Len(observations), NEW n, n = at, plan' = plan,
         observations \in Seq(SampleRecord), polls \in Seq(SampleRecord),
         observations' = observations \o polls,
         \A k \in DOMAIN observations : observations[k].at # at,
         \A k \in DOMAIN polls : polls[k].at = at,
         Phase.stability_count \in Nat \ {0}, Phase.stop_on \in {"STABLE_DENIAL", "STABLE_ALLOW"}
  PROVE  /\ InPhase(n)' = {k \in Int : k - L \in DOMAIN polls}
         /\ Streaks(n)' = {k \in Int : k - L \in DOMAIN polls /\ FullStreak(k - L)}
<1>1. PICK M \in Nat : M = Len(polls) /\ DOMAIN polls = 1 .. M
  OBVIOUS
<1>2. DOMAIN observations = 1 .. L /\ DOMAIN observations' = 1 .. L + M
  BY <1>1
<1>3. /\ \A k \in 1 .. L : observations'[k] = observations[k] /\ observations'[k].at # n
      /\ \A k \in 1 .. M : observations'[L + k] = polls[k] /\ observations'[L + k].at = n
  BY <1>1, <1>2
<1>4. \A k \in Int : k - L \in 1 .. M => k \in 1 .. L + M /\ L + (k - L) = k
  BY <1>1
<1>5. \A k \in 1 .. L + M : k \in Int /\ (k \in 1 .. L \/ k - L \in 1 .. M)
  BY <1>1
<1>6. \A k \in Int : k - L \in 1 .. M => observations'[k] = polls[k - L] /\ observations'[k].at = n
  BY <1>3, <1>4
<1>7. InPhase(n)' = {k \in Int : k - L \in 1 .. M}
  <2>1. \A k \in DOMAIN observations' : observations'[k].at = n => k \in Int /\ k - L \in 1 .. M
    BY <1>2, <1>3, <1>5
  <2>2. \A k \in Int : k - L \in 1 .. M => k \in DOMAIN observations' /\ observations'[k].at = n
    BY <1>2, <1>4, <1>6
  <2>3. QED
    BY <2>1, <2>2 DEF InPhase
<1>8. PICK sc \in Nat \ {0} : sc = Phase.stability_count
  OBVIOUS
<1>9. plan[n] = Phase /\ plan'[n] = Phase
  BY DEF Phase
<1>10. \A outcome : MatchesTarget(outcome) <=> outcome \in Sought(Phase.stop_on)
  BY DEF MatchesTarget, Sought
<1>11. \A k \in Int : k \in With(InPhase(n), Sought(plan[n].stop_on))' <=> Matching(k - L)
  <2>1. \A k \in Int : k \in With(InPhase(n), Sought(plan[n].stop_on))' <=>
                         k - L \in 1 .. M /\ observations'[k].outcome \in Sought(Phase.stop_on)
    BY <1>7, <1>9 DEF With, Sought, Denials
  <2>2. QED
    BY <1>1, <1>6, <1>10, <2>1 DEF Matching
<1>12. ASSUME NEW k \in Int
       PROVE  k \in Streaks(n)' <=> k - L \in 1 .. M /\ FullStreak(k - L)
  <2>1. k \in Streaks(n)' <=> k - L \in 1 .. M /\ \A j \in k - sc + 1 .. k : Matching(j - L)
    <3>1. \A j \in k - sc + 1 .. k : j \in Int
      BY <1>8
    <3>2. k \in Streaks(n)' <=> k - L \in 1 .. M /\ \A j \in k - sc + 1 .. k : j \in With(InPhase(n), Sought(plan[n].stop_on))'
      BY <1>7, <1>8, <1>9 DEF Streaks
    <3>3. QED
      BY <1>11, <3>1, <3>2
  <2>2. (\A j \in k - sc + 1 .. k : Matching(j - L)) <=> FullStreak(k - L)
    <3>1. ASSUME \A j \in k - sc + 1 .. k : Matching(j - L), NEW i \in (k - L) - sc + 1 .. k - L
          PROVE  Matching(i)
      <4>1. i + L \in k - sc + 1 .. k /\ (i + L) - L = i
        BY <1>8
      <4>2. Matching((i + L) - L)
        BY <3>1, <4>1
      <4>3. QED
        BY <4>1, <4>2
    <3>2. ASSUME \A i \in (k - L) - sc + 1 .. k - L : Matching(i), NEW j \in k - sc + 1 .. k
          PROVE  Matching(j - L)
      <4>1. j - L \in (k - L) - sc + 1 .. k - L
        BY <1>8
      <4>2. QED
        BY <3>2, <4>1
    <3>3. QED
      BY <1>8, <3>1, <3>2 DEF FullStreak
  <2>3. QED
    BY <2>1, <2>2
<1>13. Streaks(n)' \subseteq InPhase(n)'
  BY DEF Streaks
<1>14. QED
  BY <1>1, <1>7, <1>12, <1>13

\* Every step keeps every stable stop backed by its streak.
LEMMA StopsStep == IInv /\ [Next]_vars => StopsInv'
<1> SUFFICES ASSUME IInv, [Next]_vars PROVE StopsInv'
  OBVIOUS
<1>1. StopsInv /\ StreakInv /\ SamplesInv /\ PlaceInv
  BY DEF IInv
<1>2. at \in Nat /\ at' \in Nat /\ at <= at' /\ DOMAIN plan \subseteq Nat
  BY <1>1, AtGrows, PhaseShape DEF PlaceInv
<1>3. \A s \in stops : StopTold(s) /\ s.at < at /\ s.at \in DOMAIN plan /\ s.at \in Nat
  BY <1>1, <1>2, StopsAreTold DEF StopsInv
<1>4. SUFFICES /\ \A s \in stops' : StopTold(s)' /\ s.at < at' /\ s.at \in DOMAIN plan'
  BY DEF StopsInv, StableStopsAreStreaks, StopTold, Streaks
<1>5. ASSUME UNCHANGED <<plan, stops, observations>>
      PROVE  \A s \in stops' : StopTold(s)' /\ s.at < at' /\ s.at \in DOMAIN plan'
  <2>1. \A s : StopTold(s)' = StopTold(s)
    BY <1>5 DEF StopTold, Streaks, InPhase, With, Sought, Denials
  <2>2. \A s \in stops : s.at < at'
    BY <1>2, <1>3
  <2>3. QED
    BY <1>3, <1>5, <2>1, <2>2
<1>6. CASE StopStable \/ StopTimeout
  <2>1. PICK reason :
          /\ StopPoll(reason) /\ pc = "judge"
          /\ \/ Stable /\ reason = Phase.stop_on
             \/ ~Stable /\ reason = "TIMEOUT"
    BY <1>6 DEF StopStable, StopTimeout
  <2>2. PICK L, n, M, sc : L \in Nat /\ n \in Nat /\ M \in Nat /\ L = Len(observations) /\ n = at /\ M = Len(polls) /\ sc = Phase.stability_count
    <3>1. observations \in Seq(SampleRecord) /\ polls \in Seq(SampleRecord)
      BY <1>1 DEF SamplesInv
    <3>2. Len(observations) \in Nat /\ Len(polls) \in Nat
      BY <3>1
    <3>3. QED
      BY <1>2, <3>2
  <2>3. PICK new : new.at = n /\ new.stop_reason = reason /\ stops' = stops \union {new}
    BY <2>1, <2>2 DEF StopPoll
  <2>4. observations' = observations \o polls /\ at' = n + 1 /\ plan' = plan
    BY <2>1, <2>2 DEF StopPoll, EndPhase
  <2>5. /\ observations \in Seq(SampleRecord) /\ polls \in Seq(SampleRecord)
        /\ \A k \in DOMAIN observations : observations[k].at # n /\ observations'[k] = observations[k]
        /\ DOMAIN observations \subseteq DOMAIN observations'
        /\ \A k \in DOMAIN observations' : k \notin DOMAIN observations => observations'[k].at = n
        /\ DOMAIN polls = 1 .. M
    <3>1. observations \in Seq(SampleRecord) /\ polls \in Seq(SampleRecord)
      BY <1>1 DEF SamplesInv
    <3>2. \A k \in DOMAIN observations : observations[k].at < n /\ observations[k] \in SampleRecord
      BY <1>1, <2>2, <3>1 DEF SamplesInv
    <3>3. \A k \in DOMAIN observations : observations[k].at # n
      BY <3>2 DEF SampleRecord
    <3>4. observations' = Taken
      BY <2>4 DEF Taken
    <3>5. \A k \in DOMAIN polls : polls[k].at = n
      BY <1>1, <2>2 DEF SamplesInv
    <3>6. QED
      BY <2>2, <3>1, <3>3, <3>4, <3>5, TakenShape
  <2>6. /\ Running("POLL") /\ sc \in Nat \ {0} /\ n \in DOMAIN plan
        /\ Phase.stop_on \in {"STABLE_DENIAL", "STABLE_ALLOW", "TIMEOUT"}
    BY <1>1, <2>1, <2>2, PhaseShape DEF PlaceInv, Polling, Running
  <2>7. ASSUME NEW s \in stops
        PROVE  StopTold(s)' /\ s.at < at'
    <3>1. s.at \in Nat /\ s.at # n /\ s.at < n + 1
      BY <1>3, <2>2
    <3>2. InPhase(s.at)' = InPhase(s.at) /\ InPhase(s.at) \subseteq DOMAIN observations
      BY <2>5, <3>1 DEF InPhase
    <3>3. \A outcomes : With(InPhase(s.at), outcomes)' = With(InPhase(s.at), outcomes)
      BY <2>5, <3>2 DEF With
    <3>4. Streaks(s.at)' = Streaks(s.at)
      BY <2>4, <3>2, <3>3 DEF Streaks, Sought, Denials
    <3>5. StopTold(s)' = StopTold(s)
      BY <2>4, <3>2, <3>4 DEF StopTold
    <3>6. QED
      BY <1>3, <2>4, <3>1, <3>5
  <2>8. ASSUME Phase.stop_on # "TIMEOUT"
        PROVE  /\ InPhase(n)' = {k \in Int : k - L \in 1 .. M}
               /\ Streaks(n)' = {k \in Int : k - L \in 1 .. M /\ FullStreak(k - L)}
    <3>1. \A k \in DOMAIN polls : polls[k].at = at
      BY <1>1 DEF SamplesInv
    <3>2. QED
      BY <2>2, <2>4, <2>5, <2>6, <2>8, <3>1, StreaksWritten
  <2>9. \A k \in 1 .. M : FullStreak(k) => k = M
    BY <1>1, <2>1, <2>2, <2>5 DEF StreakInv, Polling
  <2>10. M # 0 /\ (Stable => FullStreak(M)) /\ (~Stable => ~FullStreak(M))
    <3>1. PICK c : c = streak
      OBVIOUS
    <3>2. /\ c \in 0 .. sc /\ c <= M /\ ~Matching(M - c) /\ polls # <<>>
          /\ \A k \in M - c + 1 .. M : Matching(k)
      BY <1>1, <2>1, <2>2, <3>1 DEF StreakInv, Polling
    <3>3. M # 0
      BY <2>2, <2>5, <3>2
    <3>4. ASSUME Stable PROVE FullStreak(M)
      <4>1. c = sc
        BY <2>2, <2>6, <3>1, <3>2, <3>4 DEF Stable
      <4>2. QED
        BY <2>2, <3>2, <4>1 DEF FullStreak
    <3>5. ASSUME ~Stable PROVE ~FullStreak(M)
      <4>1. M - c \in M - sc + 1 .. M
        BY <2>2, <2>6, <3>1, <3>2, <3>5 DEF Stable
      <4>2. QED
        BY <2>2, <3>2, <4>1 DEF FullStreak
    <3>6. QED
      BY <3>3, <3>4, <3>5
  <2>11. StopTold(new)'
    <3>1. ASSUME reason \in {"STABLE_ALLOW", "STABLE_DENIAL"}
          PROVE  \E last \in InPhase(n)' : Streaks(n)' = {last} /\ \A k \in InPhase(n)' : k <= last
      <4>1. Stable /\ Phase.stop_on # "TIMEOUT"
        BY <2>1, <3>1
      <4>2. L + M \in Int /\ (L + M) - L = M /\ M \in 1 .. M
        BY <2>2, <2>10
      <4>3. L + M \in InPhase(n)'
        BY <2>8, <4>1, <4>2
      <4>4. \A k \in InPhase(n)' : k <= L + M
        BY <2>2, <2>8, <4>1
      <4>5. L + M \in Streaks(n)'
        BY <2>8, <2>10, <4>1, <4>2
      <4>6. \A k \in Streaks(n)' : k = L + M
        <5>1. \A k \in Int : k - L = M => k = L + M
          BY <2>2
        <5>2. QED
          BY <2>8, <2>9, <4>1, <5>1
      <4>7. QED
        BY <4>3, <4>4, <4>5, <4>6
    <3>2. ASSUME reason = "TIMEOUT", Phase.stop_on # "TIMEOUT"
          PROVE  Streaks(n)' = {}
      BY <2>1, <2>8, <2>9, <2>10, <3>2
    <3>3. plan'[n] = Phase
      BY <2>2, <2>4 DEF Phase
    <3>4. QED
      BY <2>3, <3>1, <3>2, <3>3 DEF StopTold
  <2>12. QED
    BY <1>3, <2>2, <2>3, <2>4, <2>6, <2>7, <2>11
<1>7. ASSUME ~StopStable, ~StopTimeout
      PROVE  UNCHANGED <<plan, stops, observations>>
  <2>1. ASSUME Materialize \/ DeadlineRaises \/ StartPoll \/ PaceVirtual \/ PaceReal \/ PaceToDeadline \/ Poll
        PROVE  UNCHANGED <<plan, stops, observations>>
    BY <2>1 DEF Materialize, DeadlineRaises, StartPoll, PaceVirtual, PaceReal, PaceToDeadline, Poll
  <2>2. ASSUME PollAgain \/ MutatePhase \/ WaitPhase \/ Complete \/ UNCHANGED vars
        PROVE  UNCHANGED <<plan, stops, observations>>
    BY <2>2 DEF PollAgain, MutatePhase, WaitPhase, Complete, vars, run
  <2>3. QED
    BY <1>7, <2>1, <2>2 DEF Next
<1>8. QED
  BY <1>5, <1>6, <1>7



-----------------------------------------------------------------------------
\* The theorems.

\* The invariant holds before the first phase.
LEMMA InitInv == Init => IInv
<1> SUFFICES ASSUME Init PROVE IInv
  OBVIOUS
<1>1. /\ clock = 0 /\ policy = [i \in Identities |-> Initial(i)] /\ issued = <<>> /\ revoked = {}
      /\ caching = {} /\ blocked = {}
      /\ pending = [i \in Identities |-> [pre |-> policy[i], settle |-> 0, shown |-> {}]]
  BY DEF Init, ProviderInit, Initial
<1>2. /\ plan \in Plans /\ pacing \in Pacings /\ pc = "materialize" /\ at = 1
      /\ polls = <<>> /\ observations = <<>> /\ mutations = <<>> /\ stops = {}
  BY DEF Init
<1>3. \A i \in Identities : Initial(i) \in Policy /\ policy[i] = Initial(i) /\ pending[i].pre = Initial(i)
  BY <1>1, ProviderConstants DEF Initial, Policy
<1>4. ProviderTypeOK
  <2>1. <<>> \in Seq([owner : Identities, expires : Nat, snapshot : Policy])
    OBVIOUS
  <2>2. policy \in [Identities -> Policy]
    BY <1>1, <1>3
  <2>3. \A i \in Identities : pending[i] \in [pre : Policy, settle : Nat, shown : SUBSET Nat]
    BY <1>1, <1>3
  <2>4. pending \in [Identities -> [pre : Policy, settle : Nat, shown : SUBSET Nat]]
    BY <1>1, <2>3
  <2>5. QED
    BY <1>1, <2>1, <2>2, <2>4 DEF ProviderTypeOK
<1>5. plan \in Seq(PlanPhase)
  BY <1>2, PlansAreCompiled
<1>6. at \in 1 .. Len(plan) + 1
  BY <1>2, <1>5
<1>7. PlaceInv
  BY <1>1, <1>2, <1>6 DEF PlaceInv, Polling, Points
<1>8. Taken = <<>> /\ DOMAIN Taken = {} /\ DOMAIN mutations = {}
  BY <1>2 DEF Taken
<1>9. SamplesInv /\ TimesInv /\ MutationsInv /\ StreakInv /\ StopsInv
  BY <1>2, <1>8 DEF SamplesInv, TimesInv, MutationsInv, StreakInv, StopsInv, StableStopsAreStreaks, Polling
<1>10. UntouchedInv
  BY <1>1, <1>3, <1>8 DEF UntouchedInv
<1>11. SoleInv
  BY <1>2 DEF SoleInv
<1>12. QED
  BY <1>4, <1>7, <1>9, <1>10, <1>11 DEF IInv

\* The strengthened invariant every other theorem of the module draws on.
THEOREM Invariance == Spec => []IInv
<1>1. IInv /\ [Next]_vars => IInv'
  BY ProviderStep, PlaceStep, SamplesStep, TimesStep, MutationsStep, UntouchedStep, SoleStep, StreakStep, StopsStep
  DEF IInv
<1>2. QED
  BY InitInv, <1>1, PTL DEF Spec

\* Every variable of the run and of its provider keeps its type, a poll never
\* runs past its duration by more than an interval, and nothing is written with
\* a time that is still to come.
THEOREM TypeCorrect == Spec => []TypeOK
<1>1. IInv => TypeOK
  <2> SUFFICES ASSUME IInv PROVE TypeOK
    OBVIOUS
  <2>1. \A k \in DOMAIN observations : observations[k].time <= clock
    BY TakenShape DEF IInv, SamplesInv, TimesInv
  <2>2. QED
    BY <2>1 DEF IInv, PlaceInv, StreakInv, TypeOK, Polling, Points
<1>2. QED
  BY Invariance, <1>1, PTL

\* A poll phase stops as stable exactly at the first streak of the outcome it
\* seeks, and times out only when there was none (polling.py's two stop reasons).
THEOREM StableStops == Spec => []StableStopsAreStreaks
<1>1. IInv => StableStopsAreStreaks
  BY DEF IInv, StopsInv
<1>2. QED
  BY Invariance, <1>1, PTL


-----------------------------------------------------------------------------
\* What a measurement reports.

\* What a measurement makes of its rows (timing.py).
LEMMA MeasurementSays ==
  ASSUME NEW rows
  PROVE  /\ Measurement(rows).transition_observed <=> Observed(rows)
         /\ Observed(rows) => /\ Measurement(rows).low = LastAllow(rows) - MutationSent
                              /\ Measurement(rows).high = FirstDeny(rows) - MutationSent
                              /\ NonMonotonic(rows) => Measurement(rows).note = "NON_MONOTONIC_TRANSITION"
<1>1. CASE Observed(rows)
  <2> DEFINE note == IF NonMonotonic(rows) THEN "NON_MONOTONIC_TRANSITION" ELSE "CLEAN"
             low == LastAllow(rows) - MutationSent
             high == FirstDeny(rows) - MutationSent
  <2>1. Times(rows, {"ALLOWED"}) # {}
    BY <1>1 DEF Observed
  <2>2. Measurement(rows) = [transition_observed |-> TRUE, low |-> low, high |-> high, note |-> note]
    BY <1>1, <2>1, Zenon DEF Measurement
  <2>3. NonMonotonic(rows) => note = "NON_MONOTONIC_TRANSITION"
    OBVIOUS
  <2>4. low = LastAllow(rows) - MutationSent /\ high = FirstDeny(rows) - MutationSent
    OBVIOUS
  <2> HIDE DEF note, low, high
  <2>5. QED
    BY <1>1, <2>2, <2>3, <2>4
<1>2. CASE ~Observed(rows)
  <2>1. CASE Times(rows, {"ALLOWED"}) = {}
    BY <1>2, <2>1 DEF Measurement
  <2>2. CASE Times(rows, {"ALLOWED"}) # {}
    BY <1>2, <2>2 DEF Measurement
  <2>3. QED
    BY <2>1, <2>2
<1>3. QED
  BY <1>1, <1>2

\* What the rows of a cell are.
LEMMA RowsAreTaken ==
  ASSUME IInv, NEW cell \in MeasuredCells, NEW k \in Samples(cell)
  PROVE  /\ cell.identity \in Identities /\ k \in DOMAIN Taken /\ k \in Nat /\ Taken[k] = observations[k]
         /\ observations[k].identity = cell.identity /\ observations[k].capability = cell.capability
         /\ observations[k].time \in Nat /\ observations[k].at \in Nat /\ observations[k].time <= clock
         /\ clock \in Nat
<1>1. k \in DOMAIN observations /\ observations[k].identity = cell.identity /\ observations[k].capability = cell.capability
  BY DEF Samples
<1>2. k \in DOMAIN Taken /\ k \in Nat /\ Taken[k] = observations[k]
  BY <1>1, TakenShape DEF IInv, SamplesInv
<1>3. QED
  BY <1>1, <1>2, TakenTyped DEF IInv, TimesInv

\* nc-no-revocation.yaml: whatever the chain, the delays and the plan, a cell
\* polled while only other identities were mutated is never reported as revoked
\* while its credential lasts.
THEOREM NoCauselessTransition == Spec => []NoTransitionWithoutCause
<1>1. IInv => NoTransitionWithoutCause
  <2> SUFFICES ASSUME IInv, NEW cell \in MeasuredCells, Untouched(cell.identity),
                      \A t \in Times(Samples(cell), Denials) : t < issued[Latest(cell.identity)].expires,
                      Observed(Samples(cell))
               PROVE  FALSE
    BY MeasurementSays DEF NoTransitionWithoutCause, Untouched
  <2>1. PICK j \in Samples(cell), k \in Samples(cell) :
          observations[j].outcome = "ALLOWED" /\ observations[k].outcome \in Denials
    BY DEF Observed, LaterDenials, Times, With
  <2>2. observations[k].time < issued[Latest(cell.identity)].expires
    BY <2>1 DEF Times, With
  <2>3. ASSUME NEW n \in Samples(cell)
        PROVE  IF observations[n].alive
               THEN observations[n].outcome \in {"ERROR_TRANSIENT", Evaluate(Initial(cell.identity), cell.identity, cell.capability)}
               ELSE observations[n].outcome \in {"ERROR_TRANSIENT", "DENIED_IMPLICIT"}
                      /\ issued[Latest(cell.identity)].expires <= observations[n].time
    BY RowsAreTaken DEF IInv, UntouchedInv, Told
  <2>4. Evaluate(Initial(cell.identity), cell.identity, cell.capability) = "ALLOWED"
    BY <2>1, <2>3
  <2>5. issued[Latest(cell.identity)].expires <= observations[k].time
    BY <2>1, <2>3, <2>4 DEF Denials
  <2>6. issued[Latest(cell.identity)].expires \in Nat /\ observations[k].time \in Nat
    <3>1. cell.identity \in Identities /\ observations[k].time \in Nat
      BY RowsAreTaken
    <3>2. pc # "materialize"
      BY DEF IInv, SamplesInv, Samples
    <3>3. Latest(cell.identity) \in DOMAIN issued
      BY <3>1, <3>2 DEF IInv, PlaceInv, Owned
    <3>4. issued \in Seq(SessionRecord)
      BY DEF IInv, ProviderTypeOK, SessionRecord
    <3>5. issued[Latest(cell.identity)] \in SessionRecord
      BY <3>3, <3>4
    <3>6. QED
      BY <3>1, <3>5 DEF SessionRecord
  <2>7. QED
    BY <2>2, <2>5, <2>6
<1>2. QED
  BY Invariance, <1>1, PTL



-----------------------------------------------------------------------------
\* The first and the last of a set of times, or of positions.

\* A set of naturals has a least element.
LEMMA LeastNatural ==
  ASSUME NEW S \in SUBSET Nat, S # {}
  PROVE  \E n \in S : \A m \in S : n <= m
<1> DEFINE R == OpToRel(<, Nat)
<1>1. IsWellFoundedOn(R, Nat)
  BY NatLessThanWellFounded, Zenon
<1>2. \A x, y \in Nat : y < x => <<y, x>> \in R
  BY DEF OpToRel
<1> HIDE DEF R
<1>3. PICK x \in S : \A y \in S : ~(<<y, x>> \in R)
  BY <1>1, WFMin
<1>4. \A y \in S : ~(y < x)
  BY <1>2, <1>3
<1>5. \A y \in S : x <= y
  BY <1>4
<1>6. QED
  BY <1>5

\* A bounded set of naturals has a greatest one.
LEMMA GreatestNatural ==
  ASSUME NEW S \in SUBSET Nat, S # {}, NEW b \in Nat, \A n \in S : n <= b
  PROVE  \E n \in S : \A m \in S : m <= n
<1> DEFINE below == {b - n : n \in S}
<1>1. below \in SUBSET Nat /\ below # {}
  <2>1. \A n \in S : b - n \in Nat
    OBVIOUS
  <2>2. \A x \in below : x \in Nat
    BY <2>1
  <2>3. \E n \in S : b - n \in below
    BY Zenon
  <2>4. QED
    BY <2>2, <2>3
<1>2. PICK l \in below : \A m \in below : l <= m
  BY <1>1, LeastNatural
<1>3. PICK n \in S : l = b - n
  OBVIOUS
<1>4. \A m \in S : b - m \in below
  BY Zenon
<1>5. \A m \in S : b - n <= b - m
  BY <1>2, <1>3, <1>4
<1>6. \A m \in S : m <= n
  BY <1>5
<1>7. QED
  BY <1>6

\* The times of a set of rows have a last and, of those after it, a first.
LEMMA Extremes ==
  ASSUME IInv, NEW cell \in MeasuredCells, Times(Samples(cell), {"ALLOWED"}) # {}
  PROVE  /\ LastAllow(Samples(cell)) \in Times(Samples(cell), {"ALLOWED"})
         /\ \A t \in Times(Samples(cell), {"ALLOWED"}) : t <= LastAllow(Samples(cell))
         /\ LaterDenials(Samples(cell)) # {} => FirstDeny(Samples(cell)) \in LaterDenials(Samples(cell))
<1> DEFINE allows == Times(Samples(cell), {"ALLOWED"})
           denials == LaterDenials(Samples(cell))
<1>1. allows \in SUBSET Nat /\ denials \in SUBSET Nat /\ \A t \in allows : t <= clock
  BY RowsAreTaken DEF Times, With, LaterDenials
<1>2. clock \in Nat
  BY DEF IInv, ProviderTypeOK
<1>3. LastAllow(Samples(cell)) = Max(allows) /\ FirstDeny(Samples(cell)) = Min(denials)
  BY DEF LastAllow, FirstDeny
<1> HIDE DEF allows, denials
<1>4. \E n \in allows : \A m \in allows : n >= m
  <2>1. allows # {}
    BY DEF allows
  <2>2. PICK n \in allows : \A m \in allows : m <= n
    BY <1>1, <1>2, <2>1, GreatestNatural
  <2>3. QED
    BY <1>1, <2>2
<1>5. Max(allows) \in allows /\ \A t \in allows : Max(allows) >= t
  BY <1>4 DEF Max
<1>6. denials # {} => Min(denials) \in denials
  <2> SUFFICES ASSUME denials # {} PROVE Min(denials) \in denials
    OBVIOUS
  <2>1. PICK n \in denials : \A m \in denials : n <= m
    BY <1>1, LeastNatural
  <2>2. QED
    BY <2>1 DEF Min
<1>7. \A t \in allows : t <= Max(allows)
  BY <1>1, <1>5
<1>8. QED
  BY <1>3, <1>5, <1>6, <1>7 DEF allows, denials


-----------------------------------------------------------------------------
\* F5: the reported window brackets the instant at which the mutation took effect.

\* A denied capability is denied once the mutation shows, or the kind of mutation
\* does not touch the policy.
LEMMA DeniedOnceShown ==
  ASSUME NEW i, NEW m, NEW c \in m.denies
  PROVE  \/ Evaluate(Mutated(Initial(i), m), i, c) # "ALLOWED"
         \/ Mutated(Initial(i), m) = Initial(i)
<1> DEFINE p == Mutated(Initial(i), m)
<1>1. CASE m.kind = "ATTACH_INLINE_DENY"
  <2>1. c \in p.deny
    BY <1>1 DEF Mutated, Initial
  <2> HIDE DEF p
  <2>2. Evaluate(p, i, c) # "ALLOWED"
    BY <2>1 DEF Evaluate
  <2>3. QED
    BY <2>2 DEF p
<1>2. CASE m.kind = "REMOVE_INLINE_POLICY"
  <2>1. c \notin p.allow
    BY <1>2 DEF Mutated, Initial
  <2> HIDE DEF p
  <2>2. Evaluate(p, i, c) # "ALLOWED"
    BY <2>1 DEF Evaluate
  <2>3. QED
    BY <2>2 DEF p
<1>3. CASE m.kind = "REPLACE_INLINE_POLICY"
  <2>1. c \in p.deny
    BY <1>3 DEF Mutated
  <2> HIDE DEF p
  <2>2. Evaluate(p, i, c) # "ALLOWED"
    BY <2>1 DEF Evaluate
  <2>3. QED
    BY <2>2 DEF p
<1>4. CASE m.kind \notin {"ATTACH_INLINE_DENY", "REMOVE_INLINE_POLICY", "REPLACE_INLINE_POLICY"}
  BY <1>4 DEF Mutated
<1>5. QED
  BY <1>1, <1>2, <1>3, <1>4

\* Of a clean cell, an allowed row comes before the mutation or before it settled,
\* and a denied one after both, if the cell was ever allowed.
LEMMA CleanRows ==
  ASSUME IInv, NEW cell \in MeasuredCells, Clean(cell),
         NEW a \in Samples(cell), observations[a].outcome = "ALLOWED",
         NEW d \in Samples(cell), observations[d].outcome \in Denials
  PROVE  /\ \/ observations[a].at <= mutations[1].at /\ observations[a].time <= MutationSent
            \/ observations[a].time < pending[cell.identity].settle
         /\ observations[d].at > mutations[1].at
         /\ pending[cell.identity].settle <= observations[d].time
<1> DEFINE i == cell.identity
           n == mutations[1].at
           m == plan[mutations[1].at].mutation
           before == Evaluate(Initial(cell.identity), cell.identity, cell.capability)
           after == Evaluate(Mutated(Initial(cell.identity), plan[mutations[1].at].mutation), cell.identity, cell.capability)
<1>1. mutations # <<>> /\ Mutations = {n} /\ n \in Mutations /\ mutations[1].target = i /\ pending[i].shown = {}
  BY DEF MeasuredCells, Clean
<1>2. 1 \in DOMAIN mutations
  <2>1. mutations \in Seq(MutationRecord)
    BY DEF IInv, MutationsInv
  <2>2. QED
    BY <1>1, <2>1
<1>3. plan[n].target = i /\ n \in Nat
  <2>1. mutations[1] \in MutationRecord
    <3>1. mutations \in Seq(MutationRecord)
      BY DEF IInv, MutationsInv
    <3>2. QED
      BY <1>2, <3>1
  <2>2. QED
    BY <1>1, <1>2, <2>1 DEF IInv, MutationsInv, MutationRecord
<1>4. after # "ALLOWED" \/ after = before
  BY DeniedOnceShown DEF Clean
<1>5. i \in Identities
  BY RowsAreTaken
<1>6. pending[i].settle \in Nat
  <2>1. pending[i] \in [pre : Policy, settle : Nat, shown : SUBSET Nat]
    BY <1>5 DEF IInv, ProviderTypeOK
  <2>2. QED
    BY <2>1
<1>7. ASSUME NEW k \in Samples(cell)
      PROVE  /\ observations[k].time \in Nat /\ observations[k].at \in Nat
             /\ IF observations[k].at <= n
                THEN observations[k].outcome \in {"ERROR_TRANSIENT", before} /\ observations[k].time <= MutationSent
                ELSE observations[k].outcome \in
                       {"ERROR_TRANSIENT", IF pending[i].settle <= observations[k].time THEN after ELSE before}
  <2>1. /\ k \in DOMAIN Taken /\ Taken[k] = observations[k] /\ observations[k].alive
        /\ observations[k].identity = i /\ observations[k].capability = cell.capability
        /\ observations[k].time \in Nat /\ observations[k].at \in Nat
    BY RowsAreTaken DEF Clean
  <2>2. IF observations[k].at <= n
        THEN Told(observations[k], Initial(i)) /\ observations[k].time <= mutations[1].sent
        ELSE Told(observations[k], Seen(i, m, observations[k]))
    BY <1>1, <1>3, <2>1 DEF IInv, SoleInv
  <2>3. QED
    BY <2>1, <2>2 DEF Told, Seen, MutationSent
<1> HIDE DEF i, n, m, before, after
<1>8. "ALLOWED" \notin Denials /\ "ERROR_TRANSIENT" \notin Denials
  BY DEF Denials
<1>9. before = "ALLOWED"
  BY <1>4, <1>7
<1>10. after \in Denials /\ after # "ALLOWED" /\ ~(observations[d].at <= n) /\ pending[i].settle <= observations[d].time
  BY <1>7, <1>8, <1>9, <1>4
<1>11. observations[a].at <= n \/ ~(pending[i].settle <= observations[a].time)
  BY <1>7, <1>10
<1>12. /\ \/ observations[a].at <= n /\ observations[a].time <= MutationSent
          \/ observations[a].time < pending[i].settle
       /\ observations[d].at > n
  BY <1>3, <1>6, <1>7, <1>10, <1>11 DEF n
<1>13. QED
  BY <1>10, <1>12 DEF i, n


\* Whatever the delays, the oscillations, the pacing and the plan, the window
\* reported of a clean cell holds the instant its mutation took effect, and a
\* transition that fell between an allowed poll and a later denied one is reported.
THEOREM WindowTrue == Spec => []WindowIsTrue
<1>1. IInv => WindowIsTrue
  <2> SUFFICES ASSUME IInv, NEW cell \in MeasuredCells, Clean(cell)
               PROVE  LET m == Measurement(Samples(cell))
                          settled == pending[cell.identity].settle
                      IN  /\ m.transition_observed =>
                               /\ m.low <= 0 \/ MutationSent + m.low < settled
                               /\ settled <= MutationSent + m.high
                          /\ /\ Times(Samples(cell), {"ALLOWED"}) # {}
                             /\ \E t \in Times(Samples(cell), Denials) : t >= settled
                             => m.transition_observed
    BY DEF WindowIsTrue
  <2> DEFINE rows == Samples(cell)
             settled == pending[cell.identity].settle
  <2>1. /\ MutationSent \in Nat /\ mutations[1].at \in Nat /\ settled \in Nat
    <3>1. mutations # <<>> /\ mutations \in Seq(MutationRecord)
      BY DEF MeasuredCells, IInv, MutationsInv
    <3>2. mutations[1] \in MutationRecord
      BY <3>1
    <3>3. cell.identity \in Identities
      <4>1. PICK k \in DOMAIN observations : cell.identity = observations[k].identity
        BY DEF MeasuredCells
      <4>2. observations[k].identity \in Identities
        BY TakenShape, TakenTyped DEF IInv, SamplesInv
      <4>3. QED
        BY <4>1, <4>2
    <3>4. pending[cell.identity] \in [pre : Policy, settle : Nat, shown : SUBSET Nat]
      BY <3>3 DEF IInv, ProviderTypeOK
    <3>5. QED
      BY <3>2, <3>4 DEF MutationSent, MutationRecord
  <2>2. ASSUME NEW k \in rows
        PROVE  observations[k].time \in Nat /\ observations[k].at \in Nat /\ k \in Nat
    BY RowsAreTaken
  <2>3. ASSUME Observed(rows)
        PROVE  /\ LastAllow(rows) - MutationSent <= 0 \/ MutationSent + (LastAllow(rows) - MutationSent) < settled
               /\ settled <= MutationSent + (FirstDeny(rows) - MutationSent)
    <3>1. LastAllow(rows) \in Times(rows, {"ALLOWED"}) /\ FirstDeny(rows) \in LaterDenials(rows)
      BY <2>3, Extremes DEF Observed
    <3>2. PICK a \in rows : observations[a].outcome = "ALLOWED" /\ observations[a].time = LastAllow(rows)
      BY <3>1 DEF Times, With
    <3>3. PICK d \in rows : observations[d].outcome \in Denials /\ observations[d].time = FirstDeny(rows)
      BY <3>1 DEF LaterDenials, Times, With
    <3>4. /\ LastAllow(rows) <= MutationSent \/ LastAllow(rows) < settled
          /\ settled <= FirstDeny(rows)
      BY <3>2, <3>3, CleanRows
    <3>5. LastAllow(rows) \in Nat /\ FirstDeny(rows) \in Nat
      BY <2>2, <3>2, <3>3
    <3> HIDE DEF rows, settled
    <3>6. QED
      BY <2>1, <3>4, <3>5
  <2>4. ASSUME Times(rows, {"ALLOWED"}) # {}, NEW t \in Times(rows, Denials)
        PROVE  Observed(rows)
    <3>1. PICK a \in rows : observations[a].outcome = "ALLOWED" /\ observations[a].time = LastAllow(rows)
      BY <2>4, Extremes DEF Times, With
    <3>2. PICK d \in rows : observations[d].outcome \in Denials /\ observations[d].time = t
      BY <2>4 DEF Times, With
    <3>3. /\ \/ observations[a].at <= mutations[1].at /\ observations[a].time <= MutationSent
             \/ observations[a].time < settled
          /\ observations[d].at > mutations[1].at /\ settled <= observations[d].time
      BY <3>1, <3>2, CleanRows
    <3>4. a < d => observations[a].time < observations[d].time
      BY RowsAreTaken DEF IInv, TimesInv
    <3>5. d < a => observations[d].at <= observations[a].at
      BY RowsAreTaken DEF IInv, TimesInv
    <3>6. a # d
      BY <3>1, <3>2 DEF Denials
    <3>7. /\ observations[a].time \in Nat /\ observations[a].at \in Nat /\ a \in Nat
          /\ observations[d].time \in Nat /\ observations[d].at \in Nat /\ d \in Nat
      BY <2>2
    <3>8. observations[a].time < observations[d].time
      <4>1. CASE observations[a].time < settled
        <5> HIDE DEF settled
        <5>1. QED
          BY <2>1, <3>3, <3>7, <4>1
      <4>2. CASE observations[a].at <= mutations[1].at
        BY <2>1, <3>3, <3>4, <3>5, <3>6, <3>7, <4>2
      <4>3. QED
        BY <3>3, <4>1, <4>2
    <3>9. t \in LaterDenials(rows)
      BY <3>1, <3>2, <3>7, <3>8 DEF LaterDenials
    <3>10. QED
      BY <2>4, <3>9 DEF Observed
  <2>5. QED
    BY <2>3, <2>4, MeasurementSays
<1>2. QED
  BY Invariance, <1>1, PTL


-----------------------------------------------------------------------------
\* An oscillation is disclosed.

\* Between a row that allows and one that denies, some definite row differs from
\* the definite row before it.
LEMMA ChangeBetween ==
  ASSUME NEW rows \in SUBSET Nat,
         NEW j \in With(rows, Denials \union {"ALLOWED"}), NEW k \in With(rows, Denials \union {"ALLOWED"}),
         j < k, (observations[j].outcome = "ALLOWED") # (observations[k].outcome = "ALLOWED")
  PROVE  \E p \in Changes(rows) : j < p /\ p <= k
<1> DEFINE definite == With(rows, Denials \union {"ALLOWED"})
           allowed(n) == observations[n].outcome = "ALLOWED"
           like == {p \in definite : j < p /\ p <= k /\ (allowed(p) <=> allowed(k))}
<1>1. definite \in SUBSET Nat /\ j \in definite /\ k \in definite
  BY DEF With
<1>2. k \in like /\ like \in SUBSET Nat
  BY <1>1
<1>3. PICK p \in like : \A q \in like : p <= q
  BY <1>1, <1>2, LeastNatural
<1> DEFINE before == {q \in definite : q < p}
<1>4. j \in before /\ before \in SUBSET Nat /\ p \in Nat /\ \A q \in before : q <= p
  <2>1. p \in Nat /\ p \in definite /\ j < p
    BY <1>1, <1>3
  <2>2. \A q \in before : q \in definite /\ q < p
    OBVIOUS
  <2>3. j \in before
    BY <1>1, <2>1
  <2> HIDE DEF before, definite, like
  <2>4. \A q \in before : q \in Nat
    BY <1>1, <2>2
  <2>5. \A q \in Nat : q < p => q <= p
    BY <2>1
  <2>6. QED
    BY <2>1, <2>2, <2>3, <2>4, <2>5
<1>5. PICK q \in before : \A n \in before : n <= q
  BY <1>4, GreatestNatural
<1>6. j <= q
  BY <1>4, <1>5
<1>7. allowed(q) # allowed(p)
  <2>1. CASE q = j
    BY <1>3, <2>1
  <2>2. CASE q # j
    <3>1. j < q /\ q <= k /\ ~(p <= q)
      BY <1>1, <1>3, <1>4, <1>5, <1>6, <2>2
    <3>2. q \notin like
      BY <1>3, <3>1
    <3>3. QED
      BY <1>3, <1>5, <3>1, <3>2
  <2>3. QED
    BY <2>1, <2>2
<1>8. q < p /\ \A n \in definite : n <= q \/ p <= n
  BY <1>1, <1>4, <1>5
<1>9. p \in Changes(rows)
  BY <1>3, <1>5, <1>7, <1>8 DEF Changes
<1>10. QED
  BY <1>3, <1>9

\* A denial that an allow follows before the reported transition shows in the
\* note of the report, whatever the plan and the oscillation.
THEOREM FlipFlop == Spec => []FlipFlopDisclosed
<1>1. IInv => FlipFlopDisclosed
  <2> SUFFICES ASSUME IInv, NEW cell \in MeasuredCells, Observed(Samples(cell)),
                      NEW j \in With(Samples(cell), Denials), NEW k \in With(Samples(cell), {"ALLOWED"}), j < k
               PROVE  NonMonotonic(Samples(cell))
    BY MeasurementSays DEF FlipFlopDisclosed
  <2>1. PICK d \in With(Samples(cell), Denials) : observations[d].time > LastAllow(Samples(cell))
    BY DEF Observed, LaterDenials, Times
  <2>2. observations[k].time <= LastAllow(Samples(cell)) /\ LastAllow(Samples(cell)) \in Nat
    <3>1. observations[k].time \in Times(Samples(cell), {"ALLOWED"})
      BY DEF Times
    <3>2. PICK a \in Samples(cell) : observations[a].time = LastAllow(Samples(cell))
      BY <3>1, Extremes DEF Times, With
    <3>3. QED
      BY <3>1, <3>2, Extremes, RowsAreTaken
  <2>3. j \in Samples(cell) /\ k \in Samples(cell) /\ d \in Samples(cell)
    BY DEF With
  <2>4. k < d
    <3>1. /\ d \in Nat /\ k \in Nat /\ observations[d].time \in Nat /\ observations[k].time \in Nat
      BY <2>3, RowsAreTaken
    <3>2. d < k => observations[d].time < observations[k].time
      BY <2>3, RowsAreTaken DEF IInv, TimesInv
    <3>3. d # k
      BY DEF With, Denials
    <3>4. QED
      BY <2>1, <2>2, <3>1, <3>2, <3>3
  <2>5. /\ observations[j].outcome # "ALLOWED" /\ observations[k].outcome = "ALLOWED" /\ observations[d].outcome # "ALLOWED"
        /\ {j, k, d} \subseteq With(Samples(cell), Denials \union {"ALLOWED"})
    BY DEF With, Denials
  <2>6. Samples(cell) \in SUBSET Nat /\ Samples(cell) \subseteq 1 .. Len(observations) /\ Len(observations) \in Nat
    <3>1. DOMAIN observations = 1 .. Len(observations) /\ Len(observations) \in Nat
      BY TakenShape DEF IInv, SamplesInv
    <3>2. QED
      BY <3>1 DEF Samples
  <2>7. PICK p \in Changes(Samples(cell)) : p <= k
    BY <2>5, <2>6, ChangeBetween
  <2>8. PICK q \in Changes(Samples(cell)) : k < q
    BY <2>4, <2>5, <2>6, ChangeBetween
  <2>9. Changes(Samples(cell)) \subseteq Samples(cell)
    BY DEF Changes, With
  <2>10. p # q
    BY <2>3, <2>6, <2>7, <2>8, <2>9
  <2>11. IsFiniteSet(Changes(Samples(cell)))
    <3>1. IsFiniteSet(1 .. Len(observations))
      BY <2>6, FS_Interval
    <3>2. Changes(Samples(cell)) \in SUBSET (1 .. Len(observations))
      BY <2>6, <2>9
    <3>3. QED
      BY <3>1, <3>2, FS_Subset
  <2>12. Cardinality({p, q}) = 2 /\ Cardinality({p, q}) <= Cardinality(Changes(Samples(cell)))
    <3>1. IsFiniteSet({p}) /\ Cardinality({p}) = 1
      BY FS_Singleton
    <3>2. Cardinality({p} \cup {q}) = 2
      BY <2>10, <3>1, FS_AddElement
    <3>3. {p} \cup {q} = {p, q}
      OBVIOUS
    <3>4. {p, q} \in SUBSET Changes(Samples(cell))
      BY <2>7, <2>8
    <3>5. QED
      BY <2>11, <3>2, <3>3, <3>4, FS_Subset
  <2>13. Cardinality(Changes(Samples(cell))) \in Nat
    BY <2>11, FS_CardinalityType
  <2>14. QED
    BY <2>12, <2>13 DEF NonMonotonic
<1>2. QED
  BY Invariance, <1>1, PTL

=============================================================================
