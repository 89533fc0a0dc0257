----------------------------- MODULE PollWindow -----------------------------
(***************************************************************************)
(* Measuring a revocation: the POLL, MUTATE and WAIT branches of           *)
(* orchestrate() with polling.py, and what analysis/pipeline.py and        *)
(* timing.py make of the polls.                                            *)
(*                                                                         *)
(* A poll phase advances the fake provider's virtual clock, or, against a  *)
(* real provider, lets the run's own clock go on.  Its observations reach  *)
(* the bundle only when the phase is over.                                 *)
(***************************************************************************)
EXTENDS FakeProvider

CONSTANTS
  Plans,      (* compiled plans                                             *)
  Pacings,    (* "virtual": the adapter has advance_clock; "real": it has   *)
              (* not and the run clock paces the polls                      *)
  Deadline,   (* a real run's max_duration_seconds                          *)
  RoundTrips, (* how long a probe of a real provider may take               *)
  MaxFaults   (* bound: transient errors of one run                         *)

VARIABLES
  pc,            (* where the run stands                                    *)
  pacing,        (* which of Pacings this run's adapter is                  *)
  plan, at,      (* compiled.plan and the current phase                     *)
  streak,        (* consecutive: polls in a row that match stop_on          *)
  elapsed,       (* elapsed_ms: nominal time polled in this phase           *)
  polls,         (* observations of the phase in progress                   *)
  observations,  (* observations.jsonl, the POST_MUTATION rows              *)
  mutations,     (* POLICY_MUTATION_APPLIED events                          *)
  stops          (* POLL_STOPPED events                                     *)

run == <<pc, pacing, plan, at, streak, elapsed, polls, observations, mutations, stops>>
vars == <<provider, run>>

ASSUME PollConstants ==
  Pacings \subseteq {"virtual", "real"} /\ Deadline \in Nat /\ MaxFaults \in Nat
  /\ RoundTrips \subseteq Nat \ {0}

PlanPhase ==
  [kind : {"POLL"}, target : Identities, capability : Capabilities, interval : Nat \ {0},
   max_duration : Nat \ {0}, stop_on : {"STABLE_DENIAL", "STABLE_ALLOW", "TIMEOUT"},
   stability_count : Nat \ {0}]
  \union [kind : {"MUTATE"}, target : Identities,
          mutation : [kind : STRING, denies : SUBSET Capabilities, grants : SUBSET Capabilities]]
  \union [kind : {"WAIT"}, ticks : Nat]

ASSUME PlansAreCompiled == \A p \in Plans : p \in Seq(PlanPhase)

Phase == plan[at]
Running(kind) == at \in DOMAIN plan /\ Phase.kind = kind

Init ==
  /\ ProviderInit
  /\ plan \in Plans
  /\ pacing \in Pacings
  /\ pc = "materialize" /\ at = 1
  /\ streak = 0 /\ elapsed = 0
  /\ polls = <<>> /\ observations = <<>> /\ mutations = <<>> /\ stops = {}

Materialize ==
  /\ pc = "materialize"
  /\ issued' = [k \in DOMAIN Edges |-> Session(Edges[k])]
  /\ pc' = "phase"
  /\ UNCHANGED <<clock, policy, revoked, pending, caching, blocked>>
  /\ UNCHANGED <<pacing, plan, at, streak, elapsed, polls, observations, mutations, stops>>

EndPhase == pc' = "phase" /\ at' = at + 1

(* RunClock.check: a real run's clock is the one its polls are timed by; a  *)
(* virtual run's deadline has nothing to do with its virtual clock.         *)
InTime == pacing = "virtual" \/ clock < Deadline

DeadlineRaises ==
  /\ pc \in {"phase", "pace", "judge"} /\ at \in DOMAIN plan
  /\ pacing = "virtual" \/ clock >= Deadline
  /\ pc' = "aborted"
  /\ UNCHANGED <<provider, pacing, plan, at, streak, elapsed, polls, observations, mutations, stops>>

-----------------------------------------------------------------------------

StartPoll ==
  /\ pc = "phase" /\ Running("POLL") /\ InTime
  /\ pc' = "pace"
  /\ streak' = 0 /\ elapsed' = 0 /\ polls' = <<>>
  /\ UNCHANGED <<provider, pacing, plan, at, observations, mutations, stops>>

(* advance_clock(interval_ms).                                              *)
PaceVirtual ==
  /\ pc = "pace" /\ pacing = "virtual"
  /\ AdvanceClock(Phase.interval)
  /\ pc' = "probe"
  /\ UNCHANGED <<pacing, plan, at, streak, elapsed, polls, observations, mutations, stops>>

(* With a run clock and at least an interval left, the loop only checks.    *)
PaceReal ==
  /\ pc = "pace" /\ pacing = "real"
  /\ clock + Phase.interval <= Deadline
  /\ pc' = "probe"
  /\ UNCHANGED <<provider, pacing, plan, at, streak, elapsed, polls, observations, mutations, stops>>

(* With less than an interval left it sleeps to the deadline and raises.    *)
PaceToDeadline ==
  /\ pc = "pace" /\ pacing = "real"
  /\ clock < Deadline /\ clock + Phase.interval > Deadline
  /\ AdvanceClock(Deadline - clock)
  /\ pc' = "aborted"
  /\ UNCHANGED <<pacing, plan, at, streak, elapsed, polls, observations, mutations, stops>>

Denials == {"DENIED_EXPLICIT", "DENIED_IMPLICIT"}

(* A TIMEOUT poll has no target and never stabilises.                       *)
MatchesTarget(outcome) ==
  CASE Phase.stop_on = "STABLE_ALLOW" -> outcome = "ALLOWED"
    [] Phase.stop_on = "STABLE_DENIAL" -> outcome \in Denials
    [] OTHER -> FALSE

Errors(rows) == {k \in DOMAIN rows : rows[k].outcome = "ERROR_TRANSIENT"}
Faulty == Cardinality(Errors(observations)) + Cardinality(Errors(polls)) < MaxFaults

Sample(outcome) ==
  [at |-> at, identity |-> Phase.target, capability |-> Phase.capability, time |-> clock,
   outcome |-> outcome, alive |-> Live(Latest(Phase.target))]

Answers ==
  {Answer(Phase.target, Phase.capability)} \union (IF Faulty THEN {"ERROR_TRANSIENT"} ELSE {})

Probed(outcome) ==
  /\ polls' = Append(polls, Sample(outcome))
  /\ elapsed' = elapsed + Phase.interval
  /\ pc' = "judge"

(* Mutant: a poll that does not match leaves the streak as it was.          *)
PollKeepsStreak ==
  /\ pc = "probe"
  /\ \E outcome \in Answers :
       /\ Probed(outcome)
       /\ streak' = IF MatchesTarget(outcome) THEN streak + 1 ELSE streak
  /\ \E rtt \in IF pacing = "real" THEN RoundTrips ELSE {0} : AdvanceClock(rtt)
  /\ UNCHANGED <<pacing, plan, at, observations, mutations, stops>>

Poll ==
  /\ pc = "probe"
  /\ \E outcome \in Answers :
       /\ Probed(outcome)
       /\ streak' = IF MatchesTarget(outcome) THEN streak + 1 ELSE 0
  /\ \E rtt \in IF pacing = "real" THEN RoundTrips ELSE {0} : AdvanceClock(rtt)
  /\ UNCHANGED <<pacing, plan, at, observations, mutations, stops>>

Stable == streak >= Phase.stability_count
TimedOut == elapsed >= Phase.max_duration

(* The observations and the POLL_STOPPED event are written at the end.      *)
StopPoll(reason) ==
  /\ observations' = observations \o polls
  /\ stops' = stops \union {[at |-> at, stop_reason |-> reason, poll_count |-> Len(polls)]}
  /\ polls' = <<>> /\ streak' = 0 /\ elapsed' = 0
  /\ EndPhase
  /\ UNCHANGED <<provider, pacing, plan, mutations>>

StopStable == pc = "judge" /\ InTime /\ Stable /\ StopPoll(Phase.stop_on)

StopTimeout == pc = "judge" /\ InTime /\ ~Stable /\ TimedOut /\ StopPoll("TIMEOUT")

(* Mutant: the loop gives up only after the duration has been exceeded.     *)
PollAgainLate ==
  /\ pc = "judge" /\ InTime
  /\ ~Stable /\ elapsed <= Phase.max_duration
  /\ pc' = "pace"
  /\ UNCHANGED <<provider, pacing, plan, at, streak, elapsed, polls, observations, mutations, stops>>

PollAgain ==
  /\ pc = "judge" /\ InTime
  /\ ~Stable /\ ~TimedOut
  /\ pc' = "pace"
  /\ UNCHANGED <<provider, pacing, plan, at, streak, elapsed, polls, observations, mutations, stops>>

-----------------------------------------------------------------------------

MutatePhase ==
  /\ pc = "phase" /\ Running("MUTATE") /\ InTime
  /\ Mutate(Phase.target, Phase.mutation)
  /\ mutations' = Append(mutations, [at |-> at, target |-> Phase.target, sent |-> clock])
  /\ EndPhase
  /\ UNCHANGED <<pacing, plan, streak, elapsed, polls, observations, stops>>

(* A real wait that would reach the deadline sleeps up to it, and the check *)
(* after it raises.                                                         *)
WaitPhase ==
  /\ pc = "phase" /\ Running("WAIT") /\ InTime
  /\ IF pacing = "virtual" \/ clock + Phase.ticks < Deadline
     THEN AdvanceClock(Phase.ticks) /\ EndPhase
     ELSE AdvanceClock(Deadline - clock) /\ pc' = "aborted" /\ at' = at
  /\ UNCHANGED <<pacing, plan, streak, elapsed, polls, observations, mutations, stops>>

Complete ==
  /\ pc = "phase" /\ at = Len(plan) + 1
  /\ pc' = "completed"
  /\ UNCHANGED <<provider, pacing, plan, at, streak, elapsed, polls, observations, mutations, stops>>

Next ==
  \/ Materialize \/ DeadlineRaises
  \/ StartPoll \/ PaceVirtual \/ PaceReal \/ PaceToDeadline
  \/ Poll \/ StopStable \/ StopTimeout \/ PollAgain
  \/ MutatePhase \/ WaitPhase \/ Complete

Spec == Init /\ [][Next]_vars

=============================================================================
