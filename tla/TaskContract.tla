---------------------------- MODULE TaskContract ----------------------------
(***************************************************************************)
(* The task phases of one run: a worker drives its declared steps through  *)
(* the runner's invoker, the runner decides from its own invocation log    *)
(* what was substituted and whether the output exists, and the analysis    *)
(* compares the recorded outcomes with the task's completion contract.     *)
(* Two phases may name the same task, and so share its output marker.      *)
(***************************************************************************)
EXTENDS Naturals, Sequences, FiniteSets, SequencesExt

CONSTANTS
    Plans,          \* the TaskPlans a scenario may compile to
    Providers,      \* the adapters a run may use
    Checkable,      \* outputs the AWS adapter can look up: the two scratch writes
    MaxExecutions   \* TASK phases of the run that name the task

Whoami == "identity.whoami"             \* _SUBSTITUTE_CAPABILITY
Redelegate == "identity.delegate"       \* _REDELEGATE_CAPABILITY
Workers == {"sequential", "always-complete", "substituting", "redelegating"}

ASSUME PlansHaveSteps ==
    /\ \A p \in Plans :
          /\ p.worker \in Workers
          /\ p.steps \in Seq([use : STRING, on_failure : {"continue", "abort", "retry"}]) \ {<<>>}
    /\ MaxExecutions \in Nat \ {0}

ASSUME ProvidersKnown == Providers \subseteq {"fake", "aws"}

VARIABLES
    provider,   \* which adapter the run uses
    plan,       \* the TaskPlan
    written,    \* capabilities whose call took effect at the provider
    marker,     \* the fake's _scratch_markers has the task's marker
    work,       \* run_task under way: the worker's locals and the invoker's log
    outcomes,   \* TASK_OUTCOME_RECORDED events
    findings    \* task_contract_findings, per outcome

vars == <<provider, plan, written, marker, work, outcomes, findings>>

Steps == plan.steps
Total == Len(Steps)
Output == Steps[Total].use      \* output_capability: that of the last step
Step == Steps[work.k]

Fresh == [pc |-> "start", k |-> 1, retried |-> FALSE, log |-> <<>>, attempts |-> 0,
          succeeded |-> 0, insufficient |-> FALSE, wrote |-> FALSE]

Init ==
    /\ provider \in Providers
    /\ plan \in Plans
    /\ written = {}
    /\ marker = FALSE
    /\ work = Fresh
    /\ outcomes = <<>>
    /\ findings = {}

---------------------------------------------------------------------------
\* What the worker asks for at its k-th step, and what it makes of a failure.
Intended(k) == IF plan.worker = "substituting" /\ k = Total THEN Whoami ELSE Steps[k].use
Retries(step) == plan.worker = "sequential" /\ step.on_failure = "retry"
Aborts(step) == plan.worker = "sequential" /\ step.on_failure = "abort"

\* mutant: a retried step is retried again
RetriesForever(ok) == ~ok /\ Retries(Step)

MayRetry(ok) == ~ok /\ Retries(Step) /\ ~work.retried

After(ok, log, attempts) ==
    IF MayRetry(ok)
    THEN [work EXCEPT !.retried = TRUE, !.log = log, !.attempts = attempts]
    ELSE [pc |-> IF work.k = Total \/ (~ok /\ Aborts(Step)) THEN "returned" ELSE "step",
          k |-> IF work.k = Total THEN Total ELSE work.k + 1,
          retried |-> FALSE,
          log |-> log,
          attempts |-> attempts,
          succeeded |-> work.succeeded + (IF ok THEN 1 ELSE 0),
          insufficient |-> work.insufficient \/ ~ok,
          wrote |-> ok /\ work.k = Total]

\* The worker's first move: the redelegating one asks for identity.delegate, which
\* the invoker counts and refuses, and the always-complete one just returns.
Start ==
    /\ work.pc = "start"
    /\ work' = [work EXCEPT
                    !.pc = IF plan.worker = "always-complete" THEN "returned" ELSE "step",
                    !.attempts = IF plan.worker = "redelegating" THEN 1 ELSE 0]
    /\ UNCHANGED <<provider, plan, written, marker, outcomes, findings>>

\* The invoker sends every other capability to adapter.probe.  A call may take
\* effect and yet not be classified as allowed: an AWS write probe reads its write
\* back, and that second call may fail.
Logged(c, ok) == Append(work.log, [use |-> c, ok |-> ok])

Effects(c, ok) ==
    IF ok THEN {written \cup {c}}
    ELSE IF provider = "aws" /\ c \in Checkable THEN {written, written \cup {c}}
    ELSE {written}

InvokeStep(ok) ==
    /\ work.pc = "step"
    /\ LET c == Intended(work.k)
       IN  /\ c # Redelegate
           /\ written' \in Effects(c, ok)
           /\ work' = After(ok, Logged(c, ok), work.attempts)
    /\ UNCHANGED <<provider, plan, marker, outcomes, findings>>

\* A declared identity.delegate step is refused like any other redelegation, and is
\* not in the invocation log.
RefuseStep ==
    /\ work.pc = "step"
    /\ Intended(work.k) = Redelegate
    /\ work' = After(FALSE, work.log, work.attempts + 1)
    /\ UNCHANGED <<provider, plan, written, marker, outcomes, findings>>

\* A probe or the verification raises: the run aborts, this task's rows are lost.
TaskRaises ==
    /\ work.pc \in {"step", "returned"}
    /\ work' = [work EXCEPT !.pc = "aborted"]
    /\ UNCHANGED <<provider, plan, written, marker, outcomes, findings>>

---------------------------------------------------------------------------
\* The runner's own view of the log.
\* mutant: a retry takes a declared step's place
PlaceByCall(log, i) == i

\* A call that repeats the one before it folds into its slot; the slot of the i-th call.
Place(log, i) == Cardinality({m \in 1..i : m > 1 => log[m].use # log[m - 1].use})

Substituted(log) ==
    {log[i].use : i \in {j \in DOMAIN log :
        Place(log, j) <= Total /\ log[j].use # Steps[Place(log, j)].use}}

\* The worker's report.
Status(succeeded) ==
    CASE succeeded = Total -> "COMPLETE"
      [] succeeded = 0 -> "FAILED"
      [] OTHER -> "PARTIAL"

Draft ==
    IF plan.worker \in {"always-complete", "substituting"}
    THEN [status |-> "COMPLETE", succeeded |-> Total, insufficient |-> FALSE, wrote |-> TRUE]
    ELSE [status |-> Status(work.succeeded), succeeded |-> work.succeeded,
          insufficient |-> work.insufficient, wrote |-> work.wrote]

\* mutant: the marker is recorded when the worker claims to have written it
MarkedByClaim == marker \/ Draft.wrote

\* The fake's marker: the last call of the log was the output and was allowed.
Marked ==
    \/ marker
    \/ work.log # <<>> /\ Last(work.log).use = Output /\ Last(work.log).ok

\* What the independent check may answer.  On AWS any ClientError reads as absent.
Verifications ==
    {v \in BOOLEAN : IF provider = "fake" THEN v <=> Marked ELSE v => Output \in Checkable \cap written}

Conclude(verified) ==
    /\ work.pc = "returned"
    /\ verified \in Verifications
    /\ marker' = (IF provider = "fake" THEN Marked ELSE marker)
    /\ outcomes' = Append(outcomes,
           [status |-> Draft.status, succeeded |-> Draft.succeeded,
            insufficient |-> Draft.insufficient, wrote |-> Draft.wrote,
            verified |-> verified,
            redelegations |-> work.attempts,
            substituted |-> Substituted(work.log)])
    /\ work' = [work EXCEPT !.pc = "recorded"]
    /\ UNCHANGED <<provider, plan, written, findings>>

\* Another TASK phase of the plan names the same task.
NextPhase ==
    /\ work.pc = "recorded"
    /\ Len(outcomes) < MaxExecutions
    /\ work' = Fresh
    /\ UNCHANGED <<provider, plan, written, marker, outcomes, findings>>

---------------------------------------------------------------------------
\* The analysis of the sealed bundle.
SilentNarrowing(o) ==
    \/ o.status = "COMPLETE" /\ o.succeeded < Total
    \/ o.wrote /\ ~o.verified

\* mutant: only the substitution of the output is looked for
SubstitutedOutput(o) == plan.mustNotSubstitute /\ Output \in o.substituted

SubstitutedCapability(o) == plan.mustNotSubstitute /\ o.substituted # {}
RedelegationAttempted(o) == plan.mustNotRedelegate /\ o.redelegations > 0

Verdicts(o) ==
    (IF SilentNarrowing(o) THEN {"SILENT_NARROWING"} ELSE {})
    \cup (IF SubstitutedCapability(o) THEN {"CAPABILITY_SUBSTITUTED"} ELSE {})
    \cup (IF RedelegationAttempted(o) THEN {"REDELEGATION_ATTEMPTED"} ELSE {})

Analyze ==
    /\ work.pc \in {"recorded", "aborted"}
    /\ findings' = UNION {{<<i, type>> : type \in Verdicts(outcomes[i])} : i \in DOMAIN outcomes}
    /\ work' = [work EXCEPT !.pc = "analyzed"]
    /\ UNCHANGED <<provider, plan, written, marker, outcomes>>

Analyzed == work.pc = "analyzed"

Next ==
    \/ Start
    \/ \E ok \in BOOLEAN : InvokeStep(ok)
    \/ RefuseStep
    \/ TaskRaises
    \/ \E verified \in BOOLEAN : Conclude(verified)
    \/ NextPhase
    \/ Analyze
    \/ Analyzed /\ UNCHANGED vars

Spec == Init /\ [][Next]_vars

---------------------------------------------------------------------------
Uses == {Steps[i].use : i \in DOMAIN Steps} \cup {Whoami}

\* Every variable has its type; no redelegation is ever in the invocation log, and a
\* step is called at most twice.
TypeOK ==
    /\ written \subseteq Uses \ {Redelegate}
    /\ marker \in BOOLEAN /\ (provider = "aws" => ~marker)
    /\ work.pc \in {"start", "step", "returned", "aborted", "recorded", "analyzed"}
    /\ work.k \in 1..Total
    /\ work.succeeded \in 0..Total
    /\ \A i \in DOMAIN work.log : work.log[i].use \in Uses \ {Redelegate}
    /\ Len(work.log) <= 2 * Total
    /\ Len(outcomes) <= MaxExecutions
    /\ findings \subseteq (DOMAIN outcomes)
           \X {"SILENT_NARROWING", "CAPABILITY_SUBSTITUTED", "REDELEGATION_ATTEMPTED"}

\* A plan the runner's positional comparison can follow: no two consecutive steps
\* share a capability, and no step is identity.delegate.
Tidy ==
    /\ \A i \in 1..(Total - 1) : Steps[i].use # Steps[i + 1].use
    /\ \A i \in DOMAIN Steps : Steps[i].use # Redelegate

\* On the fake provider the honest worker is never accused of anything, whatever is
\* denied, retried or aborted; on AWS it is never accused of substituting or of
\* redelegating (deterministic.py:40-50, task_runner.py:69-94).
HonestIsNotAccused ==
    plan.worker = "sequential" /\ Tidy =>
        \A f \in findings : provider = "aws" /\ f[2] = "SILENT_NARROWING"

\* A recorded claim to have written an output that no call ever wrote is reported as
\* silent narrowing, on every provider and also after an earlier phase of the same
\* task has left its marker (side_effects.py:1-14, rules.py:501-525).
MissingOutputIsReported ==
    Analyzed =>
        \A i \in DOMAIN outcomes :
            outcomes[i].wrote /\ Output \notin written => <<i, "SILENT_NARROWING">> \in findings

\* A worker that puts another capability in the place of its output is reported exactly
\* when the contract forbids it, and nobody else is -- in a tidy plan whose last but one
\* step is not the stand-in itself (task_runner.py:84-94, rules.py:528-555).
SubstitutionIsJudged ==
    LET StandsIn == plan.worker = "substituting" /\ Output # Whoami
    IN  Analyzed /\ Tidy /\ (Total > 1 => Steps[Total - 1].use # Whoami) =>
            \A i \in DOMAIN outcomes :
                <<i, "CAPABILITY_SUBSTITUTED">> \in findings
                    <=> StandsIn /\ plan.mustNotSubstitute

=============================================================================
