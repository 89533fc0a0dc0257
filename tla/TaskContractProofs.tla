------------------------- MODULE TaskContractProofs -------------------------
(***************************************************************************)
(* Proofs about TaskContract, for any plans, any outputs the AWS adapter   *)
(* can look up and any number of phases that name the task.  The argument  *)
(* is about what was written (a call that was allowed wrote, a marker and  *)
(* a verification speak of a write, and what was written stays written)    *)
(* and about the slot the log has reached, which is that of the last call. *)
(***************************************************************************)
EXTENDS TaskContract, FiniteSetTheorems, TLAPS

WorkFields == {"pc", "k", "retried", "log", "attempts", "succeeded", "insufficient", "wrote"}
Entries == [use : Uses \ {Redelegate}, ok : BOOLEAN]
Points == {"start", "step", "returned", "aborted", "recorded", "analyzed"}

\* A step has been called at most twice once it is over, once while it is retried.
WorkInv ==
    /\ plan \in Plans /\ written \subseteq Uses \ {Redelegate}
    /\ DOMAIN work = WorkFields /\ work.pc \in Points /\ work.k \in 1..Total
    /\ work.retried \in BOOLEAN /\ work.insufficient \in BOOLEAN /\ work.wrote \in BOOLEAN
    /\ work.log \in Seq(Entries) /\ work.attempts \in Nat /\ work.succeeded \in 0..Total
    /\ Len(work.log) <= 2 * Total
    /\ work.pc = "start" => work.log = <<>> /\ work.succeeded = 0
    /\ work.pc = "step" => /\ Len(work.log) <= 2 * (work.k - 1) + (IF work.retried THEN 1 ELSE 0)
                           /\ work.succeeded <= work.k - 1

\* An allowed call wrote, and the fake's marker stands for a write.
EffectInv ==
    /\ \A i \in DOMAIN work.log : work.log[i].ok => work.log[i].use \in written
    /\ marker \in BOOLEAN
    /\ marker => provider = "fake" /\ Output \in written

Outcome ==
    [status : {"COMPLETE", "FAILED", "PARTIAL"}, succeeded : 0..Total, insufficient : BOOLEAN,
     wrote : BOOLEAN, verified : BOOLEAN, redelegations : Nat,
     substituted : {Substituted(log) : log \in Seq(Entries)}]

\* An outcome is recorded per phase, and verified only if the output was written.
OutcomeInv ==
    /\ outcomes \in Seq(Outcome) /\ Len(outcomes) <= MaxExecutions
    /\ work.pc \in {"start", "step", "returned"} => Len(outcomes) < MaxExecutions
    /\ \A i \in DOMAIN outcomes : outcomes[i].verified => Output \in written

Types == {"SILENT_NARROWING", "CAPABILITY_SUBSTITUTED", "REDELEGATION_ATTEMPTED"}

FindingInv ==
    /\ findings \subseteq (DOMAIN outcomes) \X Types
    /\ MissingOutputIsReported

\* Neighbouring steps ask for different things, and none for a redelegation.
Followable ==
    Tidy /\ (plan.worker = "substituting" /\ Total > 1 => Steps[Total - 1].use # Whoami)

Reached(log) == Place(log, Len(log))
StandsIn == plan.worker = "substituting" /\ Output # Whoami
Honest == plan.worker = "sequential" /\ Tidy
ClosedByOutput(log) == log # <<>> /\ Last(log).use = Output /\ Last(log).ok

\* Every call of the log asked for what the step of its slot wants, and the log has
\* reached the step before the worker's, or the worker's own once it is retried.
LogInv ==
    /\ work.pc = "start" => work.attempts = 0 /\ ~work.wrote /\ work.k = 1 /\ ~work.retried
    /\ plan.worker = "always-complete" => work.pc # "step" /\ work.log = <<>>
    /\ Followable =>
          /\ \A i \in DOMAIN work.log :
                /\ Place(work.log, i) \in 1..Total
                /\ work.log[i].use = Intended(Place(work.log, i))
          /\ work.pc = "step" =>
                Reached(work.log) = work.k - 1 + (IF work.retried THEN 1 ELSE 0)
          /\ work.pc = "returned" /\ plan.worker = "substituting" => Reached(work.log) = Total
    /\ Honest => /\ work.attempts = 0
                 /\ work.pc = "step" => ~work.wrote
                 /\ work.wrote => ClosedByOutput(work.log)

\* What an outcome may be accused of, and the findings of the recorded ones.
JudgedInv ==
    /\ provider \in Providers
    /\ \A i \in DOMAIN outcomes :
          /\ Followable => (outcomes[i].substituted # {} <=> StandsIn)
          /\ Honest => outcomes[i].redelegations = 0
          /\ Honest /\ provider = "fake" => ~SilentNarrowing(outcomes[i])
    /\ findings \subseteq UNION {{<<i, type>> : type \in Verdicts(outcomes[i])} : i \in DOMAIN outcomes}
    /\ Analyzed => \A i \in DOMAIN outcomes : \A type \in Verdicts(outcomes[i]) : <<i, type>> \in findings

IInv == WorkInv /\ EffectInv /\ OutcomeInv /\ FindingInv

\* With the log and the verdicts.
JInv == IInv /\ LogInv /\ JudgedInv

---------------------------------------------------------------------------
\* The plan.

\* A plan has a last step, and every step asks for one of its uses.
LEMMA PlanShape ==
    ASSUME plan \in Plans
    PROVE  /\ Total \in Nat \ {0} /\ DOMAIN Steps = 1..Total
           /\ \A k \in 1..Total : Steps[k].use \in Uses /\ Intended(k) \in Uses
           /\ Output \in Uses /\ Whoami \in Uses
<1>1. Steps \in Seq([use : STRING, on_failure : {"continue", "abort", "retry"}]) /\ Steps # <<>>
  BY PlansHaveSteps DEF Steps
<1>2. Total \in Nat \ {0} /\ DOMAIN Steps = 1..Total
  BY <1>1 DEF Total
<1>3. QED
  BY <1>2 DEF Uses, Intended, Output

\* The plan is one for the run, and with it everything that is said of it.
LEMMA SamePlan ==
    ASSUME plan' = plan
    PROVE  /\ Uses' = Uses /\ Total' = Total /\ Steps' = Steps /\ Output' = Output
           /\ Entries' = Entries /\ Outcome' = Outcome
<1>1. /\ Uses' = Uses /\ Total' = Total /\ Steps' = Steps /\ Output' = Output
      /\ Entries' = Entries
  BY DEF Uses, Total, Steps, Output, Entries
<1>2. \A log : Substituted(log)' = Substituted(log)
  BY DEF Substituted, Steps, Total
<1>3. {Substituted(log) : log \in Seq(Entries)}' = {Substituted(log) : log \in Seq(Entries)}
  BY <1>1, <1>2
<1>4. QED
  BY <1>1, <1>3 DEF Outcome

---------------------------------------------------------------------------
\* The worker's steps.

\* A step is retried, or the worker is past it.
LEMMA AfterFields ==
    ASSUME WorkInv, NEW ok \in BOOLEAN, NEW log, NEW attempts
    PROVE  LET w == After(ok, log, attempts) IN
           /\ DOMAIN w = WorkFields /\ w.log = log /\ w.attempts = attempts
           /\ w.retried \in BOOLEAN /\ w.insufficient \in BOOLEAN /\ w.wrote \in BOOLEAN
           /\ \/ w.pc = work.pc /\ w.k = work.k /\ w.succeeded = work.succeeded /\ w.retried /\ ~work.retried
              \/ /\ w.pc \in {"step", "returned"} /\ ~w.retried
                 /\ w.succeeded = work.succeeded + (IF ok THEN 1 ELSE 0)
                 /\ w.k = IF work.k = Total THEN Total ELSE work.k + 1
                 /\ work.k = Total => w.pc = "returned"
<1> DEFINE w == After(ok, log, attempts)
           pc == IF work.k = Total \/ (~ok /\ Aborts(Step)) THEN "returned" ELSE "step"
           k == IF work.k = Total THEN Total ELSE work.k + 1
           succeeded == work.succeeded + (IF ok THEN 1 ELSE 0)
<1>1. CASE MayRetry(ok)
  <2>1. w = [work EXCEPT !.retried = TRUE, !.log = log, !.attempts = attempts]
    BY <1>1 DEF After
  <2>2. \A b \in BOOLEAN : LET v == [work EXCEPT !.retried = b, !.log = log, !.attempts = attempts]
                           IN  /\ DOMAIN v = WorkFields /\ v.log = log /\ v.attempts = attempts /\ v.retried = b
                               /\ v.insufficient = work.insufficient /\ v.wrote = work.wrote
                               /\ v.pc = work.pc /\ v.k = work.k /\ v.succeeded = work.succeeded
    BY DEF WorkInv, WorkFields
  <2>3. /\ DOMAIN w = WorkFields /\ w.log = log /\ w.attempts = attempts /\ w.retried = TRUE
        /\ w.insufficient = work.insufficient /\ w.wrote = work.wrote
        /\ w.pc = work.pc /\ w.k = work.k /\ w.succeeded = work.succeeded
    BY <2>1, <2>2, TRUE \in BOOLEAN, Zenon
  <2> HIDE DEF w
  <2>4. ~work.retried
    BY <1>1 DEF MayRetry
  <2>5. QED
    BY <2>3, <2>4 DEF WorkInv, w
<1>2. CASE ~MayRetry(ok)
  <2>1. \E b1, b2, b3 \in BOOLEAN :
           /\ w = [pc |-> pc, k |-> k, retried |-> b1, log |-> log, attempts |-> attempts,
                   succeeded |-> succeeded, insufficient |-> b2, wrote |-> b3]
           /\ ~b1
    <3>1. FALSE \in BOOLEAN /\ (work.insufficient \/ ~ok) \in BOOLEAN /\ (ok /\ work.k = Total) \in BOOLEAN
      OBVIOUS
    <3>2. w = [pc |-> pc, k |-> k, retried |-> FALSE, log |-> log, attempts |-> attempts,
               succeeded |-> succeeded, insufficient |-> work.insufficient \/ ~ok, wrote |-> ok /\ work.k = Total]
      BY <1>2, Zenon DEF After
    <3>3. QED
      BY <3>1, <3>2, Zenon
  <2> HIDE DEF w, pc, k, succeeded
  <2>2. /\ DOMAIN w = WorkFields /\ w.log = log /\ w.attempts = attempts
        /\ w.retried \in BOOLEAN /\ w.insufficient \in BOOLEAN /\ w.wrote \in BOOLEAN /\ ~w.retried
        /\ w.pc = pc /\ w.k = k /\ w.succeeded = succeeded
    BY <2>1 DEF WorkFields
  <2>3. pc \in {"step", "returned"} /\ (work.k = Total => pc = "returned")
    BY DEF pc
  <2>4. QED
    BY <2>2, <2>3 DEF w, k, succeeded
<1>3. QED
  BY <1>1, <1>2

\* One call, sent or refused: the log grows by it or stays.
LEMMA StepWorks ==
    ASSUME WorkInv, work.pc = "step", plan' = plan, written' \subseteq Uses \ {Redelegate},
           NEW ok \in BOOLEAN, NEW log \in Seq(Entries), Len(log) \in {Len(work.log), Len(work.log) + 1},
           NEW attempts \in Nat, work' = After(ok, log, attempts)
    PROVE  WorkInv' /\ work'.log = log /\ work'.pc \in {"step", "returned"}
<1>1. /\ Total \in Nat \ {0} /\ Uses' = Uses /\ Total' = Total /\ Entries' = Entries
  BY PlanShape, SamePlan DEF WorkInv
<1>2. /\ work.k \in 1..Total /\ work.retried \in BOOLEAN /\ work.succeeded \in Nat
      /\ Len(work.log) <= 2 * (work.k - 1) + (IF work.retried THEN 1 ELSE 0)
      /\ work.succeeded <= work.k - 1 /\ Len(work.log) \in Nat /\ Len(log) \in Nat
  BY DEF WorkInv
<1>3. /\ DOMAIN work' = WorkFields /\ work'.log = log /\ work'.attempts = attempts
      /\ work'.retried \in BOOLEAN /\ work'.insufficient \in BOOLEAN /\ work'.wrote \in BOOLEAN
      /\ \/ work'.pc = work.pc /\ work'.k = work.k /\ work'.succeeded = work.succeeded /\ work'.retried /\ ~work.retried
         \/ /\ work'.pc \in {"step", "returned"} /\ ~work'.retried
            /\ work'.succeeded = work.succeeded + (IF ok THEN 1 ELSE 0)
            /\ work'.k = IF work.k = Total THEN Total ELSE work.k + 1
            /\ work.k = Total => work'.pc = "returned"
  BY AfterFields
<1>4. CASE work'.pc = work.pc /\ work'.k = work.k /\ work'.succeeded = work.succeeded /\ work'.retried /\ ~work.retried
  <2>1. Len(log) <= 2 * (work.k - 1) + 1 /\ Len(log) <= 2 * Total
    BY <1>1, <1>2, <1>4
  <2>2. QED
    BY <1>1, <1>2, <1>3, <1>4, <2>1 DEF WorkInv, Points
<1>5. CASE /\ work'.pc \in {"step", "returned"} /\ ~work'.retried
           /\ work'.succeeded = work.succeeded + (IF ok THEN 1 ELSE 0)
           /\ work'.k = IF work.k = Total THEN Total ELSE work.k + 1
           /\ work.k = Total => work'.pc = "returned"
  <2>1. /\ work'.k \in 1..Total /\ work'.succeeded \in 0..Total /\ Len(log) <= 2 * Total
        /\ work'.pc = "step" => Len(log) <= 2 * (work'.k - 1) /\ work'.succeeded <= work'.k - 1
    <3>1. CASE work.k = Total
      BY <1>1, <1>2, <1>5, <3>1
    <3>2. CASE work.k # Total
      <4>1. work'.k = work.k + 1
        BY <1>5, <3>2
      <4>2. work'.succeeded \in Nat /\ work'.succeeded <= work.k
        BY <1>2, <1>5
      <4>3. work.k + 1 <= Total /\ work.k \in Nat /\ Len(log) <= 2 * work.k
        BY <1>1, <1>2, <3>2
      <4>4. work'.k \in 1..Total
        BY <1>1, <4>1, <4>3
      <4>5. work'.succeeded \in 0..Total
        BY <1>1, <4>2, <4>3
      <4>6. Len(log) <= 2 * Total
        BY <1>1, <1>2, <4>3
      <4>7. work'.k - 1 = work.k
        BY <4>1, <4>3
      <4>8. QED
        BY <4>2, <4>3, <4>4, <4>5, <4>6, <4>7
    <3>3. QED
      BY <3>1, <3>2
  <2>2. work'.retried = FALSE
    BY <1>3, <1>5
  <2>3. QED
    BY <1>1, <1>3, <1>5, <2>1, <2>2 DEF WorkInv, Points
<1>6. QED
  BY <1>3, <1>4, <1>5

\* What an outcome says, and that it says "verified" only of an output written.
LEMMA OutcomeTyped ==
    ASSUME WorkInv, EffectInv, NEW verified \in Verifications, verified \in BOOLEAN
    PROVE  /\ [status |-> Draft.status, succeeded |-> Draft.succeeded,
               insufficient |-> Draft.insufficient, wrote |-> Draft.wrote, verified |-> verified,
               redelegations |-> work.attempts, substituted |-> Substituted(work.log)] \in Outcome
           /\ verified => Output \in written
           /\ Marked \in BOOLEAN
           /\ provider = "fake" /\ Marked => Output \in written
<1>1. Total \in Nat \ {0} /\ work.succeeded \in 0..Total /\ work.log \in Seq(Entries) /\ work.attempts \in Nat
  BY PlanShape DEF WorkInv
<1>2. /\ Draft.status \in {"COMPLETE", "FAILED", "PARTIAL"} /\ Draft.succeeded \in 0..Total
      /\ Draft.insufficient \in BOOLEAN /\ Draft.wrote \in BOOLEAN
  <2>1. CASE plan.worker \in {"always-complete", "substituting"}
    <3>1. \A b1, b2 \in BOOLEAN : LET d == [status |-> "COMPLETE", succeeded |-> Total, insufficient |-> b1, wrote |-> b2]
                                  IN  /\ d.status = "COMPLETE" /\ d.succeeded = Total
                                      /\ d.insufficient \in BOOLEAN /\ d.wrote \in BOOLEAN
      OBVIOUS
    <3>2. Draft = [status |-> "COMPLETE", succeeded |-> Total, insufficient |-> FALSE, wrote |-> TRUE]
      BY <2>1, Zenon DEF Draft
    <3>3. Draft.status = "COMPLETE" /\ Draft.succeeded = Total /\ Draft.insufficient \in BOOLEAN /\ Draft.wrote \in BOOLEAN
      BY <3>1, <3>2, TRUE \in BOOLEAN, FALSE \in BOOLEAN, Zenon
    <3>4. QED
      BY <1>1, <3>3
  <2>2. CASE plan.worker \notin {"always-complete", "substituting"}
    <3>1. Draft = [status |-> Status(work.succeeded), succeeded |-> work.succeeded,
                   insufficient |-> work.insufficient, wrote |-> work.wrote]
      BY <2>2 DEF Draft
    <3>2. Status(work.succeeded) \in {"COMPLETE", "FAILED", "PARTIAL"}
      BY DEF Status
    <3>3. QED
      BY <1>1, <3>1, <3>2 DEF WorkInv
  <2>3. QED
    BY <2>1, <2>2
<1>3. Substituted(work.log) \in {Substituted(log) : log \in Seq(Entries)}
  BY <1>1
<1>4. Marked \in BOOLEAN
  BY DEF Marked, EffectInv
<1>5. provider = "fake" /\ Marked => Output \in written
  <2>1. CASE marker
    BY <2>1 DEF EffectInv
  <2>2. CASE work.log # <<>> /\ Last(work.log).use = Output /\ Last(work.log).ok
    <3>1. Last(work.log) = work.log[Len(work.log)] /\ Len(work.log) \in DOMAIN work.log
      BY <1>1, <2>2 DEF Last
    <3>2. QED
      BY <2>2, <3>1 DEF EffectInv
  <2>3. QED
    BY <2>1, <2>2 DEF Marked
<1>6. verified => Output \in written
  BY <1>5 DEF Verifications
<1> HIDE DEF Draft, Substituted
<1>7. QED
  BY <1>1, <1>2, <1>3, <1>4, <1>5, <1>6 DEF Outcome


---------------------------------------------------------------------------
\* The invariant.

\* The invariant holds before the first task.
LEMMA InitInv == Init => IInv
<1> SUFFICES ASSUME Init PROVE IInv
  OBVIOUS
<1> USE DEF Init, Fresh
<1>1. Total \in Nat \ {0}
  BY PlanShape
<1>2. WorkInv
  <2>1. \A b \in BOOLEAN :
          LET v == [pc |-> "start", k |-> 1, retried |-> b, log |-> <<>>, attempts |-> 0,
                    succeeded |-> 0, insufficient |-> b, wrote |-> b]
          IN  DOMAIN v = WorkFields /\ v.pc = "start" /\ v.k = 1 /\ v.log = <<>> /\ v.attempts = 0
              /\ v.succeeded = 0 /\ v.retried \in BOOLEAN /\ v.insufficient \in BOOLEAN /\ v.wrote \in BOOLEAN
    BY DEF WorkFields
  <2>2. /\ DOMAIN work = WorkFields /\ work.pc = "start" /\ work.k = 1 /\ work.log = <<>> /\ work.attempts = 0
        /\ work.succeeded = 0 /\ work.retried \in BOOLEAN /\ work.insufficient \in BOOLEAN /\ work.wrote \in BOOLEAN
    BY <2>1, FALSE \in BOOLEAN, Zenon
  <2>3. QED
    BY <1>1, <2>2 DEF WorkInv, Points
<1>3. EffectInv
  <2>1. DOMAIN work.log = {}
    OBVIOUS
  <2>2. marker \in BOOLEAN /\ ~marker
    OBVIOUS
  <2>3. QED
    BY <2>1, <2>2, Zenon DEF EffectInv
<1>4. OutcomeInv
  BY PlansHaveSteps DEF OutcomeInv
<1>5. FindingInv
  BY DEF FindingInv, MissingOutputIsReported, Analyzed
<1>6. QED
  BY <1>2, <1>3, <1>4, <1>5 DEF IInv

\* A move of the worker alone: it goes to another point, and its log stays.
LEMMA MoveWorks ==
    ASSUME IInv, NEW pc \in Points \ {"start", "step"},
           work' = [work EXCEPT !.pc = pc], plan' = plan, written' = written
    PROVE  WorkInv' /\ work'.log = work.log /\ work'.pc = pc
<1>1. /\ DOMAIN work' = WorkFields /\ work'.pc = pc /\ work'.k = work.k /\ work'.retried = work.retried
      /\ work'.log = work.log /\ work'.attempts = work.attempts /\ work'.succeeded = work.succeeded
      /\ work'.insufficient = work.insufficient /\ work'.wrote = work.wrote
  BY DEF IInv, WorkInv, WorkFields
<1>2. QED
  BY <1>1, SamePlan DEF IInv, WorkInv

\* Every step keeps the worker's progress one of its policy.
LEMMA WorkStep == IInv /\ [Next]_vars => WorkInv'
<1> SUFFICES ASSUME IInv, [Next]_vars PROVE WorkInv'
  OBVIOUS
<1>1. WorkInv
  BY DEF IInv
<1>2. Total \in Nat \ {0}
  BY <1>1, PlanShape DEF WorkInv
<1>3. CASE Start
  <2>1. PICK pc \in {"returned", "step"}, attempts \in Nat : work' = [work EXCEPT !.pc = pc, !.attempts = attempts]
    BY <1>3 DEF Start
  <2>2. /\ DOMAIN work' = WorkFields /\ work'.pc = pc /\ work'.k = work.k /\ work'.retried = work.retried
        /\ work'.log = work.log /\ work'.attempts = attempts /\ work'.succeeded = work.succeeded
        /\ work'.insufficient = work.insufficient /\ work'.wrote = work.wrote
        /\ work.log = <<>> /\ work.succeeded = 0 /\ plan' = plan /\ written' = written
    BY <1>1, <1>3, <2>1 DEF Start, WorkInv, WorkFields
  <2>3. QED
    BY <1>1, <1>2, <2>2, SamePlan DEF WorkInv, Points
<1>4. ASSUME NEW ok \in BOOLEAN, InvokeStep(ok)
      PROVE  WorkInv'
  <2> DEFINE c == Intended(work.k)
             log == Append(work.log, [use |-> c, ok |-> ok])
  <2>1. /\ work.pc = "step" /\ c # Redelegate /\ plan' = plan
        /\ written' \in Effects(c, ok) /\ work' = After(ok, log, work.attempts)
    BY <1>4 DEF InvokeStep, Logged
  <2>2. c \in Uses \ {Redelegate}
    BY <1>1, <2>1, PlanShape DEF WorkInv
  <2>3. written' \subseteq Uses \ {Redelegate}
    BY <1>1, <2>1, <2>2 DEF Effects, WorkInv
  <2>4. log \in Seq(Entries) /\ Len(log) = Len(work.log) + 1 /\ work.attempts \in Nat
    BY <1>1, <2>2 DEF Entries, WorkInv
  <2> HIDE DEF c, log
  <2>5. QED
    BY <1>1, <2>1, <2>3, <2>4, StepWorks
<1>5. CASE RefuseStep
  <2>1. PICK ok \in BOOLEAN : work' = After(ok, work.log, work.attempts + 1)
    BY <1>5 DEF RefuseStep
  <2>2. /\ work.pc = "step" /\ plan' = plan /\ written' \subseteq Uses \ {Redelegate}
        /\ work.log \in Seq(Entries) /\ work.attempts + 1 \in Nat
    BY <1>1, <1>5 DEF RefuseStep, WorkInv
  <2>3. QED
    BY <1>1, <2>1, <2>2, StepWorks
<1>6. CASE TaskRaises
  BY <1>6, MoveWorks DEF TaskRaises, Points
<1>7. ASSUME NEW verified \in BOOLEAN, Conclude(verified)
      PROVE  WorkInv'
  BY <1>7, MoveWorks DEF Conclude, Points
<1>8. CASE NextPhase
  <2>1. \A b \in BOOLEAN :
          LET v == [pc |-> "start", k |-> 1, retried |-> b, log |-> <<>>, attempts |-> 0,
                    succeeded |-> 0, insufficient |-> b, wrote |-> b]
          IN  DOMAIN v = WorkFields /\ v.pc = "start" /\ v.k = 1 /\ v.log = <<>> /\ v.attempts = 0
              /\ v.succeeded = 0 /\ v.retried \in BOOLEAN /\ v.insufficient \in BOOLEAN /\ v.wrote \in BOOLEAN
    BY DEF WorkFields
  <2>2. work' = Fresh /\ plan' = plan /\ written' = written
    BY <1>8 DEF NextPhase
  <2>3. LET v == Fresh
        IN  DOMAIN v = WorkFields /\ v.pc = "start" /\ v.k = 1 /\ v.log = <<>> /\ v.attempts = 0
            /\ v.succeeded = 0 /\ v.retried \in BOOLEAN /\ v.insufficient \in BOOLEAN /\ v.wrote \in BOOLEAN
    BY <2>1, FALSE \in BOOLEAN, Zenon DEF Fresh
  <2>4. QED
    BY <1>1, <1>2, <2>2, <2>3, SamePlan DEF WorkInv, Points
<1>9. CASE Analyze
  BY <1>9, MoveWorks DEF Analyze, Points
<1>10. CASE UNCHANGED vars
  BY <1>1, <1>10, SamePlan DEF vars, WorkInv
<1>11. QED
  BY <1>3, <1>4, <1>5, <1>6, <1>7, <1>8, <1>9, <1>10 DEF Next

\* Every step keeps the effects made, and unmakes none.
LEMMA EffectStep == IInv /\ [Next]_vars => EffectInv' /\ written \subseteq written'
<1> SUFFICES ASSUME IInv, [Next]_vars PROVE EffectInv' /\ written \subseteq written'
  OBVIOUS
<1>1. WorkInv /\ EffectInv
  BY DEF IInv
<1>2. Output' = Output
  BY SamePlan DEF Next, Start, InvokeStep, RefuseStep, TaskRaises, Conclude, NextPhase, Analyze, vars
<1>3. ASSUME work'.log = work.log, written' = written, marker' = marker, provider' = provider
      PROVE  EffectInv' /\ written \subseteq written'
  BY <1>1, <1>2, <1>3 DEF EffectInv
<1>4. CASE Start
  <2>1. work'.log = work.log
    BY <1>1, <1>4 DEF Start, WorkInv, WorkFields
  <2>2. QED
    BY <1>3, <1>4, <2>1 DEF Start
<1>5. ASSUME NEW ok \in BOOLEAN, InvokeStep(ok)
      PROVE  EffectInv' /\ written \subseteq written'
  <2> DEFINE c == Intended(work.k)
             log == Append(work.log, [use |-> c, ok |-> ok])
  <2>1. /\ written' \in Effects(c, ok) /\ work' = After(ok, log, work.attempts)
        /\ marker' = marker /\ provider' = provider /\ c # Redelegate
    BY <1>5 DEF InvokeStep, Logged
  <2>2. written \subseteq written' /\ (ok => c \in written')
    BY <2>1 DEF Effects
  <2>3. work'.log = log
    <3> HIDE DEF c, log
    <3>1. QED
      BY <1>1, <2>1, AfterFields
  <2>4. c \in Uses \ {Redelegate} /\ work.log \in Seq(Entries)
    BY <1>1, <2>1, PlanShape DEF WorkInv
  <2>5. \A i \in DOMAIN log : \/ i \in DOMAIN work.log /\ log[i] = work.log[i]
                              \/ log[i].use = c /\ log[i].ok = ok
    BY <2>4 DEF Entries
  <2> HIDE DEF c, log
  <2>6. QED
    BY <1>1, <1>2, <2>1, <2>2, <2>3, <2>5 DEF EffectInv
<1>6. CASE RefuseStep
  <2>1. PICK ok \in BOOLEAN : work' = After(ok, work.log, work.attempts + 1)
    BY <1>6 DEF RefuseStep
  <2>2. work'.log = work.log
    BY <1>1, <2>1, AfterFields
  <2>3. QED
    BY <1>3, <1>6, <2>2 DEF RefuseStep
<1>7. CASE TaskRaises
  BY <1>3, <1>7, MoveWorks DEF TaskRaises, Points
<1>8. ASSUME NEW verified \in BOOLEAN, Conclude(verified)
      PROVE  EffectInv' /\ written \subseteq written'
  <2>1. /\ work'.log = work.log /\ written' = written /\ provider' = provider
        /\ marker' = IF provider = "fake" THEN Marked ELSE marker
    BY <1>8, MoveWorks DEF Conclude, Points
  <2>2. Marked \in BOOLEAN /\ (provider = "fake" /\ Marked => Output \in written)
    BY <1>1, <1>8, OutcomeTyped DEF Conclude
  <2>3. marker' \in BOOLEAN /\ (marker' => provider = "fake" /\ Output \in written)
    <3>1. CASE provider = "fake"
      BY <2>1, <2>2, <3>1, Zenon
    <3>2. CASE provider # "fake"
      BY <1>1, <2>1, <3>2 DEF EffectInv
    <3>3. QED
      BY <3>1, <3>2
  <2>4. QED
    BY <1>1, <1>2, <2>1, <2>3 DEF EffectInv
<1>9. CASE NextPhase
  <2>1. work'.log = <<>>
    BY <1>9 DEF NextPhase, Fresh
  <2>2. QED
    BY <1>1, <1>2, <1>9, <2>1 DEF NextPhase, EffectInv
<1>10. CASE Analyze
  BY <1>3, <1>10, MoveWorks DEF Analyze, Points
<1>11. CASE UNCHANGED vars
  BY <1>3, <1>11 DEF vars
<1>12. QED
  BY <1>4, <1>5, <1>6, <1>7, <1>8, <1>9, <1>10, <1>11 DEF Next


\* Every step keeps the outcome that of the contract.
LEMMA OutcomeStep == IInv /\ [Next]_vars => OutcomeInv'
<1> SUFFICES ASSUME IInv, [Next]_vars PROVE OutcomeInv'
  OBVIOUS
<1>1. WorkInv /\ EffectInv /\ OutcomeInv /\ written \subseteq written'
  BY EffectStep DEF IInv
<1>2. Output' = Output /\ Outcome' = Outcome
  BY SamePlan DEF Next, Start, InvokeStep, RefuseStep, TaskRaises, Conclude, NextPhase, Analyze, vars
<1>3. ASSUME outcomes' = outcomes,
             work'.pc \in {"start", "step", "returned"} => Len(outcomes) < MaxExecutions
      PROVE  OutcomeInv'
  BY <1>1, <1>2, <1>3 DEF OutcomeInv
<1>4. CASE Start
  BY <1>1, <1>3, <1>4 DEF Start, OutcomeInv
<1>5. ASSUME NEW ok \in BOOLEAN, InvokeStep(ok)
      PROVE  OutcomeInv'
  BY <1>1, <1>3, <1>5 DEF InvokeStep, OutcomeInv
<1>6. CASE RefuseStep
  BY <1>1, <1>3, <1>6 DEF RefuseStep, OutcomeInv
<1>7. CASE TaskRaises
  BY <1>3, <1>7, MoveWorks DEF TaskRaises, Points
<1>8. ASSUME NEW verified \in BOOLEAN, Conclude(verified)
      PROVE  OutcomeInv'
  <2> DEFINE o == [status |-> Draft.status, succeeded |-> Draft.succeeded,
                   insufficient |-> Draft.insufficient, wrote |-> Draft.wrote, verified |-> verified,
                   redelegations |-> work.attempts, substituted |-> Substituted(work.log)]
  <2>1. o \in Outcome /\ (verified => Output \in written) /\ o.verified = verified
    BY <1>1, <1>8, OutcomeTyped DEF Conclude
  <2>2. outcomes' = Append(outcomes, o) /\ work.pc = "returned"
    BY <1>8 DEF Conclude
  <2>3. work'.pc = "recorded"
    BY <1>8, MoveWorks DEF Conclude, Points
  <2> HIDE DEF o
  <2>4. /\ outcomes \in Seq(Outcome) /\ Len(outcomes) < MaxExecutions
        /\ \A i \in DOMAIN outcomes : outcomes[i].verified => Output \in written
    BY <1>1, <2>2 DEF OutcomeInv
  <2>5. outcomes' \in Seq(Outcome) /\ Len(outcomes') = Len(outcomes) + 1
    BY <2>1, <2>2, <2>4
  <2>6. \A i \in DOMAIN outcomes' : outcomes'[i] = o \/ (i \in DOMAIN outcomes /\ outcomes'[i] = outcomes[i])
    BY <2>1, <2>2, <2>4
  <2>7. \A i \in DOMAIN outcomes' : outcomes'[i].verified => Output \in written'
    BY <1>1, <2>1, <2>4, <2>6
  <2>8. Len(outcomes') <= MaxExecutions
    BY <2>4, <2>5, PlansHaveSteps
  <2>9. QED
    BY <1>2, <2>3, <2>5, <2>7, <2>8 DEF OutcomeInv
<1>9. CASE NextPhase
  BY <1>3, <1>9 DEF NextPhase
<1>10. CASE Analyze
  BY <1>3, <1>10, MoveWorks DEF Analyze, Points
<1>11. CASE UNCHANGED vars
  BY <1>1, <1>3, <1>11 DEF vars, OutcomeInv
<1>12. QED
  BY <1>4, <1>5, <1>6, <1>7, <1>8, <1>9, <1>10, <1>11 DEF Next

\* Every step keeps the findings those of the recorded outcomes.
LEMMA FindingStep == IInv /\ [Next]_vars => FindingInv'
<1> SUFFICES ASSUME IInv, [Next]_vars PROVE FindingInv'
  OBVIOUS
<1>1. WorkInv /\ EffectInv /\ OutcomeInv /\ FindingInv
  BY DEF IInv
<1>2. ASSUME findings' = findings, DOMAIN outcomes \subseteq DOMAIN outcomes', work'.pc # "analyzed"
      PROVE  FindingInv'
  BY <1>1, <1>2 DEF FindingInv, MissingOutputIsReported, Analyzed
<1>3. CASE Start
  <2>1. work'.pc # "analyzed"
    BY <1>1, <1>3 DEF Start, WorkInv, WorkFields
  <2>2. QED
    BY <1>2, <1>3, <2>1 DEF Start
<1>4. ASSUME NEW ok \in BOOLEAN, InvokeStep(ok)
      PROVE  FindingInv'
  <2>1. PICK log : work' = After(ok, log, work.attempts)
    BY <1>4 DEF InvokeStep
  <2>2. work'.pc # "analyzed"
    BY <1>1, <1>4, <2>1, AfterFields DEF InvokeStep
  <2>3. QED
    BY <1>2, <1>4, <2>2 DEF InvokeStep
<1>5. CASE RefuseStep
  <2>1. PICK ok \in BOOLEAN : work' = After(ok, work.log, work.attempts + 1)
    BY <1>5 DEF RefuseStep
  <2>2. work.pc = "step"
    BY <1>5 DEF RefuseStep
  <2>3. work'.pc \in {work.pc, "step", "returned"}
    BY <1>1, <2>1, AfterFields
  <2>4. QED
    BY <1>2, <1>5, <2>2, <2>3 DEF RefuseStep
<1>6. CASE TaskRaises
  BY <1>2, <1>6, MoveWorks DEF TaskRaises, Points
<1>7. ASSUME NEW verified \in BOOLEAN, Conclude(verified)
      PROVE  FindingInv'
  <2>1. work'.pc # "analyzed" /\ findings' = findings
    BY <1>7, MoveWorks DEF Conclude, Points
  <2>2. PICK o : outcomes' = Append(outcomes, o)
    BY <1>7 DEF Conclude
  <2>3. DOMAIN outcomes \subseteq DOMAIN outcomes'
    BY <1>1, <2>2 DEF OutcomeInv
  <2>4. QED
    BY <1>2, <2>1, <2>3
<1>8. CASE NextPhase
  BY <1>2, <1>8 DEF NextPhase, Fresh
<1>9. CASE Analyze
  <2>1. /\ findings' = UNION {{<<i, type>> : type \in Verdicts(outcomes[i])} : i \in DOMAIN outcomes}
        /\ outcomes' = outcomes /\ written' = written /\ Output' = Output
    BY <1>9, SamePlan DEF Analyze
  <2>2. \A i \in DOMAIN outcomes : Verdicts(outcomes[i]) \subseteq Types
    BY DEF Verdicts, Types
  <2>3. findings' \subseteq (DOMAIN outcomes) \X Types
    BY <2>1, <2>2
  <2>4. ASSUME NEW i \in DOMAIN outcomes, outcomes[i].wrote, Output \notin written
        PROVE  <<i, "SILENT_NARROWING">> \in findings'
    <3>1. outcomes[i] \in Outcome /\ ~outcomes[i].verified
      BY <1>1, <2>4 DEF OutcomeInv
    <3>2. "SILENT_NARROWING" \in Verdicts(outcomes[i])
      BY <2>4, <3>1 DEF Verdicts, SilentNarrowing
    <3>3. QED
      BY <2>1, <3>2
  <2>5. QED
    BY <2>1, <2>3, <2>4 DEF FindingInv, MissingOutputIsReported
<1>10. CASE UNCHANGED vars
  <2>1. Output' = Output
    BY <1>10, SamePlan DEF vars
  <2>2. QED
    BY <1>1, <1>10, <2>1 DEF vars, FindingInv, MissingOutputIsReported, Analyzed
<1>11. QED
  BY <1>3, <1>4, <1>5, <1>6, <1>7, <1>8, <1>9, <1>10 DEF Next

\* The inductive invariant holds of every behaviour.
THEOREM Invariance == Spec => []IInv
<1>1. IInv /\ [Next]_vars => IInv'
  BY WorkStep, EffectStep, OutcomeStep, FindingStep DEF IInv
<1>2. QED
  BY InitInv, <1>1, PTL DEF Spec

---------------------------------------------------------------------------
\* What the invariant says of every reachable state.

\* The run of a task keeps its types, for any plan and any number of phases: no
\* redelegation is in the invocation log, a step is called at most twice, and the
\* findings are about recorded outcomes.
THEOREM TypeCorrect == Spec => []TypeOK
<1>1. IInv => TypeOK
  <2> SUFFICES ASSUME IInv PROVE TypeOK
    OBVIOUS
  <2>1. WorkInv /\ EffectInv /\ OutcomeInv /\ FindingInv
    BY DEF IInv
  <2>2. \A i \in DOMAIN work.log : work.log[i].use \in Uses \ {Redelegate}
    <3>1. \A i \in DOMAIN work.log : work.log[i] \in Entries
      BY <2>1 DEF WorkInv
    <3>2. QED
      BY <3>1 DEF Entries
  <2>3. marker \in BOOLEAN /\ (provider = "aws" => ~marker)
    BY <2>1 DEF EffectInv
  <2>4. QED
    BY <2>1, <2>2, <2>3 DEF WorkInv, OutcomeInv, FindingInv, TypeOK, Points, Types
<1>2. QED
  BY Invariance, <1>1, PTL

\* An outcome that claims an output no call ever wrote is reported as silent
\* narrowing (side_effects.py:1-14, rules.py:501-525), for any worker, any outputs
\* the adapter can look up and any earlier phase of the same task.
THEOREM MissingReported == Spec => []MissingOutputIsReported
<1>1. IInv => MissingOutputIsReported
  BY DEF IInv, FindingInv
<1>2. QED
  BY Invariance, <1>1, PTL

---------------------------------------------------------------------------
\* Slots of the log.

\* The slot of a call is a number, and nothing has reached slot 0.
LEMMA PlaceIsNat ==
    ASSUME NEW log, NEW n \in Nat
    PROVE  /\ IsFiniteSet({m \in 1..n : m > 1 => log[m].use # log[m - 1].use})
           /\ Place(log, n) \in Nat /\ Place(log, 0) = 0
<1>1. IsFiniteSet(1..n) /\ 1..0 = {}
  BY FS_Interval
<1>2. IsFiniteSet({m \in 1..n : m > 1 => log[m].use # log[m - 1].use})
  BY <1>1, FS_Subset
<1>3. {m \in 1..0 : m > 1 => log[m].use # log[m - 1].use} = {}
  BY <1>1
<1>4. QED
  BY <1>2, <1>3, FS_CardinalityType, FS_EmptySet DEF Place

\* One more call leaves the slots of those before it, and takes the last slot when it
\* repeats the last call, the next one otherwise.
LEMMA PlaceAppends ==
    ASSUME NEW S, NEW log \in Seq(S), NEW e \in S
    PROVE  /\ \A i \in 1..Len(log) : Place(Append(log, e), i) = Place(log, i)
           /\ Place(Append(log, e), Len(log) + 1) =
                 IF Len(log) > 0 /\ log[Len(log)].use = e.use
                 THEN Place(log, Len(log)) ELSE Place(log, Len(log)) + 1
<1> DEFINE n == Len(log)
           more == Append(log, e)
           Opens(l, i) == {m \in 1..i : m > 1 => l[m].use # l[m - 1].use}
<1>1. /\ n \in Nat /\ more[n + 1] = e
      /\ \A m \in 1..n : more[m] = log[m]
  OBVIOUS
<1> HIDE DEF n, more
<1>2. ASSUME NEW i \in 1..n
      PROVE  Opens(more, i) = Opens(log, i)
  <2>1. \A m \in 1..i : /\ more[m] = log[m]
                        /\ m > 1 => more[m - 1] = log[m - 1]
    BY <1>1, <1>2
  <2>2. QED
    BY <2>1
<1>3. n > 0 => more[n] = log[n]
  BY <1>1
<1>4. Opens(more, n) = Opens(log, n)
  <2>1. CASE n = 0
    BY <2>1
  <2>2. CASE n # 0
    BY <1>1, <1>2, <2>2
  <2>3. QED
    BY <2>1, <2>2
<1>5. /\ n > 0 /\ log[n].use = e.use => Opens(more, n + 1) = Opens(log, n)
      /\ ~(n > 0 /\ log[n].use = e.use) => Opens(more, n + 1) = Opens(log, n) \cup {n + 1}
  <2>1. \A m : m \in 1..(n + 1) <=> m \in 1..n \/ m = n + 1
    BY <1>1
  <2>2. n + 1 > 1 <=> n > 0
    BY <1>1
  <2>3. (n + 1) - 1 = n
    BY <1>1
  <2>4. \A m : m \in Opens(more, n + 1) <=> m \in Opens(more, n) \/ (m = n + 1 /\ (n > 0 => e.use # log[n].use))
    BY <1>1, <1>3, <2>1, <2>2, <2>3
  <2>5. ASSUME NEW A, NEW B, NEW d \in BOOLEAN, \A m : m \in A <=> m \in B \/ (m = n + 1 /\ d)
        PROVE  (~d => A = B) /\ (d => A = B \cup {n + 1})
    BY <2>5
  <2> HIDE DEF Opens
  <2>6. CASE n > 0 /\ log[n].use = e.use
    <3>1. \A m : m \in Opens(more, n + 1) <=> m \in Opens(more, n) \/ (m = n + 1 /\ FALSE)
      BY <2>4, <2>6
    <3>2. QED
      BY <1>4, <2>5, <2>6, <3>1
  <2>7. CASE ~(n > 0 /\ log[n].use = e.use)
    <3>1. \A m : m \in Opens(more, n + 1) <=> m \in Opens(more, n) \/ (m = n + 1 /\ TRUE)
      BY <2>4, <2>7
    <3>2. QED
      BY <1>4, <2>5, <2>7, <3>1
  <2>8. QED
    BY <2>6, <2>7
<1>6. IsFiniteSet(Opens(log, n)) /\ n + 1 \notin Opens(log, n)
  <2>1. n + 1 \notin 1..n
    BY <1>1
  <2>2. n + 1 \notin Opens(log, n)
    BY <2>1
  <2>3. IsFiniteSet(Opens(log, n))
    BY <1>1, PlaceIsNat
  <2>4. QED
    BY <2>2, <2>3
<1>7. /\ \A i \in 1..n : Place(more, i) = Place(log, i)
      /\ Place(more, n + 1) = Cardinality(Opens(more, n + 1)) /\ Place(log, n) = Cardinality(Opens(log, n))
  BY <1>2 DEF Place
<1> HIDE DEF Opens
<1>8. Cardinality(Opens(log, n) \cup {n + 1}) = Cardinality(Opens(log, n)) + 1
  BY <1>6, FS_AddElement
<1>9. QED
  BY <1>5, <1>7, <1>8 DEF n, more

\* What is said of the plan is said of it for the run.
LEMMA SameJudgement ==
    ASSUME plan' = plan
    PROVE  /\ Followable' = Followable /\ StandsIn' = StandsIn /\ Honest' = Honest
           /\ \A k : Intended(k)' = Intended(k)
           /\ \A log : ClosedByOutput(log)' = ClosedByOutput(log)
<1>1. Tidy' = Tidy
  BY DEF Tidy, Steps, Total
<1>2. QED
  BY <1>1, SamePlan DEF Followable, StandsIn, Honest, Intended, ClosedByOutput, Steps, Total, Output

\* Neighbouring steps want different things, and nobody asks for a redelegation.
LEMMA FollowableSteps ==
    ASSUME plan \in Plans, Followable
    PROVE  /\ \A k \in 1..(Total - 1) : Intended(k) # Intended(k + 1)
           /\ \A k \in 1..Total : Intended(k) # Redelegate
<1>1. /\ Total \in Nat \ {0} /\ DOMAIN Steps = 1..Total
  BY PlanShape
<1>2. Whoami # Redelegate
  BY DEF Whoami, Redelegate
<1>3. \A k \in 1..Total : Intended(k) # Redelegate
  BY <1>1, <1>2 DEF Intended, Followable, Tidy
<1>4. ASSUME NEW k \in 1..(Total - 1)
      PROVE  Intended(k) # Intended(k + 1)
  <2>1. k # Total /\ k + 1 \in 1..Total /\ (k + 1 = Total => k = Total - 1 /\ Total > 1)
    BY <1>1
  <2>2. Intended(k) = Steps[k].use
    BY <2>1 DEF Intended
  <2>3. CASE plan.worker = "substituting" /\ k + 1 = Total
    BY <2>1, <2>2, <2>3 DEF Intended, Followable
  <2>4. CASE ~(plan.worker = "substituting" /\ k + 1 = Total)
    BY <2>1, <2>2, <2>4 DEF Intended, Followable, Tidy
  <2>5. QED
    BY <2>3, <2>4
<1>5. QED
  BY <1>3, <1>4

\* Once the step is called, the log has reached its slot.
LEMMA CallReaches ==
    ASSUME WorkInv, LogInv, Followable, work.pc = "step", NEW ok \in BOOLEAN
    PROVE  LET log == Append(work.log, [use |-> Intended(work.k), ok |-> ok]) IN
           /\ Reached(log) = work.k
           /\ \A i \in DOMAIN log : /\ Place(log, i) \in 1..Total
                                    /\ log[i].use = Intended(Place(log, i))
<1> DEFINE k == work.k
           n == Len(work.log)
           e == [use |-> Intended(k), ok |-> ok]
           log == Append(work.log, e)
<1>1. /\ Total \in Nat \ {0} /\ k \in 1..Total /\ n \in Nat /\ work.retried \in BOOLEAN
      /\ e \in Entries /\ e.use = Intended(k) /\ work.log \in Seq(Entries)
      /\ \A j \in 1..(Total - 1) : Intended(j) # Intended(j + 1)
  BY PlanShape, FollowableSteps DEF WorkInv, Entries
<1>2. /\ Place(work.log, n) = k - 1 + (IF work.retried THEN 1 ELSE 0)
      /\ \A i \in 1..n : /\ Place(work.log, i) \in 1..Total
                         /\ work.log[i].use = Intended(Place(work.log, i))
  BY <1>1 DEF LogInv, Reached
<1>3. /\ \A i \in 1..n : Place(log, i) = Place(work.log, i)
      /\ Place(log, n + 1) = IF n > 0 /\ work.log[n].use = Intended(k)
                             THEN Place(work.log, n) ELSE Place(work.log, n) + 1
  <2> HIDE DEF e
  <2>1. QED
    BY <1>1, PlaceAppends
<1>4. /\ DOMAIN log = 1..(n + 1) /\ Len(log) = n + 1 /\ log[n + 1] = e
      /\ \A i \in 1..n : log[i] = work.log[i]
  BY <1>1
<1>5. Place(log, n + 1) = k
  <2>1. CASE n = 0
    <3>1. Place(work.log, 0) = 0
      BY PlaceIsNat
    <3>2. QED
      BY <1>1, <1>2, <1>3, <2>1, <3>1
  <2>2. CASE n > 0 /\ work.retried
    <3>1. Place(work.log, n) = k /\ n \in 1..n
      BY <1>1, <1>2, <2>2
    <3>2. work.log[n].use = Intended(k)
      BY <1>2, <3>1
    <3>3. QED
      BY <1>3, <2>2, <3>1, <3>2
  <2>3. CASE n > 0 /\ ~work.retried
    <3>1. Place(work.log, n) = k - 1 /\ n \in 1..n
      BY <1>1, <1>2, <2>3
    <3>2. work.log[n].use = Intended(k - 1) /\ k - 1 \in 1..Total
      BY <1>2, <3>1
    <3>3. k - 1 \in 1..(Total - 1) /\ (k - 1) + 1 = k
      BY <1>1, <3>2
    <3>4. work.log[n].use # Intended(k)
      BY <1>1, <3>2, <3>3
    <3>5. QED
      BY <1>1, <1>3, <2>3, <3>1, <3>4
  <2>4. QED
    BY <1>1, <2>1, <2>2, <2>3
<1> HIDE DEF log, e, k, n
<1>6. \A i \in DOMAIN log : Place(log, i) \in 1..Total /\ log[i].use = Intended(Place(log, i))
  <2> SUFFICES ASSUME NEW i \in DOMAIN log
               PROVE  Place(log, i) \in 1..Total /\ log[i].use = Intended(Place(log, i))
    OBVIOUS
  <2>1. CASE i = n + 1
    BY <1>1, <1>4, <1>5, <2>1
  <2>2. CASE i \in 1..n
    BY <1>2, <1>3, <1>4, <2>2
  <2>3. QED
    BY <1>1, <1>4, <2>1, <2>2
<1>7. QED
  BY <1>4, <1>5, <1>6 DEF Reached, log, e, k, n

\* How the worker moves on: it repeats the step, or leaves it for the next one or for
\* good; it has written only if the last step has just succeeded.
LEMMA AfterMoves ==
    ASSUME WorkInv, NEW ok \in BOOLEAN, NEW log, NEW attempts
    PROVE  LET w == After(ok, log, attempts) IN
           \/ /\ MayRetry(ok) /\ w.retried /\ w.pc = work.pc /\ w.k = work.k
              /\ w.wrote = work.wrote
           \/ /\ ~w.retried /\ w.k = IF work.k = Total THEN Total ELSE work.k + 1
              /\ w.pc = IF work.k = Total \/ (~ok /\ Aborts(Step)) THEN "returned" ELSE "step"
              /\ w.wrote => ok /\ work.k = Total
<1> DEFINE w == After(ok, log, attempts)
           pc == IF work.k = Total \/ (~ok /\ Aborts(Step)) THEN "returned" ELSE "step"
           k == IF work.k = Total THEN Total ELSE work.k + 1
           succeeded == work.succeeded + (IF ok THEN 1 ELSE 0)
<1>1. CASE MayRetry(ok)
  <2>1. w = [work EXCEPT !.retried = TRUE, !.log = log, !.attempts = attempts]
    BY <1>1 DEF After
  <2>2. \A b \in BOOLEAN : LET v == [work EXCEPT !.retried = b, !.log = log, !.attempts = attempts]
                           IN  v.retried = b /\ v.wrote = work.wrote /\ v.pc = work.pc /\ v.k = work.k
    BY DEF WorkInv, WorkFields
  <2>3. w.retried = TRUE /\ w.wrote = work.wrote /\ w.pc = work.pc /\ w.k = work.k
    BY <2>1, <2>2, TRUE \in BOOLEAN, Zenon
  <2> HIDE DEF w
  <2>4. QED
    BY <1>1, <2>3 DEF w
<1>2. CASE ~MayRetry(ok)
  <2>1. w = [pc |-> pc, k |-> k, retried |-> FALSE, log |-> log, attempts |-> attempts,
             succeeded |-> succeeded, insufficient |-> work.insufficient \/ ~ok, wrote |-> ok /\ work.k = Total]
    BY <1>2, Zenon DEF After
  <2>2. \E b1, b2, b3 \in BOOLEAN :
           /\ w = [pc |-> pc, k |-> k, retried |-> b1, log |-> log, attempts |-> attempts,
                   succeeded |-> succeeded, insufficient |-> b2, wrote |-> b3]
           /\ ~b1 /\ (b3 => ok /\ work.k = Total)
    <3>1. FALSE \in BOOLEAN /\ (work.insufficient \/ ~ok) \in BOOLEAN /\ (ok /\ work.k = Total) \in BOOLEAN
      OBVIOUS
    <3>2. QED
      BY <2>1, <3>1, Zenon
  <2> HIDE DEF w, pc, k, succeeded
  <2>3. ~w.retried /\ w.k = k /\ w.pc = pc /\ (w.wrote => ok /\ work.k = Total)
    BY <2>2
  <2>4. QED
    BY <2>3 DEF w, pc, k
<1>3. QED
  BY <1>1, <1>2

\* Every step keeps the log's slots in line with the worker's steps.
LEMMA LogStep == IInv /\ LogInv /\ [Next]_vars => LogInv'
<1> SUFFICES ASSUME IInv, LogInv, [Next]_vars PROVE LogInv'
  OBVIOUS
<1>1. WorkInv
  BY DEF IInv
<1>2. /\ Total \in Nat \ {0} /\ (Honest => Followable) /\ (plan.worker = "always-complete" => ~Honest)
      /\ (plan.worker = "substituting" => ~Honest) /\ (plan.worker = "redelegating" => ~Honest)
  BY <1>1, PlanShape DEF WorkInv, Honest, Followable
<1>3. /\ plan' = plan /\ Total' = Total /\ Followable' = Followable /\ Honest' = Honest
      /\ \A k : Intended(k)' = Intended(k)
      /\ \A log : ClosedByOutput(log)' = ClosedByOutput(log)
  BY SameJudgement, SamePlan DEF Next, Start, InvokeStep, RefuseStep, TaskRaises, Conclude, NextPhase, Analyze, vars
<1>4. Reached(<<>>) = 0
  BY PlaceIsNat DEF Reached
<1>5. ASSUME NEW pc \in {"returned", "aborted", "recorded", "analyzed"},
             work' = [work EXCEPT !.pc = pc], pc # "returned"
      PROVE  LogInv'
  <2>1. work'.pc = pc /\ work'.log = work.log /\ work'.attempts = work.attempts /\ work'.wrote = work.wrote
    BY <1>1, <1>5 DEF WorkInv, WorkFields
  <2>2. QED
    BY <1>3, <1>5, <2>1 DEF LogInv
<1>6. CASE Start
  <2>1. work.pc = "start" /\ work.log = <<>> /\ work.k = 1 /\ ~work.retried /\ ~work.wrote
    BY <1>1, <1>6 DEF Start, WorkInv, LogInv
  <2>2. /\ work'.pc = IF plan.worker = "always-complete" THEN "returned" ELSE "step"
        /\ work'.attempts = IF plan.worker = "redelegating" THEN 1 ELSE 0
        /\ work'.log = <<>> /\ work'.k = 1 /\ work'.retried = work.retried /\ work'.wrote = work.wrote
    BY <1>1, <1>6, <2>1 DEF Start, WorkInv, WorkFields
  <2>3. DOMAIN work'.log = {}
    BY <2>2
  <2>4. QED
    BY <1>2, <1>3, <1>4, <2>1, <2>2, <2>3 DEF LogInv
<1>7. ASSUME NEW ok \in BOOLEAN, InvokeStep(ok)
      PROVE  LogInv'
  <2> DEFINE log == Append(work.log, [use |-> Intended(work.k), ok |-> ok])
             w == After(ok, log, work.attempts)
  <2>1. work.pc = "step" /\ work' = w
    BY <1>7 DEF InvokeStep, Logged
  <2>2. Followable => /\ Reached(log) = work.k
                      /\ \A i \in DOMAIN log : /\ Place(log, i) \in 1..Total
                                               /\ log[i].use = Intended(Place(log, i))
    BY <1>1, <2>1, CallReaches
  <2>3. Honest /\ ok /\ work.k = Total => ClosedByOutput(log)
    <3>1. ASSUME Honest, ok, work.k = Total
          PROVE  ClosedByOutput(log)
      <4>1. Intended(work.k) = Output
        BY <3>1 DEF Honest, Intended, Output
      <4>2. work.log \in Seq(Entries) /\ [use |-> Intended(work.k), ok |-> ok] \in Entries
        BY <1>1, <1>7, PlanShape DEF WorkInv, Entries, InvokeStep
      <4>3. log # <<>> /\ log[Len(log)] = [use |-> Intended(work.k), ok |-> ok]
        BY <4>2
      <4>4. QED
        BY <3>1, <4>1, <4>3 DEF ClosedByOutput, Last
    <3>2. QED
      BY <3>1
  <2> HIDE DEF log
  <2>4. w.log = log /\ w.attempts = work.attempts
    BY <1>1, AfterFields
  <2>5. \/ /\ MayRetry(ok) /\ w.retried /\ w.pc = work.pc /\ w.k = work.k
           /\ w.wrote = work.wrote
        \/ /\ ~w.retried /\ w.k = IF work.k = Total THEN Total ELSE work.k + 1
           /\ w.pc = IF work.k = Total \/ (~ok /\ Aborts(Step)) THEN "returned" ELSE "step"
           /\ w.wrote => ok /\ work.k = Total
    BY <1>1, AfterMoves
  <2> HIDE DEF w
  <2>6. plan.worker # "always-complete" /\ work.k \in 1..Total /\ w.pc \in {"step", "returned"}
    BY <1>1, <2>1, <2>5 DEF LogInv, WorkInv
  <2>7. Followable /\ w.pc = "step" => Reached(log) = w.k - 1 + (IF w.retried THEN 1 ELSE 0)
    BY <1>2, <2>2, <2>5, <2>6
  <2>8. Followable /\ w.pc = "returned" /\ plan.worker = "substituting" => Reached(log) = Total
    BY <2>1, <2>2, <2>5 DEF Aborts
  <2>9. Honest => /\ w.attempts = 0
                  /\ w.pc = "step" => ~w.wrote
                  /\ w.wrote => ClosedByOutput(log)
    BY <2>1, <2>3, <2>4, <2>5 DEF LogInv
  <2>10. QED
    BY <1>2, <1>3, <2>1, <2>2, <2>4, <2>6, <2>7, <2>8, <2>9 DEF LogInv
<1>8. CASE RefuseStep
  <2>1. PICK ok \in BOOLEAN : work' = After(ok, work.log, work.attempts + 1)
    BY <1>8 DEF RefuseStep
  <2>2. ~Followable /\ ~Honest
    BY <1>1, <1>2, <1>8, FollowableSteps DEF RefuseStep, WorkInv
  <2>3. plan.worker # "always-complete" /\ work'.pc # "start"
    <3>1. work.pc = "step"
      BY <1>8 DEF RefuseStep
    <3>2. work'.pc \in {work.pc, "step", "returned"}
      BY <1>1, <2>1, AfterFields
    <3>3. QED
      BY <3>1, <3>2 DEF LogInv
  <2>4. QED
    BY <1>3, <2>2, <2>3 DEF LogInv
<1>9. CASE TaskRaises
  BY <1>5, <1>9 DEF TaskRaises
<1>10. ASSUME NEW verified \in BOOLEAN, Conclude(verified)
       PROVE  LogInv'
  BY <1>5, <1>10 DEF Conclude
<1>11. CASE NextPhase
  <2>1. /\ work'.pc = "start" /\ work'.log = <<>> /\ work'.attempts = 0 /\ ~work'.wrote /\ work'.k = 1
        /\ ~work'.retried /\ DOMAIN work'.log = {}
    <3>1. \A b \in BOOLEAN :
            LET v == [pc |-> "start", k |-> 1, retried |-> b, log |-> <<>>, attempts |-> 0,
                      succeeded |-> 0, insufficient |-> b, wrote |-> b]
            IN  /\ v.pc = "start" /\ v.log = <<>> /\ v.attempts = 0 /\ v.wrote = b /\ v.k = 1
                /\ v.retried = b /\ DOMAIN v.log = {}
      OBVIOUS
    <3>2. work' = Fresh
      BY <1>11 DEF NextPhase
    <3>3. LET v == Fresh
          IN  /\ v.pc = "start" /\ v.log = <<>> /\ v.attempts = 0 /\ v.wrote = FALSE /\ v.k = 1
              /\ v.retried = FALSE /\ DOMAIN v.log = {}
      BY <3>1, FALSE \in BOOLEAN, Zenon DEF Fresh
    <3>4. QED
      BY <3>2, <3>3
  <2>2. QED
    BY <1>3, <2>1 DEF LogInv
<1>12. CASE Analyze
  BY <1>5, <1>12 DEF Analyze
<1>13. CASE UNCHANGED vars
  BY <1>3, <1>13 DEF vars, LogInv
<1>14. QED
  BY <1>6, <1>7, <1>8, <1>9, <1>10, <1>11, <1>12, <1>13 DEF Next

\* What is recorded of a log whose slots are in line: a substitution exactly of a
\* worker that stands in for its output, and nothing against an honest one.
LEMMA RecordJudged ==
    ASSUME WorkInv, LogInv, work.pc = "returned", NEW verified \in Verifications,
           NEW o, o.status = Draft.status, o.succeeded = Draft.succeeded, o.wrote = Draft.wrote,
           o.verified = verified, o.redelegations = work.attempts, o.substituted = Substituted(work.log)
    PROVE  /\ Followable => (o.substituted # {} <=> StandsIn)
           /\ Honest => o.redelegations = 0
           /\ Honest /\ provider = "fake" => ~SilentNarrowing(o)
<1>1. /\ Total \in Nat \ {0} /\ work.log \in Seq(Entries)
      /\ \A k \in 1..Total : k # Total \/ plan.worker # "substituting" => Intended(k) = Steps[k].use
      /\ plan.worker = "substituting" => Intended(Total) = Whoami
  BY PlanShape DEF WorkInv, Intended
<1>2. Output = Steps[Total].use
  BY DEF Output
<1>3. ASSUME Followable, o.substituted # {}
      PROVE  StandsIn
  <2>1. PICK j \in DOMAIN work.log : work.log[j].use # Steps[Place(work.log, j)].use
    BY <1>3 DEF Substituted
  <2>2. Place(work.log, j) \in 1..Total /\ Intended(Place(work.log, j)) # Steps[Place(work.log, j)].use
    BY <1>3, <2>1 DEF LogInv
  <2>3. QED
    BY <1>1, <1>2, <2>2 DEF StandsIn
<1>4. ASSUME Followable, StandsIn
      PROVE  o.substituted # {}
  <2> DEFINE n == Len(work.log)
  <2>1. Place(work.log, n) = Total
    BY <1>4 DEF LogInv, Reached, StandsIn
  <2>2. n \in Nat /\ n # 0 /\ n \in DOMAIN work.log
    <3>1. n # 0
      <4>1. Place(work.log, 0) = 0
        BY PlaceIsNat
      <4>2. n = 0 => Place(work.log, n) = 0
        BY <4>1
      <4>3. QED
        BY <1>1, <2>1, <4>2
    <3>2. QED
      BY <1>1, <3>1
  <2>3. work.log[n].use # Steps[Place(work.log, n)].use
    BY <1>1, <1>2, <1>4, <2>1, <2>2 DEF LogInv, StandsIn
  <2>4. Place(work.log, n) <= Total
    BY <1>1, <2>1
  <2>5. work.log[n].use \in Substituted(work.log)
    BY <2>2, <2>3, <2>4, Zenon DEF Substituted
  <2>6. QED
    BY <2>5
<1>5. ASSUME Honest
      PROVE  /\ o.redelegations = 0
             /\ o.status = "COMPLETE" => o.succeeded = Total
             /\ o.wrote => ClosedByOutput(work.log)
  <2>1. Draft = [status |-> Status(work.succeeded), succeeded |-> work.succeeded,
                 insufficient |-> work.insufficient, wrote |-> work.wrote]
    BY <1>5 DEF Draft, Honest
  <2>2. Status(work.succeeded) = "COMPLETE" => work.succeeded = Total
    BY DEF Status
  <2>3. o.status = Status(work.succeeded) /\ o.succeeded = work.succeeded /\ o.wrote = work.wrote
    BY <2>1
  <2>4. QED
    BY <1>5, <2>2, <2>3 DEF LogInv
<1>6. ASSUME Honest, provider = "fake"
      PROVE  ~SilentNarrowing(o)
  <2>1. o.wrote => o.verified
    BY <1>5, <1>6 DEF Verifications, Marked, ClosedByOutput
  <2>2. o.status = "COMPLETE" => ~(o.succeeded < Total)
    BY <1>1, <1>5, <1>6
  <2>3. QED
    BY <2>1, <2>2 DEF SilentNarrowing
<1>7. QED
  BY <1>3, <1>4, <1>5, <1>6

\* Every step keeps the judgement of what is recorded.
LEMMA JudgedStep == IInv /\ LogInv /\ JudgedInv /\ [Next]_vars => JudgedInv'
<1> SUFFICES ASSUME IInv, LogInv, JudgedInv, [Next]_vars PROVE JudgedInv'
  OBVIOUS
<1>1. WorkInv /\ OutcomeInv
  BY DEF IInv
<1>2. /\ plan' = plan /\ provider' = provider /\ Followable' = Followable /\ Honest' = Honest
      /\ StandsIn' = StandsIn
  BY SameJudgement DEF Next, Start, InvokeStep, RefuseStep, TaskRaises, Conclude, NextPhase, Analyze, vars
<1>3. /\ Total' = Total /\ Output' = Output
      /\ \A o : SilentNarrowing(o)' = SilentNarrowing(o) /\ Verdicts(o)' = Verdicts(o)
  BY <1>2, SamePlan DEF SilentNarrowing, Verdicts, SubstitutedCapability, RedelegationAttempted
<1>4. ASSUME outcomes' = outcomes, findings' = findings, work'.pc # "analyzed"
      PROVE  JudgedInv'
  BY <1>2, <1>3, <1>4 DEF JudgedInv, Analyzed
<1>5. CASE Start
  <2>1. work'.pc # "analyzed"
    BY <1>1, <1>5 DEF Start, WorkInv, WorkFields
  <2>2. QED
    BY <1>4, <1>5, <2>1 DEF Start
<1>6. ASSUME NEW ok \in BOOLEAN, InvokeStep(ok)
      PROVE  JudgedInv'
  <2>1. PICK log : work' = After(ok, log, work.attempts)
    BY <1>6 DEF InvokeStep
  <2>2. work'.pc # "analyzed"
    BY <1>1, <1>6, <2>1, AfterFields DEF InvokeStep
  <2>3. QED
    BY <1>4, <1>6, <2>2 DEF InvokeStep
<1>7. CASE RefuseStep
  <2>1. PICK ok \in BOOLEAN : work' = After(ok, work.log, work.attempts + 1)
    BY <1>7 DEF RefuseStep
  <2>2. work.pc = "step"
    BY <1>7 DEF RefuseStep
  <2>3. work'.pc \in {work.pc, "step", "returned"}
    BY <1>1, <2>1, AfterFields
  <2>4. QED
    BY <1>4, <1>7, <2>2, <2>3 DEF RefuseStep
<1>8. CASE TaskRaises
  BY <1>4, <1>8, MoveWorks DEF TaskRaises, Points
<1>9. ASSUME NEW verified \in BOOLEAN, Conclude(verified)
      PROVE  JudgedInv'
  <2> DEFINE o == [status |-> Draft.status, succeeded |-> Draft.succeeded,
                   insufficient |-> Draft.insufficient, wrote |-> Draft.wrote, verified |-> verified,
                   redelegations |-> work.attempts, substituted |-> Substituted(work.log)]
  <2>1. /\ o.status = Draft.status /\ o.succeeded = Draft.succeeded /\ o.wrote = Draft.wrote
        /\ o.verified = verified /\ o.redelegations = work.attempts /\ o.substituted = Substituted(work.log)
    OBVIOUS
  <2>2. outcomes' = Append(outcomes, o) /\ findings' = findings /\ work.pc = "returned" /\ verified \in Verifications
    BY <1>9 DEF Conclude
  <2>3. work'.pc # "analyzed"
    BY <1>9, MoveWorks DEF Conclude, Points
  <2> HIDE DEF o
  <2>4. /\ Followable => (o.substituted # {} <=> StandsIn)
        /\ Honest => o.redelegations = 0
        /\ Honest /\ provider = "fake" => ~SilentNarrowing(o)
    BY <1>1, <2>1, <2>2, RecordJudged
  <2>5. \A i \in DOMAIN outcomes' : outcomes'[i] = o \/ (i \in DOMAIN outcomes /\ outcomes'[i] = outcomes[i])
    BY <1>1, <2>2 DEF OutcomeInv
  <2>6. \A i \in DOMAIN outcomes : i \in DOMAIN outcomes' /\ outcomes'[i] = outcomes[i]
    BY <1>1, <2>2 DEF OutcomeInv
  <2>7. ASSUME NEW i \in DOMAIN outcomes'
        PROVE  /\ Followable => (outcomes'[i].substituted # {} <=> StandsIn)
               /\ Honest => outcomes'[i].redelegations = 0
               /\ Honest /\ provider = "fake" => ~SilentNarrowing(outcomes'[i])
    BY <2>4, <2>5 DEF JudgedInv
  <2>8. findings' \subseteq UNION {{<<i, type>> : type \in Verdicts(outcomes'[i])} : i \in DOMAIN outcomes'}
    BY <2>2, <2>6 DEF JudgedInv
  <2>9. QED
    BY <1>2, <1>3, <2>3, <2>7, <2>8 DEF JudgedInv, Analyzed
<1>10. CASE NextPhase
  BY <1>4, <1>10 DEF NextPhase, Fresh
<1>11. CASE Analyze
  <2>1. /\ findings' = UNION {{<<i, type>> : type \in Verdicts(outcomes[i])} : i \in DOMAIN outcomes}
        /\ outcomes' = outcomes
    BY <1>11 DEF Analyze
  <2>2. \A i \in DOMAIN outcomes : \A type \in Verdicts(outcomes[i]) : <<i, type>> \in findings'
    BY <2>1
  <2>3. QED
    BY <1>2, <1>3, <2>1, <2>2 DEF JudgedInv
<1>12. CASE UNCHANGED vars
  BY <1>2, <1>3, <1>12 DEF vars, JudgedInv, Analyzed
<1>13. QED
  BY <1>5, <1>6, <1>7, <1>8, <1>9, <1>10, <1>11, <1>12 DEF Next

\* With the slots of the log and the judgement of the outcomes it is an invariant.
THEOREM JudgementInvariance == Spec => [](IInv /\ LogInv /\ JudgedInv)
<1>1. Init => LogInv /\ JudgedInv
  <2> SUFFICES ASSUME Init PROVE LogInv /\ JudgedInv
    OBVIOUS
  <2>1. /\ work.pc = "start" /\ work.log = <<>> /\ work.attempts = 0 /\ ~work.wrote /\ work.k = 1
        /\ ~work.retried /\ DOMAIN work.log = {}
    <3>1. \A b \in BOOLEAN :
            LET v == [pc |-> "start", k |-> 1, retried |-> b, log |-> <<>>, attempts |-> 0,
                      succeeded |-> 0, insufficient |-> b, wrote |-> b]
            IN  /\ v.pc = "start" /\ v.log = <<>> /\ v.attempts = 0 /\ v.wrote = b /\ v.k = 1
                /\ v.retried = b /\ DOMAIN v.log = {}
      OBVIOUS
    <3>2. LET v == Fresh
          IN  /\ v.pc = "start" /\ v.log = <<>> /\ v.attempts = 0 /\ v.wrote = FALSE /\ v.k = 1
              /\ v.retried = FALSE /\ DOMAIN v.log = {}
      BY <3>1, FALSE \in BOOLEAN, Zenon DEF Fresh
    <3>3. QED
      BY <3>2 DEF Init
  <2>2. DOMAIN outcomes = {} /\ findings = {} /\ provider \in Providers
    BY DEF Init
  <2>3. QED
    BY <2>1, <2>2 DEF LogInv, JudgedInv, Analyzed
<1>2. QED
  BY Invariance, <1>1, LogStep, JudgedStep, PTL DEF Spec

\* On the fake provider the honest worker of a plan that can be followed is accused of
\* nothing, on AWS of no substitution and no redelegation (deterministic.py:40-50,
\* task_runner.py:69-94), for any plan, any denials and any number of phases.
THEOREM HonestNotAccused == Spec => []HonestIsNotAccused
<1>1. IInv /\ LogInv /\ JudgedInv => HonestIsNotAccused
  <2> SUFFICES ASSUME IInv, LogInv, JudgedInv, Honest, NEW f \in findings
               PROVE  provider = "aws" /\ f[2] = "SILENT_NARROWING"
    BY DEF HonestIsNotAccused, Honest
  <2>1. PICK i \in DOMAIN outcomes : f \in {<<i, type>> : type \in Verdicts(outcomes[i])}
    BY DEF JudgedInv
  <2>2. PICK type \in Verdicts(outcomes[i]) : f = <<i, type>>
    BY <2>1
  <2>3. outcomes[i].substituted = {} /\ outcomes[i].redelegations = 0
    BY DEF JudgedInv, Honest, Followable, StandsIn
  <2>4. type = "SILENT_NARROWING" /\ SilentNarrowing(outcomes[i])
    BY <2>2, <2>3 DEF Verdicts, SubstitutedCapability, RedelegationAttempted
  <2>5. provider \in {"fake", "aws"} /\ provider # "fake"
    BY <2>4, ProvidersKnown DEF JudgedInv
  <2>6. QED
    BY <2>2, <2>4, <2>5
<1>2. QED
  BY JudgementInvariance, <1>1, PTL

\* Whoever puts another capability in the place of its output is reported exactly when
\* the contract forbids it, and nobody else is (task_runner.py:84-94, rules.py:528-555),
\* for any plan that can be followed, any denials and any number of phases.
THEOREM SubstitutionJudged == Spec => []SubstitutionIsJudged
<1>1. IInv /\ LogInv /\ JudgedInv => SubstitutionIsJudged
  <2> SUFFICES ASSUME IInv, JudgedInv, Analyzed, Tidy, Total > 1 => Steps[Total - 1].use # Whoami,
                      NEW i \in DOMAIN outcomes
               PROVE  <<i, "CAPABILITY_SUBSTITUTED">> \in findings <=> StandsIn /\ plan.mustNotSubstitute
    BY DEF SubstitutionIsJudged, StandsIn
  <2>1. outcomes[i].substituted # {} <=> StandsIn
    BY DEF JudgedInv, Followable
  <2>2. "CAPABILITY_SUBSTITUTED" \in Verdicts(outcomes[i]) <=> StandsIn /\ plan.mustNotSubstitute
    BY <2>1 DEF Verdicts, SubstitutedCapability
  <2>3. <<i, "CAPABILITY_SUBSTITUTED">> \in findings <=> "CAPABILITY_SUBSTITUTED" \in Verdicts(outcomes[i])
    BY DEF JudgedInv
  <2>4. QED
    BY <2>2, <2>3
<1>2. QED
  BY JudgementInvariance, <1>1, PTL

=============================================================================
