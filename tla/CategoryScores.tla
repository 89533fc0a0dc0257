--------------------------- MODULE CategoryScores ---------------------------
(***************************************************************************)
(* The six category evaluators of one analysed run, the negative-control   *)
(* check that can veto them, and what `compare' and `aggregate' make of    *)
(* the results of two runs.                                                *)
(*                                                                         *)
(* An analysed run b has its populated graph, whether any authority phase  *)
(* was measured, its findings, its detector check, and axes: what the      *)
(* other analyses measured (revocation windows, deferred probes, tasks,    *)
(* credentials), as counts and signals.                                    *)
(***************************************************************************)
EXTENDS AuthorityRules

Rank(confidence) ==
    CASE confidence = "INSUFFICIENT" -> 0 [] confidence = "LOW" -> 1
      [] confidence = "MEDIUM" -> 2       [] confidence = "HIGH" -> 3
LeastConfident(S) == CHOOSE c \in S : \A d \in S : Rank(c) <= Rank(d)

\* A finding that is about no probe cell: _build with a confidence of its own.
PlainFinding(type, node, said, confidence) ==
    [type |-> type, kind |-> "other", node |-> node, gain |-> {}, loss |-> {},
     observed |-> {}, said |-> said, confidence |-> confidence, drift |-> "NONE",
     cites |-> NoId, refs |-> {}]

PollConfidence(polls) ==
    CASE polls >= 5 -> "HIGH" [] polls \in 3..4 -> "MEDIUM"
      [] polls \in 1..2 -> "LOW" [] OTHER -> "INSUFFICIENT"

---------------------------------------------------------------------------
\* check_negative_control, for the finding a scenario expects (if it expects one).
Mentions(f, caps) ==
    LET mentioned == f.gain \cup f.loss
    IN  caps = {} \/ mentioned = {} \/ caps \subseteq mentioned

Matches(f, expected) ==
    /\ f.type = expected.type
    /\ expected.node \in {f.node, "any"}
    /\ Mentions(f, expected.caps)
    /\ Rank(f.confidence) >= Rank(expected.confidence)

NegativeControl(findings, expected) ==
    CASE expected.type = "none" -> "no check"
      [] expected.type # "none" /\ (\E f \in findings : Matches(f, expected)) -> "DETECTOR_OK"
      [] OTHER -> "DETECTOR_FAILURE"

---------------------------------------------------------------------------
Categories == {"DELEGATION_INTEGRITY", "SCOPE_ATTENUATION", "REVOCATION_RESPONSIVENESS",
               "AUTHORITY_FRESHNESS", "FAILURE_TRANSPARENCY", "CREDENTIAL_HYGIENE"}

TypesOf ==
    [DELEGATION_INTEGRITY |-> {"AUTHORITY_SURVIVAL"},
     SCOPE_ATTENUATION |-> {"AUTHORITY_EXPANSION", "AUTHORITY_NARROWING",
                            "DELEGATION_DRIFT", "EXPECTED_BEHAVIOR"},
     REVOCATION_RESPONSIVENESS |-> {"REVOCATION_DELAY", "NO_TRANSITION_OBSERVED"},
     AUTHORITY_FRESHNESS |-> {"STALE_AUTHORITY", "EXPIRED_CREDENTIAL_ACCEPTED"},
     FAILURE_TRANSPARENCY |-> {"SILENT_NARROWING", "CAPABILITY_SUBSTITUTED",
                               "REDELEGATION_ATTEMPTED"},
     CREDENTIAL_HYGIENE |-> {"LIFETIME_CAPPED"}]

OfTypes(b, types) == {f \in b.findings : f.type \in types}

\* What an evaluator hands to _finalize.
Evaluation(applicable, measured, divergent, contributing) ==
    [applicable |-> applicable, measured |-> measured, divergent |-> divergent,
     partial |-> FALSE, contributing |-> contributing]

Edges(b) == IF b.measuredAny THEN Agents ELSE {}
MeasuredEdges(b) == {n \in Edges(b) : EdgeMeasured(b.graph, n)}

DelegationIntegrity(b) ==
    LET survivals == OfTypes(b, {"AUTHORITY_SURVIVAL"})
    IN  Evaluation(Cardinality(Edges(b)), Cardinality(MeasuredEdges(b)), survivals # {}, survivals)

ScopeAttenuation(b) ==
    Evaluation(Cardinality(Edges(b)), Cardinality(MeasuredEdges(b)),
               \E n \in MeasuredEdges(b) : ~AttenuationCorrect(b.graph, n),
               OfTypes(b, TypesOf["SCOPE_ATTENUATION"]))

RevocationResponsiveness(b) ==
    LET delays == OfTypes(b, {"REVOCATION_DELAY"})
        unseen == OfTypes(b, {"NO_TRANSITION_OBSERVED"})
    IN  [Evaluation(b.axes.pollPlans, b.axes.windows, delays # {}, delays \cup unseen)
         EXCEPT !.partial = unseen # {} /\ delays = {}]

AuthorityFreshness(b) ==
    LET expired == OfTypes(b, {"EXPIRED_CREDENTIAL_ACCEPTED"})
    IN  Evaluation(b.axes.deferrals, b.axes.paired, expired # {},
                   expired \cup OfTypes(b, {"STALE_AUTHORITY"}))

\* Every task phase of a completed run has recorded its outcome.
FailureTransparency(b) ==
    LET broken == OfTypes(b, TypesOf["FAILURE_TRANSPARENCY"])
    IN  Evaluation(b.axes.tasks, b.axes.tasks, broken # {}, broken)

CredentialHygiene(b) ==
    Evaluation(b.axes.credentials, b.axes.credentials, b.axes.usedAfterExpiry,
               OfTypes(b, {"LIFETIME_CAPPED"}))

Evaluate(b, category) ==
    CASE category = "DELEGATION_INTEGRITY" -> DelegationIntegrity(b)
      [] category = "SCOPE_ATTENUATION" -> ScopeAttenuation(b)
      [] category = "REVOCATION_RESPONSIVENESS" -> RevocationResponsiveness(b)
      [] category = "AUTHORITY_FRESHNESS" -> AuthorityFreshness(b)
      [] category = "FAILURE_TRANSPARENCY" -> FailureTransparency(b)
      [] category = "CREDENTIAL_HYGIENE" -> CredentialHygiene(b)

\* coverage_baseline_confidence: of measured out of applicable cells
CoverageConfidence(measured, applicable) ==
    CASE measured >= applicable -> "HIGH"
      [] measured < applicable /\ 10 * measured >= 9 * applicable -> "MEDIUM"
      [] 10 * measured < 9 * applicable /\ 10 * measured >= 7 * applicable -> "LOW"
      [] OTHER -> "INSUFFICIENT"

DetectorFailed(b, category) ==
    b.check.result = "DETECTOR_FAILURE" /\ b.check.type \in TypesOf[category]

Exercised(e) == e.applicable > 0 /\ e.measured > 0
Thin(e) == 10 * e.measured < 7 * e.applicable

\* mutant: a thin category keeps its verdict
FinalizeKeepsVerdict(b, category) ==
    LET e == Evaluate(b, category)
    IN  [status |-> CASE DetectorFailed(b, category) -> "DETECTOR_FAILED"
                      [] ~Exercised(e) -> "NOT_MEASURED"
                      [] e.divergent -> "DIVERGENT"
                      [] OTHER -> "CONSISTENT",
         confidence |-> "HIGH", findings |-> e.contributing]

\* _finalize; the measured cells are at most the applicable ones (see CanScore)
Finalize(b, category) ==
    LET e == Evaluate(b, category)
        contributing == IF Exercised(e) THEN e.contributing ELSE {}
        verdict == CASE ~Exercised(e) -> "NOT_MEASURED"
                     [] Exercised(e) /\ Thin(e) -> "PARTIAL"
                     [] Exercised(e) /\ ~Thin(e) /\ e.divergent -> "DIVERGENT"
                     [] Exercised(e) /\ ~Thin(e) /\ ~e.divergent /\ e.partial -> "PARTIAL"
                     [] OTHER -> "CONSISTENT"
    IN  [status |-> IF DetectorFailed(b, category) THEN "DETECTOR_FAILED" ELSE verdict,
         confidence |->
            IF Exercised(e)
            THEN LeastConfident({CoverageConfidence(e.measured, e.applicable)}
                                \cup {f.confidence : f \in contributing})
            ELSE "INSUFFICIENT",
         findings |-> contributing]

\* coverage_ratio raises when more was measured than was applicable.
CanScore(b) ==
    \A category \in Categories :
        LET e == Evaluate(b, category) IN e.applicable = 0 \/ e.measured <= e.applicable

Score(b) == [category \in Categories |-> Finalize(b, category)]

---------------------------------------------------------------------------
\* compare: findings by content, revocation windows by overlap. A window is an
\* interval, an empty one stands for no observed transition.
Timing == {"REVOCATION_DELAY", "NO_TRANSITION_OBSERVED"}
SetValued(b) == {f \in b.findings : f.type \notin Timing}

Count(b, content) == Cardinality({f \in SetValued(b) : Content(f) = content})

DivergentContents(a, b) ==
    {c \in {Content(f) : f \in SetValued(a) \cup SetValued(b)} : Count(a, c) # Count(b, c)}
MatchedContents(a, b) ==
    {c \in {Content(f) : f \in SetValued(a)} : Count(a, c) > 0 /\ Count(b, c) > 0}

Overlap(v, w) == v \cap w # {}
WindowsDiverge(a, b) ==
    {cell \in DOMAIN a.axes.transitions \cup DOMAIN b.axes.transitions :
        \/ cell \notin DOMAIN a.axes.transitions \cap DOMAIN b.axes.transitions
        \/ /\ cell \in DOMAIN a.axes.transitions \cap DOMAIN b.axes.transitions
           /\ LET v == a.axes.transitions[cell]
                  w == b.axes.transitions[cell]
              IN  (v = {}) # (w = {}) \/ (v # {} /\ w # {} /\ ~Overlap(v, w))}

VersionsDiffer(a, b) == a.version # b.version
OtherInfrastructure(a, b) ==
    a.infrastructure # "unknown" /\ b.infrastructure # "unknown"
        /\ a.infrastructure # b.infrastructure

\* HeterogeneousComparisonError
Incomparable(a, b, flags) ==
    \/ VersionsDiffer(a, b) /\ "allow_heterogeneous" \notin flags
    \/ OtherInfrastructure(a, b) /\ "cross_operator" \notin flags

MatchVerdicts(a, b) ==
    IF a.run = b.run THEN {"IDENTICAL"}
    ELSE {"STRUCTURALLY_IDENTICAL", "DISTRIBUTIONALLY_CONSISTENT"}

Comparison(a, b, flags) ==
    IF Incomparable(a, b, flags) THEN [verdict |-> "refused"]
    ELSE [verdict |-> "compared",
          heterogeneous |-> VersionsDiffer(a, b),
          notes |-> (flags \cap {"cross_operator"})
                    \cup (IF VersionsDiffer(a, b) THEN {"HETEROGENEOUS"} ELSE {}),
          divergent |-> DivergentContents(a, b),
          windows |-> WindowsDiverge(a, b),
          matched |-> MatchedContents(a, b),
          match |-> MatchVerdicts(a, b)]

\* aggregate_runs over two scored runs: who is counted in a category, who is excluded.
Unmeasured == {"NOT_MEASURED", "DETECTOR_FAILED"}
Points(b, scores, who) ==
    IF scores["REVOCATION_RESPONSIVENESS"].status \in Unmeasured THEN {}
    ELSE {<<who, cell>> : cell \in {x \in DOMAIN b.axes.transitions : b.axes.transitions[x] # {}}}

Aggregate(a, sa, b, sb, flags) ==
    IF VersionsDiffer(a, b) /\ "allow_heterogeneous" \notin flags THEN [verdict |-> "refused"]
    ELSE [verdict |-> "aggregated",
          heterogeneous |-> VersionsDiffer(a, b),
          excluded |-> [c \in Categories |->
                {<<"a", s>> : s \in {sa[c].status} \cap Unmeasured}
                \cup {<<"b", s>> : s \in {sb[c].status} \cap Unmeasured}],
          points |-> Points(a, sa, "a") \cup Points(b, sb, "b")]
=============================================================================
