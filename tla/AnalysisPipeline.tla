-------------------------- MODULE AnalysisPipeline --------------------------
(***************************************************************************)
(* From a scenario document to its verdicts: the compiler accepts it, the  *)
(* run measures its matrices (or discards some, or aborts) and what the    *)
(* other axes measure, `analyze' turns the evidence of a completed run     *)
(* into findings, the categories are scored, and `compare' sets the run    *)
(* against another.                                                        *)
(***************************************************************************)
EXTENDS ScenarioCompiler, CategoryScores

CONSTANTS
    TrialRows,      \* trials one matrix records for a cell
    OtherRows,      \* bound: what another run may have recorded for one cell instead
    Windows,        \* transition windows: sets of instants, {} for no transition
    PollCounts      \* polls behind a window

Trials == Seq(Denials \cup Errors \cup {"ALLOWED"}) \ {<<>>}
ASSUME RunConstants ==
    TrialRows \subseteq Trials /\ OtherRows \subseteq Trials /\ PollCounts \subseteq Nat \ {0}

VARIABLES
    at,             \* the next matrix
    rows,           \* probe rows by phase and identity
    discarded,      \* matrices C-1 or C-2 discarded
    axes,           \* what the other analyses measured
    status,         \* RUNNING, ABORTED (no manifest is written) or COMPLETED
    result,         \* what analyze made of the bundle
    scores,         \* the six categories
    report          \* a comparison with another run

runVars == <<at, rows, discarded, axes, status>>
verdictVars == <<result, scores, report>>
vars == <<compilerVars, runVars, verdictVars>>

\* PHASE_NAME_TO_PLAN_PHASE; sorted(phases_present) folds by the phases' names.
PlanPhaseOf == [baseline |-> "BASELINE", confirm_present |-> "BASELINE",
                after_delegation |-> "POST_DELEGATION", final |-> "FINAL",
                paired_fresh_credential |-> "PAIRED_FRESH_CREDENTIAL"]
PhaseOrder == <<"BASELINE", "FINAL", "POST_DELEGATION">>
PlanPhases == Range(PlanPhaseOf)

Pending == [pending |-> TRUE]
NoRows == [p \in PlanPhases |-> [n \in Identities |-> <<>>]]
NoAxes == [pollPlans |-> 0, windows |-> 0, transitions |-> <<>>, deferrals |-> 0, paired |-> 0,
           tasks |-> 0, credentials |-> 0, usedAfterExpiry |-> FALSE,
           findings |-> {}]

Init ==
    /\ CompilerInit
    /\ at = 1 /\ rows = NoRows /\ discarded = {} /\ axes = NoAxes /\ status = "RUNNING"
    /\ result = Pending /\ scores = Pending /\ report = Pending

---------------------------------------------------------------------------
\* The run. Trials of a cell that two matrices of one phase measure run together.
Runs == outcome = "compiled" /\ status = "RUNNING"
Matrix == scenario.matrices[at]
More == at <= Len(scenario.matrices)

Merge(old, new) ==
    [c \in DOMAIN old \cup DOMAIN new |->
        (IF c \in DOMAIN old THEN old[c] ELSE <<>>) \o (IF c \in DOMAIN new THEN new[c] ELSE <<>>)]

MeasureMatrix ==
    /\ Runs /\ More
    /\ Matrix.name \in DOMAIN PlanPhaseOf
    /\ \E cells \in [Matrix.targets \X Matrix.caps -> TrialRows] :
           rows' = [rows EXCEPT ![PlanPhaseOf[Matrix.name]] =
                       [n \in Identities |->
                           IF n \in Matrix.targets
                           THEN Merge(@[n], [c \in Matrix.caps |-> cells[<<n, c>>]])
                           ELSE @[n]]]
    /\ at' = at + 1
    /\ UNCHANGED <<compilerVars, discarded, axes, status, verdictVars>>

DiscardMatrix ==
    /\ Runs /\ More
    /\ Matrix.name \in DOMAIN PlanPhaseOf
    /\ discarded' = discarded \cup {at}
    /\ at' = at + 1
    /\ UNCHANGED <<compilerVars, rows, axes, status, verdictVars>>

\* A phase name outside the table, or any other failure, aborts the run: its bundle is
\* never sealed, and without a manifest nothing analyzes it.
AbortRun ==
    /\ Runs
    /\ status' = "ABORTED"
    /\ UNCHANGED <<compilerVars, at, rows, discarded, axes, verdictVars>>

\* Every polled cell of a run that mutated anything is measured, those polled only
\* before the mutation included. A deferral is measured if the credential it pinned is
\* in the bundle, and a re-delegated one is not.
MeasuredWindows == IF scenario.mutations = 0 THEN {} ELSE scenario.polled
RevocationFindings(transitions, late, polls) ==
    {PlainFinding("NO_TRANSITION_OBSERVED", cell[1], cell[2], PollConfidence(polls)) :
        cell \in {x \in DOMAIN transitions : transitions[x] = {}}}
    \cup {PlainFinding("REVOCATION_DELAY", cell[1], cell[2], "HIGH") :
        cell \in {x \in late \cap DOMAIN transitions : transitions[x] # {}}}

DeferralFindings(paired, kind) ==
    CASE kind = "STALE_AUTHORITY" -> {PlainFinding(kind, "any", x, "MEDIUM") : x \in paired}
      [] kind = "EXPIRED_CREDENTIAL_ACCEPTED" -> {PlainFinding(kind, "any", x, "HIGH") : x \in paired}
      [] OTHER -> {}

MeasureOtherAxes ==
    /\ Runs /\ ~More
    /\ \E phases \in SUBSET {d[1] : d \in scenario.deferrals}, polls \in PollCounts,
          transitions \in [MeasuredWindows -> Windows], late \in {{}, MeasuredWindows},
          honored \in {"none", "STALE_AUTHORITY", "EXPIRED_CREDENTIAL_ACCEPTED"},
          flaw \in {"none", "SILENT_NARROWING"} :
       LET paired == {d \in scenario.deferrals : d[1] \in phases}
       IN  axes' = [pollPlans |-> scenario.polls, windows |-> Cardinality(MeasuredWindows),
                    transitions |-> transitions,
                    deferrals |-> Cardinality(scenario.deferrals),
                    paired |-> Cardinality(paired),
                    tasks |-> scenario.tasks,
                    credentials |-> Cardinality(Agents),
                    usedAfterExpiry |-> honored = "EXPIRED_CREDENTIAL_ACCEPTED" /\ paired # {},
                    findings |->
                       RevocationFindings(transitions, late, polls)
                       \cup DeferralFindings(paired, honored)
                       \cup (IF flaw = "none" \/ scenario.tasks = 0 THEN {}
                             ELSE {PlainFinding(flaw, "any", "", "HIGH")})]
    /\ status' = "COMPLETED"
    /\ UNCHANGED <<compilerVars, at, rows, discarded, verdictVars>>

---------------------------------------------------------------------------
\* analyze_bundle, of the evidence e = [run, rows, ...] of one run
Graph(phaseRows) ==
    [parent |-> scenario.parent, expected |-> scenario.expected,
     intended |-> scenario.intended, rows |-> phaseRows, background |-> scenario.background]

MeasuredIn(e, n) == {j \in DOMAIN PhaseOrder : DOMAIN e.rows[PhaseOrder[j]][n] # {}}
PhasesPresent(e) == UNION {MeasuredIn(e, n) : n \in Identities}

\* The graph after the phase at upto, each identity as the last phase measured it.
Accumulated(e, upto) ==
    [n \in Identities |->
        LET measured == MeasuredIn(e, n) \cap 1..upto
        IN  IF measured = {} THEN <<>> ELSE e.rows[PhaseOrder[Max(measured)]][n]]

ConfigurationErrors ==
    UNION {{PlainFinding("CONFIGURATION_ERROR", n, c, "HIGH") :
               n \in scenario.matrices[i].targets, c \in scenario.matrices[i].caps} :
           i \in discarded}

AnalyzeBundle(e) ==
    LET phases == PhasesPresent(e)
        present == {PhaseOrder[j] : j \in phases}
        findings == (UNION {AuthorityFindings(Graph(e.rows[p]), <<e.run, p>>) : p \in present})
                    \cup e.axes.findings \cup ConfigurationErrors
    IN  [run |-> e.run, version |-> e.version, infrastructure |-> e.infrastructure,
         rows |-> e.rows, axes |-> e.axes,
         findings |-> findings,
         check |-> [type |-> scenario.expect.type,
                    result |-> NegativeControl(findings, scenario.expect)],
         measuredAny |-> phases # {},
         graph |-> Graph(Accumulated(e, Len(PhaseOrder))),
         paths |-> [j \in phases |->
                       LET g == Graph(Accumulated(e, j))
                       IN  [p \in Paths(g) |-> AnalyzePath(g, p)]]]

ThisRun == [run |-> "r1", version |-> "v1", infrastructure |-> "i1",
            rows |-> rows, axes |-> axes]

Analyze ==
    /\ status = "COMPLETED" /\ result = Pending
    /\ result' = AnalyzeBundle(ThisRun)
    /\ UNCHANGED <<compilerVars, runVars, scores, report>>

\* score_bundle, which fails when more was measured than was applicable
ScoreBundle ==
    /\ result # Pending /\ scores = Pending
    /\ scores' = IF CanScore(result) THEN Score(result) ELSE [error |-> "ValueError"]
    /\ UNCHANGED <<compilerVars, runVars, result, report>>

\* Another run of the scenario: the same bundle, a run that measured the same, one
\* made elsewhere or by another version, or one that measured one cell or window otherwise.
MeasuredCellsOf(e) ==
    {x \in PlanPhases \X Identities \X Catalog : x[3] \in DOMAIN e.rows[x[1]][x[2]]}

CellOtherwise(x, t) == [ThisRun EXCEPT !.run = "r2", !.rows[x[1]][x[2]][x[3]] = t]
WindowOtherwise(cell, w) == [ThisRun EXCEPT !.run = "r2", !.axes.transitions[cell] = w]

OtherRuns ==
    {ThisRun, [ThisRun EXCEPT !.run = "r2"]}
    \cup {[ThisRun EXCEPT !.run = "r2", !.version = "v2"],
          [ThisRun EXCEPT !.run = "r2", !.infrastructure = "i2"],
          [ThisRun EXCEPT !.run = "r2", !.infrastructure = "unknown"]}
    \cup {CellOtherwise(x, t) : x \in MeasuredCellsOf(ThisRun), t \in OtherRows}
    \cup {WindowOtherwise(cell, w) : cell \in DOMAIN axes.transitions, w \in Windows}

Compare ==
    /\ scores # Pending /\ report = Pending
    /\ \E other \in OtherRuns, flags \in {{}, {"allow_heterogeneous"}, {"cross_operator"}} :
          LET b == AnalyzeBundle(other)
          IN  /\ "allow_heterogeneous" \in flags => VersionsDiffer(ThisRun, other)
              /\ "cross_operator" \in flags => OtherInfrastructure(ThisRun, other)
              /\ report' =
                    [other |-> other,
                     comparison |-> Comparison(result, b, flags),
                     aggregate |-> IF "error" \in DOMAIN scores \/ ~CanScore(b)
                                   THEN [verdict |-> "error"]
                                   ELSE Aggregate(result, scores, b, Score(b), flags)]
    /\ UNCHANGED <<compilerVars, runVars, result, scores>>

Stopped ==
    \/ outcome \notin {"reading", "walking", "compiled"}
    \/ status = "ABORTED"
    \/ report # Pending
Rest == Stopped /\ UNCHANGED vars

Next ==
    \/ Compile /\ UNCHANGED <<runVars, verdictVars>>
    \/ MeasureMatrix \/ DiscardMatrix \/ AbortRun \/ MeasureOtherAxes
    \/ Analyze \/ ScoreBundle \/ Compare
    \/ Rest

Spec == Init /\ [][Next]_vars

---------------------------------------------------------------------------
\* (The result does not change once it is scored, nor the scores once compared.)
Analyzed == result # Pending /\ scores = Pending
Scored == scores # Pending /\ "error" \notin DOMAIN scores /\ report = Pending

Statuses == {"CONSISTENT", "DIVERGENT", "PARTIAL", "NOT_MEASURED", "DETECTOR_FAILED"}
Confidences == {"HIGH", "MEDIUM", "LOW", "INSUFFICIENT"}

\* Every stage's result has its shape: what is compiled covers every identity, a finding
\* is INCONCLUSIVE exactly when its confidence is
\* INSUFFICIENT, and every category has a status.
TypeOK ==
    /\ outcome \in {"reading", "walking", "compiled", "schema", "semantic", "binding", "crashed"}
    /\ outcome = "compiled" => DOMAIN nodes = Identities
    /\ status \in {"RUNNING", "COMPLETED", "ABORTED"}
    /\ Analyzed =>
          \A f \in result.findings :
              /\ f.confidence \in Confidences
              /\ (f.type = "INCONCLUSIVE") = (f.confidence = "INSUFFICIENT")
    /\ Scored =>
          \A c \in Categories :
              /\ scores[c].status \in Statuses
              /\ scores[c].confidence \in Confidences
              /\ scores[c].findings \subseteq result.findings

\* What the compiler accepts is a tree: every agent has exactly the delegation that
\* created it, its expected authority is what that delegation leaves of its parent's
\* (compiler.py 126-190), and nothing exceeds what the root was granted.
CompiledIsATree ==
    outcome = "compiled" =>
        /\ Len(doc.delegations) = Cardinality(Agents)
        /\ \A n \in Agents :
              /\ \E e \in Delegations(doc) :
                    e.from = scenario.parent[n] /\ e.to = n /\ e.intended = scenario.intended[n]
              /\ scenario.expected[n] =
                    scenario.expected[scenario.parent[n]] \cap scenario.intended[n]
              /\ Head(PathTo(scenario, n)) = Root
        /\ doc.suppress = {} =>
              \A n \in Agents : scenario.intended[n] \subseteq scenario.expected[scenario.parent[n]]

Cell(ref) == rows[ref[1][2]][ref[2]][ref[3]]
Authority == {"AUTHORITY_EXPANSION", "AUTHORITY_NARROWING", "DELEGATION_DRIFT",
              "AUTHORITY_SURVIVAL", "EXPECTED_BEHAVIOR"}
AuthorityOf(b) == {f \in b.findings : f.type \in Authority}

\* A finding says of a system only what every trial said: the authority it reports as
\* held was allowed in every trial of the phase, whichever matrices ran them, and a
\* narrowing of HIGH confidence was denied in every trial (rules.py, ADR-012).
FindingsAreSupported ==
    Analyzed =>
        \A f \in AuthorityOf(result) : \A ref \in f.refs :
            /\ ref[3] \in f.gain => Outcomes(Cell(ref)) = {"ALLOWED"}
            /\ ref[3] \in f.loss /\ f.confidence = "HIGH" => Outcomes(Cell(ref)) \subseteq Denials
            /\ f.type = "EXPECTED_BEHAVIOR" /\ f.confidence = "HIGH" =>
                  (Outcomes(Cell(ref)) = {"ALLOWED"}) = (ref[3] \in scenario.expected[f.node])

\* A drift that was carried down (PROPAGATED, AMPLIFIED) cites a finding of this very
\* analysis, of an ancestor in the same phase, and every identity between the two
\* exceeds its authority too (pipeline.py 101-129).
OriginsAreThreaded ==
    Analyzed =>
        \A f \in result.findings :
            f.type = "DELEGATION_DRIFT" /\ f.drift \in {"PROPAGATED", "AMPLIFIED"} =>
                \E origin \in result.findings :
                    /\ Id(origin) = f.cites
                    /\ \A ref \in f.refs, source \in origin.refs : ref[1] = source[1]
                    /\ LET path == PathTo(scenario, f.node)
                           phase == (CHOOSE ref \in f.refs : TRUE)[1][2]
                       IN  \E i \in 1..(Len(path) - 1) :
                              /\ path[i] = origin.node
                              /\ \A j \in i..Len(path) : Gain(Graph(rows[phase]), path[j]) # {}

\* A path is reported free of divergence only if every identity on it was measured in
\* a phase folded so far, and the last of these rows is exactly what was expected
\* (graph/divergence.py 59-94: a gap must not pass for agreement).
CleanPathsAreMeasured ==
    Analyzed =>
        \A j \in DOMAIN result.paths : \A p \in DOMAIN result.paths[j] :
            result.paths[j][p].first.kind = "NONE" =>
                \A n \in Range(p) : \E last \in 1..j :
                    LET row == rows[PhaseOrder[last]][n]
                    IN  /\ DOMAIN row # {}
                        /\ \A k \in last + 1..j : DOMAIN rows[PhaseOrder[k]][n] = {}
                        /\ {c \in DOMAIN row : Outcomes(row[c]) = {"ALLOWED"}} = scenario.expected[n]

\* A verdict is earned: CONSISTENT or DIVERGENT rests on 70% of the cells and on no
\* failed negative control, HIGH on all of them and on findings that are all HIGH, a
\* CONSISTENT revocation on windows that all saw the transition, and a CONSISTENT
\* attenuation on edges that all passed on exactly what was intended (categories.py).
VerdictsAreEarned ==
    Scored =>
        /\ \A c \in Categories :
              /\ scores[c].status \in {"CONSISTENT", "DIVERGENT"} =>
                    /\ 10 * Evaluate(result, c).measured >= 7 * Evaluate(result, c).applicable
                    /\ ~(result.check.result = "DETECTOR_FAILURE" /\ doc.expect.type \in TypesOf[c])
              /\ scores[c].confidence = "HIGH" =>
                    /\ Evaluate(result, c).measured = Evaluate(result, c).applicable
                    /\ \A f \in scores[c].findings : f.confidence = "HIGH"
        /\ scores["REVOCATION_RESPONSIVENESS"].status = "CONSISTENT" =>
              \A cell \in DOMAIN axes.transitions : axes.transitions[cell] # {}
        /\ scores["SCOPE_ATTENUATION"].status = "CONSISTENT" =>
              \A n \in Agents :
                  EdgeMeasured(result.graph, n) =>
                      /\ Held(result.graph, n) \subseteq scenario.intended[n]
                      /\ Held(result.graph, n) \subseteq Held(result.graph, scenario.parent[n])

Compared == report # Pending /\ report.comparison.verdict = "compared"
HeldIn(e, p, n) == {c \in DOMAIN e.rows[p][n] : Outcomes(e.rows[p][n][c]) = {"ALLOWED"}}

\* Two runs that observed different authority anywhere, or transitions of a cell in no
\* common window, never compare without a DIVERGENT entry (compare.py, Levels 2 and 3).
ChangesAreReported ==
    Compared =>
        /\ \/ report.comparison.divergent # {}
           \/ \A p \in Range(PhaseOrder), n \in Identities :
                  HeldIn(report.other, p, n) = HeldIn(ThisRun, p, n)
        /\ report.comparison.windows = {} =>
              \A cell \in DOMAIN axes.transitions :
                  \/ axes.transitions[cell] = report.other.axes.transitions[cell]
                  \/ axes.transitions[cell] \cap report.other.axes.transitions[cell] # {}

---------------------------------------------------------------------------
\* Claims of comments that the code does not keep.

\* compare.py 4-13: what is unique to a run is left out of the comparison, so two
\* runs that measured the identical thing match.
ReplaysMatch ==
    Compared /\ report.other.rows = rows => report.comparison.divergent = {}

\* categories.py, _delegation_integrity: DIVERGENT when any edge has survived authority.
SurvivalIsDivergent ==
    Scored /\ scores["DELEGATION_INTEGRITY"].status = "CONSISTENT" =>
        \A n \in Agents :
            EdgeMeasured(result.graph, n) => SurvivedIncorrectly(result.graph, n) = {}

=============================================================================
