--------------------------- MODULE AuthorityRules ---------------------------
(***************************************************************************)
(* What the analysis makes of the probe rows of one bundle: cells resolved *)
(* by unanimity, divergence along the delegation tree, the authority-axis  *)
(* findings of a phase and the confidence each is given.                   *)
(*                                                                         *)
(* A populated graph g has the parent of every agent, the expected         *)
(* authority of every identity, the capabilities each edge intends (an     *)
(* edge is named by its target), the probe rows of every identity (an      *)
(* empty row: not probed), and the number of further probed capabilities   *)
(* about which nothing is surprising.                                      *)
(***************************************************************************)
EXTENDS Naturals, Sequences, FiniteSets, SequencesExt

CONSTANTS
    Root,       \* the root identity
    Agents      \* the other identities of a scenario

ASSUME RootIsNoAgent == Root \notin Agents

Denials == {"DENIED_EXPLICIT", "DENIED_IMPLICIT", "DENIED_UNATTRIBUTED"}
Errors == {"ERROR_RESOURCE_MISSING", "ERROR_TRANSIENT", "ERROR_INFRASTRUCTURE"}

Identities == {Root} \cup Agents

\* AuthorizationGraph.paths, root to leaf
PathTo(g, n) ==
    LET path[m \in Identities] == IF m = Root THEN <<m>> ELSE Append(path[g.parent[m]], m)
    IN  path[n]
Leaves(g) == {n \in Identities : \A m \in Agents : g.parent[m] # n}
Paths(g) == {PathTo(g, n) : n \in Leaves(g)}

---------------------------------------------------------------------------
\* ProbeCellResult.resolved, and the exclusion of what is neither allowed nor denied.
Outcomes(trials) == ToSet(trials)
Unanimous(trials) == Cardinality(Outcomes(trials)) = 1

\* mutant: one allowed trial is enough
ResolvedByAny(trials) ==
    IF "ALLOWED" \in Outcomes(trials) THEN "ALLOWED" ELSE trials[1]

Resolved(trials) ==
    CASE Outcomes(trials) = {"ALLOWED"} -> "ALLOWED"
      [] Outcomes(trials) \subseteq Denials ->
            IF Unanimous(trials) THEN trials[1] ELSE "DENIED_UNATTRIBUTED"
      [] Outcomes(trials) \subseteq Errors -> trials[1]
      [] OTHER -> "INDETERMINATE"

Classifies(trials) == Resolved(trials) \in Denials \cup {"ALLOWED"}

\* ObservedAuthority of a row: capabilities, attempted and classified.
Measured(g, n) == DOMAIN g.rows[n] # {}
Held(g, n) == {c \in DOMAIN g.rows[n] : Resolved(g.rows[n][c]) = "ALLOWED"}
Attempted(g, n) == Cardinality(DOMAIN g.rows[n]) + g.background
Classified(g, n) ==
    Cardinality({c \in DOMAIN g.rows[n] : Classifies(g.rows[n][c])}) + g.background

---------------------------------------------------------------------------
\* Divergence per node, per hop, per edge and per path.
Gain(g, n) == IF Measured(g, n) THEN Held(g, n) \ g.expected[n] ELSE {}
Loss(g, n) == IF Measured(g, n) THEN g.expected[n] \ Held(g, n) ELSE {}
Diverged(g, n) == Gain(g, n) # {} \/ Loss(g, n) # {}

ParentGain(g, n) == IF n = Root THEN {} ELSE Gain(g, g.parent[n])

DriftClass(g, n) ==
    LET gain == Gain(g, n)
        before == ParentGain(g, n)
    IN  CASE before = {} /\ gain = {} -> "NONE"
          [] before # {} /\ gain = {} -> "CORRECTED"
          [] before # {} /\ before \subseteq gain /\ gain # before -> "AMPLIFIED"
          [] gain # {} /\ gain \subseteq before -> "PROPAGATED"
          [] OTHER -> "ORIGINATED"

EdgeMeasured(g, n) == n # Root /\ Measured(g, n) /\ Measured(g, g.parent[n])
SurvivedIncorrectly(g, n) == Held(g, n) \ g.intended[n]
AttenuationCorrect(g, n) == Held(g, n) = Held(g, g.parent[n]) \cap g.intended[n]

\* mutant: unmeasured identities are skipped
FirstDivergenceSkipsGaps(g, path) ==
    LET points == {i \in DOMAIN path : Diverged(g, path[i])}
    IN  IF points = {} THEN [kind |-> "NONE", at |-> 0]
        ELSE LET i == CHOOSE i \in points : \A j \in points : i <= j
             IN  [kind |-> "DIVERGED", at |-> i]

FirstDivergence(g, path) ==
    LET points == {i \in DOMAIN path : ~Measured(g, path[i]) \/ Diverged(g, path[i])}
    IN  IF points = {} THEN [kind |-> "NONE", at |-> 0]
        ELSE LET i == CHOOSE i \in points : \A j \in points : i <= j
             IN  [kind |-> CASE ~Measured(g, path[i]) -> "UNMEASURED"
                             [] Gain(g, path[i]) # {} /\ Loss(g, path[i]) # {} -> "MIXED"
                             [] Gain(g, path[i]) # {} /\ Loss(g, path[i]) = {} -> "EXPANSION"
                             [] OTHER -> "NARROWING",
                  at |-> i]

\* Monotone over consecutive measured identities of the path.
MonotoneSet(g, path) ==
    LET measured == SelectSeq(path, LAMBDA n : Measured(g, n))
    IN  \A i \in 1..(Len(measured) - 1) : Held(g, measured[i + 1]) \subseteq Held(g, measured[i])

AnalyzePath(g, path) ==
    [first |-> FirstDivergence(g, path), monotone |-> MonotoneSet(g, path),
     terminal_gain |-> Gain(g, Last(path))]

---------------------------------------------------------------------------
\* The confidence gate, over the trials of the contributing cells.
GateConfidence(classified, attempted, cells) ==
    LET errors == \E t \in cells : Outcomes(t) \cap Errors # {}
        indeterminate == \E t \in cells : Resolved(t) = "INDETERMINATE"
    IN  CASE cells = {} -> "INSUFFICIENT"
          [] cells # {} /\ classified = attempted
                /\ (\A t \in cells : Unanimous(t)) /\ ~errors -> "HIGH"
          [] OTHER ->
                CASE 10 * classified >= 9 * attempted /\ ~indeterminate -> "MEDIUM"
                  [] 10 * classified >= 7 * attempted
                        /\ (10 * classified < 9 * attempted \/ indeterminate) -> "LOW"
                  [] OTHER -> "INSUFFICIENT"

\* _build: a finding of an identity or of the edge into it, about some capabilities,
\* at = <<run, phase>>. Its id is its type, subject and observations, and those are
\* the run's own. In what it says (its content) only the origin it cites is an id.
Id(f) == [type |-> f.type, kind |-> f.kind, node |-> f.node, refs |-> f.refs]
NoId == [type |-> "none"]
\* mutant: findings are compared by their label
Label(f) == [x \in {"type", "kind", "node"} |-> f[x]]
Content(f) == [x \in DOMAIN f \ {"refs"} |-> f[x]]

\* mutant: a finding without confidence keeps its type
FindingKeepsType(g, at, n, type, kind, caps, classified, attempted) ==
    LET probed == caps \cap DOMAIN g.rows[n]
    IN  [type |-> type, kind |-> kind, node |-> n, gain |-> {}, loss |-> {},
         observed |-> Held(g, n), said |-> at[2],
         confidence |-> GateConfidence(classified, attempted, {g.rows[n][c] : c \in probed}),
         drift |-> "NONE", cites |-> NoId, refs |-> {<<at, n, c>> : c \in probed}]

Finding(g, at, n, type, kind, caps, classified, attempted) ==
    LET probed == caps \cap DOMAIN g.rows[n]
        confidence == GateConfidence(classified, attempted, {g.rows[n][c] : c \in probed})
    IN  [type |-> IF confidence = "INSUFFICIENT" THEN "INCONCLUSIVE" ELSE type,
         kind |-> kind, node |-> n, gain |-> {}, loss |-> {}, observed |-> Held(g, n),
         said |-> at[2], confidence |-> confidence, drift |-> "NONE", cites |-> NoId,
         refs |-> {<<at, n, c>> : c \in probed}]

NodeFinding(g, at, n, type, caps) ==
    Finding(g, at, n, type, "identity", caps, Classified(g, n), Attempted(g, n))

ExpectedBehavior(g, at, n) == NodeFinding(g, at, n, "EXPECTED_BEHAVIOR", DOMAIN g.rows[n])

Expands(g, n) == Gain(g, n) # {} /\ DriftClass(g, n) \in {"NONE", "ORIGINATED"}
Drifts(g, n) == Gain(g, n) # {} /\ n # Root /\ DriftClass(g, n) \notin {"NONE", "CORRECTED"}

AuthorityExpansion(g, at, n) ==
    [NodeFinding(g, at, n, "AUTHORITY_EXPANSION", Gain(g, n))
        EXCEPT !.gain = Gain(g, n), !.drift = DriftClass(g, n)]

\* The expansion every identity's gain is traced back to, down the tree.
\* mutant: only the parent's own expansion is looked up
OriginOfParentOnly(g, at) ==
    [n \in Identities |->
        IF Measured(g, n) /\ Expands(g, n) THEN Id(AuthorityExpansion(g, at, n)) ELSE NoId]

Origin(g, at) ==
    LET origin[n \in Identities] ==
            IF Measured(g, n) /\ Expands(g, n) THEN Id(AuthorityExpansion(g, at, n))
            ELSE IF Measured(g, n) /\ Drifts(g, n) THEN origin[g.parent[n]] ELSE NoId
    IN  origin

DelegationDrift(g, at, n) ==
    [NodeFinding(g, at, n, "DELEGATION_DRIFT", Gain(g, n))
        EXCEPT !.gain = Gain(g, n), !.drift = DriftClass(g, n),
               !.said = "", !.cites = Origin(g, at)[g.parent[n]]]

AuthorityNarrowing(g, at, n) ==
    [NodeFinding(g, at, n, "AUTHORITY_NARROWING", Loss(g, n)) EXCEPT !.loss = Loss(g, n)]

\* Its coverage is that of the survivors, which were all probed: never less than whole.
AuthoritySurvival(g, at, n) ==
    LET survived == SurvivedIncorrectly(g, n)
    IN  [Finding(g, at, n, "AUTHORITY_SURVIVAL", "edge", survived,
                 Cardinality(survived), Cardinality(survived))
            EXCEPT !.gain = survived, !.observed = survived, !.said = ""]

\* _authority_findings_for_phase
NodeFindings(g, at, n) ==
    (IF Expands(g, n) THEN {AuthorityExpansion(g, at, n)} ELSE {})
    \cup (IF Drifts(g, n) THEN {DelegationDrift(g, at, n)} ELSE {})
    \cup (IF Loss(g, n) # {} THEN {AuthorityNarrowing(g, at, n)} ELSE {})
    \cup (IF ~Diverged(g, n) THEN {ExpectedBehavior(g, at, n)} ELSE {})

AuthorityFindings(g, at) ==
    (UNION {NodeFindings(g, at, n) : n \in {m \in Identities : Measured(g, m)}})
    \cup {AuthoritySurvival(g, at, n) :
            n \in {m \in Identities : EdgeMeasured(g, m) /\ SurvivedIncorrectly(g, m) # {}}}
=============================================================================
