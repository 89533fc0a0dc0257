-------------------------- MODULE ScenarioCompiler --------------------------
(***************************************************************************)
(* compile_scenario: a schema-valid scenario document becomes the graph of *)
(* expected authority and the plans the run executes, or is rejected. The  *)
(* depth-first walk that derives expected authority is a machine of its    *)
(* own: it runs before anything checks that the delegations form a tree.   *)
(***************************************************************************)
EXTENDS AuthorityRules

CONSTANTS
    Catalog,            \* capabilities of the catalog
    Documents,          \* documents to compile; background counts the capabilities they
                        \* name besides, the control capability included, which all behave
    MaxDepth,           \* max_delegation_depth
    MaxPolicy,          \* capabilities whose session policy fits the provider's limit
    MaxFrames           \* bound: depth of the walk, standing for the recursion limit

ASSUME CompilerConstants == MaxDepth \in Nat /\ MaxPolicy \in Nat /\ MaxFrames \in Nat

VARIABLES
    doc,        \* the document
    outcome,    \* "reading", "walking", "compiled", or why it was not
    todo,       \* frames of the walk not yet entered: <<identity, hop, parent, expected>>
    nodes,      \* identities visited, each with its hop, parent and expected authority
    scenario    \* the compiled scenario

compilerVars == <<doc, outcome, todo, nodes, scenario>>

Nobody == "nobody"
Undeclared == {"undeclared"}
NotCompiled == [graph |-> "none"]

Delegations(d) == Range(d.delegations)
Targets(d) == [i \in DOMAIN d.delegations |-> d.delegations[i].to]
Outgoing(d, n) == {i \in DOMAIN d.delegations : d.delegations[i].from = n}
Into(d, n) == CHOOSE e \in Delegations(d) : e.to = n
PhasesAt(d, kind) == {i \in DOMAIN d.phases : d.phases[i].kind = kind}

ASSUME DocumentsAreFinite ==
    /\ IsFiniteSet(Agents) /\ IsFiniteSet(Catalog)
    /\ \A d \in Documents :
          d.delegations \in Seq(Delegations(d)) /\ d.phases \in Seq(Range(d.phases))

---------------------------------------------------------------------------
\* Validators of ScenarioSpec, PhaseSpec, DelegationSpec and ScenarioDocument that
\* relate two parts of a document (each part alone is well-formed).
ReferencesResolve(d) ==
    /\ \A e \in Delegations(d) : e.from \in Identities /\ e.to \in Identities
    /\ \A p \in Range(d.phases) : p.targets \subseteq Identities
NoSelfDelegation(d) == \A e \in Delegations(d) : e.from # e.to
ControlIsMarked(d) == d.marked = (d.expect.type # "none")

SchemaValid(d) == ReferencesResolve(d) /\ NoSelfDelegation(d) /\ ControlIsMarked(d)

\* _named_capabilities and _capability_universe (less the control capability)
Named(d) ==
    d.grants \cup d.mentions
        \cup (UNION {e.intended : e \in Delegations(d)})
        \cup (UNION {d.declared[n] : n \in {m \in Agents : d.declared[m] # Undeclared}})
        \cup (UNION {p.caps : p \in Range(d.phases)})

Universe(d, expected, targets) ==
    CASE d.universe = "catalog" -> Catalog
      [] d.universe = "declared" -> UNION {expected[n] : n \in targets}
      [] d.universe = "scenario" -> Named(d)

---------------------------------------------------------------------------
\* _build_nodes_and_edges
CompilerInit ==
    /\ doc \in Documents
    /\ outcome = "reading"
    /\ todo = <<>>
    /\ nodes = <<>>
    /\ scenario = NotCompiled

Reject(why) == outcome' = why /\ UNCHANGED <<doc, todo, nodes, scenario>>

RejectSchema == outcome = "reading" /\ ~SchemaValid(doc) /\ Reject("schema")

\* mutant: a later delegation to the same identity is accepted
TargetedByAny(d) == \A i \in DOMAIN Targets(d) : Targets(d)[i] # Root

TargetedOnce(d) == IsInjective(Targets(d))

RejectSecondParent ==
    outcome = "reading" /\ SchemaValid(doc) /\ ~TargetedOnce(doc) /\ Reject("semantic")

StartWalk ==
    /\ outcome = "reading"
    /\ SchemaValid(doc)
    /\ TargetedOnce(doc)
    /\ outcome' = "walking"
    /\ todo' = <<[node |-> Root, hop |-> 0, parent |-> Nobody, expected |-> doc.grants]>>
    /\ UNCHANGED <<doc, nodes, scenario>>

Declares(n, expected) ==
    n \in Agents /\ doc.declared[n] # Undeclared => doc.declared[n] = expected

\* visit: one frame, then those of the identities it delegates to, in document order
InOrder(S) ==
    {s \in [1..Cardinality(S) -> S] : \A i, j \in 1..Cardinality(S) : i < j => s[i] < s[j]}

Children(frame, order) ==
    [i \in DOMAIN order |->
        LET e == doc.delegations[order[i]]
        IN  [node |-> e.to, hop |-> frame.hop + 1, parent |-> frame.node,
             expected |-> frame.expected \cap e.intended]]

Visit ==
    /\ outcome = "walking"
    /\ todo # <<>>
    /\ LET frame == Head(todo)
       IN  /\ Declares(frame.node, frame.expected)
           /\ frame.hop < MaxFrames
           /\ nodes' = [n \in DOMAIN nodes \cup {frame.node} |->
                           IF n = frame.node
                           THEN [hop |-> frame.hop, parent |-> frame.parent,
                                 expected |-> frame.expected]
                           ELSE nodes[n]]
           /\ \E order \in InOrder(Outgoing(doc, frame.node)) :
                  todo' = Children(frame, order) \o Tail(todo)
    /\ UNCHANGED <<doc, outcome, scenario>>

RejectDeclaration ==
    /\ outcome = "walking"
    /\ todo # <<>>
    /\ ~Declares(Head(todo).node, Head(todo).expected)
    /\ Reject("semantic")

\* RecursionError, which no stage of the validation catches
ExhaustStack ==
    /\ outcome = "walking"
    /\ todo # <<>>
    /\ Declares(Head(todo).node, Head(todo).expected)
    /\ Head(todo).hop >= MaxFrames
    /\ Reject("crashed")

---------------------------------------------------------------------------
\* build_graph: G-1 and G-2 of AuthorizationGraph, then G-3, G-4 and G-5
Reaches(d, S) == S \cup {e.to : e \in {f \in Delegations(d) : f.from \in S}}
ReachedFrom(d, n) ==
    LET after[i \in 0..Cardinality(Identities)] ==
            IF i = 0 THEN {e.to : e \in {f \in Delegations(d) : f.from = n}}
            ELSE Reaches(d, after[i - 1])
    IN  after[Cardinality(Identities)]

Acyclic(d) == \A n \in Identities : n \notin ReachedFrom(d, n)
RootIsRoot(d) == \A e \in Delegations(d) : e.to # Root
Excess(d) == {e \in Delegations(d) : ~(e.intended \subseteq nodes[e.from].expected)}
IntentIsMonotone(d) == Excess(d) = {} \/ "G-3" \in d.suppress

CapabilitiesAreKnown(d) ==
    /\ \A n \in Identities : nodes[n].expected \subseteq Catalog
    /\ \A e \in Delegations(d) : e.intended \subseteq Catalog
DepthIsBounded(d) == \A n \in Identities : nodes[n].hop <= MaxDepth
PoliciesFit(d) == \A e \in Delegations(d) : Cardinality(nodes[e.to].expected) <= MaxPolicy

Unreached == Identities \ DOMAIN nodes
GraphIsValid ==
    /\ Unreached = {}
    /\ RootIsRoot(doc) /\ Acyclic(doc)
    /\ IntentIsMonotone(doc)
    /\ CapabilitiesAreKnown(doc)
    /\ DepthIsBounded(doc)

Walked == outcome = "walking" /\ todo = <<>>

RejectGraph == Walked /\ ~GraphIsValid /\ Reject("semantic")
RejectBinding == Walked /\ GraphIsValid /\ ~(Named(doc) \subseteq doc.bound) /\ Reject("binding")
RejectPolicy ==
    /\ Walked /\ GraphIsValid
    /\ Named(doc) \subseteq doc.bound
    /\ ~PoliciesFit(doc)
    /\ Reject("semantic")

\* The polling phases the score counts as applicable follow the first mutation:
\* _post_mutation_poll_plan_count
PollPlans(d) == {i \in PhasesAt(d, "POLL") : \E m \in PhasesAt(d, "MUTATE") : m < i}

Emit ==
    /\ Walked /\ GraphIsValid
    /\ Named(doc) \subseteq doc.bound
    /\ PoliciesFit(doc)
    /\ outcome' = "compiled"
    /\ scenario' =
        LET expected == [n \in Identities |-> nodes[n].expected]
            probes == SelectSeq(doc.phases, LAMBDA p : p.kind = "PROBE")
            universe(p) == Universe(doc, expected, p.targets)
        IN  [parent |-> [n \in Agents |-> nodes[n].parent],
             expected |-> expected,
             intended |-> [n \in Agents |-> Into(doc, n).intended],
             matrices |-> [i \in DOMAIN probes |->
                              [name |-> probes[i].name, targets |-> probes[i].targets,
                               caps |-> universe(probes[i])]],
             polls |-> Cardinality(PollPlans(doc)),
             deferrals |-> {d \in PhasesAt(doc, "DEFERRED_EXECUTION") \X Catalog :
                               d[2] \in universe(doc.phases[d[1]])},
             tasks |-> Cardinality(PhasesAt(doc, "TASK")),
             mutations |-> Cardinality(PhasesAt(doc, "MUTATE")),
             polled |-> {<<doc.phases[i].targets, doc.phases[i].caps>> : i \in PhasesAt(doc, "POLL")},
             expect |-> doc.expect,
             background |-> doc.background,
             warned |-> Excess(doc) # {}]
    /\ UNCHANGED <<doc, todo, nodes>>

Compile ==
    \/ RejectSchema \/ RejectSecondParent \/ StartWalk
    \/ Visit \/ RejectDeclaration \/ ExhaustStack
    \/ RejectGraph \/ RejectBinding \/ RejectPolicy \/ Emit
=============================================================================
