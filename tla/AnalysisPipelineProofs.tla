----------------------- MODULE AnalysisPipelineProofs -----------------------
(***************************************************************************)
(* Proofs about AnalysisPipeline, for any identities, catalog, documents   *)
(* and probe rows.  What the walk of the compiler builds is a tree, so     *)
(* that what is defined along it, the path to an identity and the origin   *)
(* of its gain, is defined at all; the rest follows the evidence of one    *)
(* completed run through the analysis and the scoring.                     *)
(***************************************************************************)
EXTENDS AnalysisPipeline, FiniteSetTheorems, WellFoundedInduction, TLAPS

---------------------------------------------------------------------------
\* The inductive invariant: the walk.

Frame == [node : Identities, hop : Nat, parent : Identities \cup {Nobody},
          expected : SUBSET doc.grants]
Node == [hop : Nat, parent : Identities \cup {Nobody}, expected : SUBSET doc.grants]

\* A frame, or a node, has what the delegation into its identity leaves of its parent.
Descends(n, r) ==
    IF n = Root THEN r.hop = 0 /\ r.parent = Nobody /\ r.expected = doc.grants
    ELSE \E e \in Delegations(doc) :
            /\ e.to = n /\ e.from = r.parent
            /\ r.parent \in DOMAIN nodes
            /\ r.hop = nodes[r.parent].hop + 1
            /\ r.expected = nodes[r.parent].expected \cap e.intended

\* Nobody has checked yet that no delegation leads back to the root.
WalkInv ==
    /\ doc \in Documents
    /\ outcome = "reading" => nodes = <<>>
    /\ outcome \in {"walking", "compiled"} =>
          /\ SchemaValid(doc) /\ TargetedOnce(doc)
          /\ todo \in Seq(Frame)
          /\ nodes \in UNION {[S -> Node] : S \in SUBSET Identities}
          /\ RootIsRoot(doc) =>
                /\ \A i \in DOMAIN todo : Descends(todo[i].node, todo[i])
                /\ \A n \in DOMAIN nodes : Descends(n, nodes[n])

CompiledInv ==
    /\ outcome \in {"reading", "walking", "compiled", "schema", "semantic", "binding", "crashed"}
    /\ outcome = "compiled" =>
          /\ GraphIsValid
          /\ scenario.parent = [n \in Agents |-> nodes[n].parent]
          /\ scenario.expected = [n \in Identities |-> nodes[n].expected]
          /\ scenario.intended = [n \in Agents |-> Into(doc, n).intended]
          /\ scenario.expect = doc.expect
          /\ scenario.polls \in Nat /\ scenario.tasks \in Nat
          /\ IsFiniteSet(scenario.deferrals) /\ IsFiniteSet(scenario.polled)

---------------------------------------------------------------------------
\* The walk.

\* A document has finitely many delegations and phases.
LEMMA DocumentShape ==
    ASSUME doc \in Documents
    PROVE  /\ Len(doc.delegations) \in Nat
           /\ DOMAIN doc.delegations = 1..Len(doc.delegations)
           /\ \A i \in DOMAIN doc.delegations : doc.delegations[i] \in Delegations(doc)
           /\ \A e \in Delegations(doc) : \E i \in DOMAIN doc.delegations : doc.delegations[i] = e
           /\ Len(doc.phases) \in Nat /\ DOMAIN doc.phases = 1..Len(doc.phases)
<1>1. doc.delegations \in Seq(Delegations(doc)) /\ doc.phases \in Seq(Range(doc.phases))
  BY DocumentsAreFinite
<1>2. \A e \in Delegations(doc) : \E i \in DOMAIN doc.delegations : doc.delegations[i] = e
  BY DEF Delegations, Range
<1>3. QED
  BY <1>1, <1>2

\* A delegation is the only one into its target.
LEMMA OneParent ==
    ASSUME doc \in Documents, TargetedOnce(doc),
           NEW e \in Delegations(doc), NEW f \in Delegations(doc), e.to = f.to
    PROVE  e = f
<1>1. PICK i \in DOMAIN doc.delegations : doc.delegations[i] = e
  BY DocumentShape
<1>2. PICK j \in DOMAIN doc.delegations : doc.delegations[j] = f
  BY DocumentShape
<1>3. Targets(doc)[i] = Targets(doc)[j] /\ DOMAIN Targets(doc) = DOMAIN doc.delegations
  BY <1>1, <1>2 DEF Targets
<1>4. i = j
  BY <1>3 DEF TargetedOnce, IsInjective
<1>5. QED
  BY <1>1, <1>2, <1>4

\* The frames pushed for an identity are those of its own delegations.
LEMMA Pushed ==
    ASSUME doc \in Documents, ReferencesResolve(doc), NEW frame \in Frame,
           NEW order \in InOrder(Outgoing(doc, frame.node))
    PROVE  /\ Children(frame, order) \in Seq(Frame)
           /\ \A i \in DOMAIN Children(frame, order) :
                 \E e \in Delegations(doc) :
                    /\ e.from = frame.node
                    /\ Children(frame, order)[i] =
                         [node |-> e.to, hop |-> frame.hop + 1, parent |-> frame.node,
                          expected |-> frame.expected \cap e.intended]
<1> DEFINE S == Outgoing(doc, frame.node)
<1>1. S \in SUBSET (1..Len(doc.delegations))
  BY DocumentShape DEF Outgoing
<1>2. Cardinality(S) \in Nat
  <2>1. Len(doc.delegations) \in Int /\ 1 \in Int
    BY DocumentShape
  <2>2. IsFiniteSet(1..Len(doc.delegations))
    BY <2>1, FS_Interval
  <2>3. IsFiniteSet(S)
    BY <1>1, <2>2, FS_Subset
  <2>4. QED
    BY <2>3, FS_CardinalityType
<1>3. order \in [1..Cardinality(S) -> S]
  BY DEF InOrder
<1>4. ASSUME NEW i \in 1..Cardinality(S)
      PROVE  /\ doc.delegations[order[i]] \in Delegations(doc)
             /\ doc.delegations[order[i]].from = frame.node
  <2>1. order[i] \in S
    BY <1>3
  <2>2. QED
    BY <2>1, DocumentShape DEF Outgoing
<1>5. \A e \in Delegations(doc) :
         [node |-> e.to, hop |-> frame.hop + 1, parent |-> frame.node,
          expected |-> frame.expected \cap e.intended] \in Frame
  <2>1. \A e \in Delegations(doc) : e.to \in Identities
    BY DEF ReferencesResolve
  <2>2. frame.hop + 1 \in Nat /\ frame.node \in Identities /\ frame.expected \in SUBSET doc.grants
    BY DEF Frame
  <2>3. QED
    BY <2>1, <2>2 DEF Frame
<1>6. DOMAIN Children(frame, order) = 1..Cardinality(S)
  BY <1>3 DEF Children
<1>7. \A i \in 1..Cardinality(S) :
         Children(frame, order)[i] =
           [node |-> doc.delegations[order[i]].to, hop |-> frame.hop + 1, parent |-> frame.node,
            expected |-> frame.expected \cap doc.delegations[order[i]].intended]
  BY <1>3 DEF Children
<1> HIDE DEF S
<1>8. \A i \in 1..Cardinality(S) : Children(frame, order)[i] \in Frame
  BY <1>4, <1>5, <1>7
<1>9. Children(frame, order) = [i \in 1..Cardinality(S) |-> Children(frame, order)[i]]
  BY <1>6 DEF Children
<1>10. Children(frame, order) \in [1..Cardinality(S) -> Frame]
  BY <1>8, <1>9
<1>11. QED
  BY <1>2, <1>4, <1>6, <1>7, <1>10
\* An identity that is visited again gets the node it has: it has one parent.
LEMMA SameNode ==
    ASSUME doc \in Documents, TargetedOnce(doc), NEW n, NEW r, NEW s,
           Descends(n, r), Descends(n, s)
    PROVE  r.hop = s.hop /\ r.parent = s.parent /\ r.expected = s.expected
<1>1. CASE n = Root
  BY <1>1 DEF Descends
<1>2. CASE n # Root
  <2>1. PICK e \in Delegations(doc) :
           /\ e.to = n /\ e.from = r.parent
           /\ r.hop = nodes[r.parent].hop + 1
           /\ r.expected = nodes[r.parent].expected \cap e.intended
    BY <1>2, Zenon DEF Descends
  <2>2. PICK f \in Delegations(doc) :
           /\ f.to = n /\ f.from = s.parent
           /\ s.hop = nodes[s.parent].hop + 1
           /\ s.expected = nodes[s.parent].expected \cap f.intended
    BY <1>2, Zenon DEF Descends
  <2>3. e = f
    BY <2>1, <2>2, OneParent
  <2>4. QED
    BY <2>1, <2>2, <2>3
<1>3. QED
  BY <1>1, <1>2

\* Popping a frame builds its node and pushes the delegations out of it (compiler.py 126-190).
LEMMA VisitInv ==
    ASSUME WalkInv, Visit
    PROVE  WalkInv'
<1> DEFINE frame == Head(todo)
           entry == [hop |-> frame.hop, parent |-> frame.parent, expected |-> frame.expected]
<1>1. /\ doc \in Documents /\ outcome = "walking" /\ todo # <<>>
      /\ SchemaValid(doc) /\ TargetedOnce(doc)
      /\ todo \in Seq(Frame)
      /\ nodes \in UNION {[S -> Node] : S \in SUBSET Identities}
      /\ doc' = doc /\ outcome' = outcome
  BY DEF WalkInv, Visit
<1>2. frame \in Frame /\ Tail(todo) \in Seq(Frame) /\ frame = todo[1] /\ 1 \in DOMAIN todo
  BY <1>1
<1>3. nodes' = [n \in DOMAIN nodes \cup {frame.node} |->
                   IF n = frame.node THEN entry ELSE nodes[n]]
  BY DEF Visit
<1>4. PICK order \in InOrder(Outgoing(doc, frame.node)) :
         todo' = Children(frame, order) \o Tail(todo)
  BY DEF Visit
<1> DEFINE pushed == Children(frame, order)
<1>5. /\ pushed \in Seq(Frame)
      /\ \A i \in DOMAIN pushed :
            \E e \in Delegations(doc) :
               /\ e.from = frame.node
               /\ pushed[i] = [node |-> e.to, hop |-> frame.hop + 1, parent |-> frame.node,
                               expected |-> frame.expected \cap e.intended]
  BY <1>1, <1>2, <1>4, Pushed DEF SchemaValid
<1>6. entry \in Node
  BY <1>2 DEF Frame, Node
<1>7. PICK S \in SUBSET Identities : nodes \in [S -> Node]
  BY <1>1
<1>8. frame.node \in Identities
  BY <1>2 DEF Frame
<1>9. DOMAIN nodes = S /\ \A n \in S : nodes[n] \in Node
  BY <1>7
<1>10. DOMAIN nodes' = S \cup {frame.node} /\ nodes'[frame.node] = entry
       /\ \A n \in S : n # frame.node => nodes'[n] = nodes[n]
  BY <1>3, <1>9
<1>11. Frame' = Frame /\ Node' = Node
  BY <1>1 DEF Frame, Node
<1> HIDE DEF frame, entry, pushed
<1>12. nodes' \in [S \cup {frame.node} -> Node]
  <2>1. \A n \in S \cup {frame.node} : (IF n = frame.node THEN entry ELSE nodes[n]) \in Node
    BY <1>6, <1>9
  <2>2. QED
    BY <1>3, <1>9, <2>1
<1>13. nodes' \in UNION {[T -> Node] : T \in SUBSET Identities}
  <2>1. S \cup {frame.node} \in SUBSET Identities
    BY <1>8
  <2>2. QED
    BY <1>12, <2>1
<1>14. todo' \in Seq(Frame)
  BY <1>2, <1>4, <1>5 DEF pushed
<1>15. ASSUME RootIsRoot(doc)
       PROVE  /\ \A i \in DOMAIN todo' : Descends(todo[i].node, todo[i])'
              /\ \A n \in DOMAIN nodes' : Descends(n, nodes[n])'
  <2>1. Descends(frame.node, frame) /\ \A i \in DOMAIN todo : Descends(todo[i].node, todo[i])
    BY <1>1, <1>2, <1>15 DEF WalkInv
  <2>2. \A n \in S : Descends(n, nodes[n])
    BY <1>1, <1>9, <1>15 DEF WalkInv
  <2>3. entry.hop = frame.hop /\ entry.parent = frame.parent /\ entry.expected = frame.expected
    BY DEF entry
  <2>4. \A n \in S : nodes'[n] = nodes[n]
    <3>1. ASSUME frame.node \in S PROVE nodes[frame.node] = entry
      <4>1. /\ nodes[frame.node].hop = entry.hop /\ nodes[frame.node].parent = entry.parent
            /\ nodes[frame.node].expected = entry.expected
        BY <1>1, <2>1, <2>2, <2>3, <3>1, SameNode
      <4>2. nodes[frame.node] \in Node
        BY <1>9, <3>1
      <4>3. QED
        BY <4>1, <4>2, <1>6 DEF Node
    <3>2. QED
      BY <1>10, <3>1
  <2>5. ASSUME NEW n, NEW r, Descends(n, r)
        PROVE  /\ n = Root => r.hop = 0 /\ r.parent = Nobody /\ r.expected = doc'.grants
               /\ n # Root => \E e \in Delegations(doc') :
                    /\ e.to = n /\ e.from = r.parent
                    /\ r.parent \in DOMAIN nodes'
                    /\ r.hop = nodes'[r.parent].hop + 1
                    /\ r.expected = nodes'[r.parent].expected \cap e.intended
    <3>1. CASE n = Root
      BY <1>1, <2>5, <3>1 DEF Descends
    <3>2. CASE n # Root
      <4>1. PICK e \in Delegations(doc) :
               /\ e.to = n /\ e.from = r.parent
               /\ r.parent \in DOMAIN nodes
               /\ r.hop = nodes[r.parent].hop + 1
               /\ r.expected = nodes[r.parent].expected \cap e.intended
        BY <2>5, <3>2, Zenon DEF Descends
      <4>2. r.parent \in DOMAIN nodes' /\ nodes'[r.parent] = nodes[r.parent]
        BY <1>9, <1>10, <2>4, <4>1
      <4>3. QED
        BY <1>1, <3>2, <4>1, <4>2
    <3>3. QED
      BY <3>1, <3>2
  <2>6. \A n, r : Descends(n, r) =>
           IF n = Root THEN r.hop = 0 /\ r.parent = Nobody /\ r.expected = doc'.grants
           ELSE \E e \in Delegations(doc') :
                    /\ e.to = n /\ e.from = r.parent
                    /\ r.parent \in DOMAIN nodes'
                    /\ r.hop = nodes'[r.parent].hop + 1
                    /\ r.expected = nodes'[r.parent].expected \cap e.intended
    BY <2>5
  <2>7. \A n \in DOMAIN nodes' : Descends(n, nodes[n])'
    <3>1. \A n \in S : Descends(n, nodes[n])'
      BY <2>2, <2>4, <2>6 DEF Descends, Delegations
    <3>2. Descends(frame.node, entry)
      BY <2>1, <2>3 DEF Descends
    <3>3. \A n : n = frame.node => Descends(n, nodes[n])'
      BY <1>10, <2>6, <3>2 DEF Descends, Delegations
    <3>4. QED
      BY <1>10, <3>1, <3>3
  <2>8. ASSUME NEW f \in Frame, Descends(f.node, f)
        PROVE  IF f.node = Root THEN f.hop = 0 /\ f.parent = Nobody /\ f.expected = doc'.grants
               ELSE \E e \in Delegations(doc') :
                    /\ e.to = f.node /\ e.from = f.parent
                    /\ f.parent \in DOMAIN nodes'
                    /\ f.hop = nodes'[f.parent].hop + 1
                    /\ f.expected = nodes'[f.parent].expected \cap e.intended
    BY <2>6, <2>8
  <2>9. ASSUME NEW i \in DOMAIN pushed
        PROVE  IF pushed[i].node = Root
               THEN pushed[i].hop = 0 /\ pushed[i].parent = Nobody /\ pushed[i].expected = doc'.grants
               ELSE \E e \in Delegations(doc') :
                    /\ e.to = pushed[i].node /\ e.from = pushed[i].parent
                    /\ pushed[i].parent \in DOMAIN nodes'
                    /\ pushed[i].hop = nodes'[pushed[i].parent].hop + 1
                    /\ pushed[i].expected = nodes'[pushed[i].parent].expected \cap e.intended
    <3>1. PICK e \in Delegations(doc) :
             /\ e.from = frame.node
             /\ pushed[i] = [node |-> e.to, hop |-> frame.hop + 1, parent |-> frame.node,
                             expected |-> frame.expected \cap e.intended]
      BY <1>5
    <3>2. e.to # Root
      BY <1>15 DEF RootIsRoot
    <3>3. /\ pushed[i].node = e.to /\ pushed[i].parent = frame.node
          /\ pushed[i].hop = frame.hop + 1 /\ pushed[i].expected = frame.expected \cap e.intended
      BY <3>1
    <3>4. frame.node \in DOMAIN nodes' /\ nodes'[frame.node].hop = frame.hop
          /\ nodes'[frame.node].expected = frame.expected
      BY <1>10, <2>3
    <3>5. QED
      BY <1>1, <3>1, <3>2, <3>3, <3>4
  <2>10. \A i \in DOMAIN todo' :
            \/ \E j \in DOMAIN pushed : todo'[i] = pushed[j]
            \/ \E j \in DOMAIN todo : todo'[i] = todo[j]
    <3>1. todo' = pushed \o Tail(todo)
      BY <1>4 DEF pushed
    <3>2. \A k \in DOMAIN Tail(todo) : k + 1 \in DOMAIN todo /\ Tail(todo)[k] = todo[k + 1]
      BY <1>1
    <3>3. ASSUME NEW i \in DOMAIN todo'
          PROVE  \/ i \in DOMAIN pushed /\ todo'[i] = pushed[i]
                 \/ /\ i - Len(pushed) \in DOMAIN Tail(todo)
                    /\ todo'[i] = Tail(todo)[i - Len(pushed)]
      <4>1. Tail(todo) \in Seq(Frame) /\ pushed \in Seq(Frame)
        BY <1>2, <1>5
      <4>2. QED
        BY <3>1, <4>1
    <3>4. QED
      BY <3>2, <3>3
  <2>11. ASSUME NEW i \in DOMAIN todo' PROVE Descends(todo[i].node, todo[i])'
    <3>1. CASE \E j \in DOMAIN pushed : todo'[i] = pushed[j]
      BY <2>9, <3>1 DEF Descends, Delegations
    <3>2. CASE \E j \in DOMAIN todo : todo'[i] = todo[j]
      <4>1. PICK j \in DOMAIN todo : todo'[i] = todo[j]
        BY <3>2
      <4>2. todo[j] \in Frame /\ Descends(todo[j].node, todo[j])
        BY <1>1, <2>1
      <4>3. QED
        BY <4>1, <4>2, <2>8 DEF Descends, Delegations
    <3>3. QED
      BY <2>10, <3>1, <3>2
  <2>12. QED
    BY <2>7, <2>11
<1>16. QED
  BY <1>1, <1>11, <1>13, <1>14, <1>15
     DEF WalkInv, SchemaValid, ReferencesResolve, NoSelfDelegation, ControlIsMarked, TargetedOnce,
         Targets, Delegations, RootIsRoot

\* Steps of the run and of the analysis leave the compiler alone.
LEMMA CompilerFrame ==
    ASSUME [Next]_vars
    PROVE  Compile \/ UNCHANGED compilerVars
BY DEF Next, vars, Rest, MeasureMatrix, DiscardMatrix, AbortRun, MeasureOtherAxes, Analyze,
       ScoreBundle, Compare

\* A step that leaves the walk alone, or ends it, keeps what it has built.
LEMMA WalkFrame ==
    ASSUME WalkInv, doc' = doc, nodes' = nodes, todo' = todo,
           outcome' = outcome \/ outcome' \notin {"reading", "walking", "compiled"}
             \/ (outcome = "walking" /\ outcome' = "compiled")
    PROVE  WalkInv'
BY DEF WalkInv, Frame, Node, Descends, SchemaValid, ReferencesResolve, NoSelfDelegation,
       ControlIsMarked, TargetedOnce, Targets, Delegations, RootIsRoot

\* The walk starts with the frame of the root, which holds what the document grants.
LEMMA StartWalkInv ==
    ASSUME WalkInv, StartWalk
    PROVE  WalkInv'
<1> DEFINE first == [node |-> Root, hop |-> 0, parent |-> Nobody, expected |-> doc.grants]
<1>1. /\ doc' = doc /\ nodes' = nodes /\ nodes = <<>> /\ todo' = <<first>>
      /\ outcome' = "walking" /\ SchemaValid(doc) /\ TargetedOnce(doc) /\ doc \in Documents
  BY DEF StartWalk, WalkInv
<1>2. first \in Frame /\ todo' \in Seq(Frame) /\ Frame' = Frame /\ Node' = Node
  BY <1>1 DEF Frame, Node, Identities
<1>3. nodes' \in UNION {[S -> Node'] : S \in SUBSET Identities}
  <2>1. nodes' \in [{} -> Node']
    BY <1>1
  <2>2. {} \in SUBSET Identities
    OBVIOUS
  <2>3. QED
    BY <2>1, <2>2, Zenon
<1>4. DOMAIN nodes' = {} /\ DOMAIN todo' = {1} /\ todo'[1] = first
  BY <1>1
<1>5. (SchemaValid(doc) /\ TargetedOnce(doc))'
  BY <1>1 DEF SchemaValid, ReferencesResolve, NoSelfDelegation, ControlIsMarked, TargetedOnce,
              Targets, Delegations
<1>6. \A i \in DOMAIN todo' : Descends(todo[i].node, todo[i])'
  BY <1>1, <1>4 DEF Descends
<1>7. QED
  BY <1>1, <1>2, <1>3, <1>4, <1>5, <1>6 DEF WalkInv

\* Every step keeps the walk invariant.
LEMMA WalkStep == WalkInv /\ [Next]_vars => WalkInv'
<1> SUFFICES ASSUME WalkInv, [Next]_vars PROVE WalkInv'
  OBVIOUS
<1>1. CASE UNCHANGED compilerVars
  BY <1>1, WalkFrame DEF compilerVars
<1>2. CASE RejectSchema \/ RejectSecondParent \/ RejectDeclaration \/ ExhaustStack
             \/ RejectGraph \/ RejectBinding \/ RejectPolicy
  <2>1. /\ doc' = doc /\ nodes' = nodes /\ todo' = todo
        /\ outcome' \notin {"reading", "walking", "compiled"}
    BY <1>2 DEF RejectSchema, RejectSecondParent, RejectDeclaration, ExhaustStack, RejectGraph,
                RejectBinding, RejectPolicy, Reject
  <2>2. QED
    BY <2>1, WalkFrame
<1>3. CASE StartWalk
  BY <1>3, StartWalkInv
<1>4. CASE Visit
  BY <1>4, VisitInv
<1>5. CASE Emit
  BY <1>5, WalkFrame DEF Emit, Walked
<1>6. QED
  BY <1>1, <1>2, <1>3, <1>4, <1>5, CompilerFrame DEF Compile

---------------------------------------------------------------------------
\* What is compiled.

\* The phases of a document can be counted.
LEMMA PhasesAreFinite ==
    ASSUME doc \in Documents
    PROVE  /\ \A kind : IsFiniteSet(PhasesAt(doc, kind)) /\ Cardinality(PhasesAt(doc, kind)) \in Nat
           /\ IsFiniteSet(PollPlans(doc)) /\ Cardinality(PollPlans(doc)) \in Nat
<1>1. DOMAIN doc.phases = 1..Len(doc.phases) /\ Len(doc.phases) \in Int /\ 1 \in Int
  BY DocumentShape
<1>2. IsFiniteSet(DOMAIN doc.phases)
  BY <1>1, FS_Interval
<1>3. ASSUME NEW kind
      PROVE  IsFiniteSet(PhasesAt(doc, kind)) /\ Cardinality(PhasesAt(doc, kind)) \in Nat
  <2>1. PhasesAt(doc, kind) \in SUBSET (DOMAIN doc.phases)
    BY DEF PhasesAt
  <2>2. QED
    BY <1>2, <2>1, FS_Subset, FS_CardinalityType
<1>4. PollPlans(doc) \in SUBSET PhasesAt(doc, "POLL")
  BY DEF PollPlans
<1>5. IsFiniteSet(PollPlans(doc))
  BY <1>3, <1>4, FS_Subset
<1>6. QED
  BY <1>3, <1>5, FS_CardinalityType

\* A document polls finitely many cells.
LEMMA PolledIsFinite ==
    ASSUME doc \in Documents
    PROVE  IsFiniteSet({<<doc.phases[i].targets, doc.phases[i].caps>> : i \in PhasesAt(doc, "POLL")})
<1> DEFINE S == PhasesAt(doc, "POLL")
           T == {<<doc.phases[i].targets, doc.phases[i].caps>> : i \in S}
           f == [i \in S |-> <<doc.phases[i].targets, doc.phases[i].caps>>]
<1>1. IsFiniteSet(S)
  BY PhasesAreFinite
<1>2. f \in [S -> T]
  BY Zenon
<1>3. \A t \in T : \E i \in S : f[i] = t
  BY Zenon
<1>4. f \in Surjection(S, T)
  BY <1>2, <1>3 DEF Surjection
<1>5. QED
  BY <1>1, <1>4, FS_Surjection

\* What Emit makes of the walk is the compiled scenario.
LEMMA EmitInv ==
    ASSUME WalkInv, Emit
    PROVE  CompiledInv'
<1>1. /\ doc \in Documents /\ doc' = doc /\ nodes' = nodes /\ outcome' = "compiled" /\ GraphIsValid
  BY DEF WalkInv, Emit
<1>2. GraphIsValid'
  BY <1>1 DEF GraphIsValid, Unreached, RootIsRoot, Acyclic, ReachedFrom, Reaches, IntentIsMonotone,
              Excess, CapabilitiesAreKnown, DepthIsBounded, Delegations
<1>3. /\ scenario'.parent = [n \in Agents |-> nodes[n].parent]
      /\ scenario'.expected = [n \in Identities |-> nodes[n].expected]
      /\ scenario'.intended = [n \in Agents |-> Into(doc, n).intended]
      /\ scenario'.expect = doc.expect
      /\ scenario'.polls = Cardinality(PollPlans(doc))
      /\ scenario'.tasks = Cardinality(PhasesAt(doc, "TASK"))
      /\ scenario'.polled =
           {<<doc.phases[i].targets, doc.phases[i].caps>> : i \in PhasesAt(doc, "POLL")}
  BY DEF Emit
<1>4. scenario'.deferrals \in SUBSET (PhasesAt(doc, "DEFERRED_EXECUTION") \X Catalog)
  BY DEF Emit
<1>5. IsFiniteSet(PhasesAt(doc, "DEFERRED_EXECUTION") \X Catalog)
  BY <1>1, PhasesAreFinite, DocumentsAreFinite, FS_Product
<1>6. IsFiniteSet(scenario'.deferrals)
  BY <1>4, <1>5, FS_Subset
<1>7. IsFiniteSet(scenario'.polled) /\ scenario'.polls \in Nat /\ scenario'.tasks \in Nat
  BY <1>1, <1>3, PolledIsFinite, PhasesAreFinite
<1>8. [n \in Agents |-> Into(doc, n).intended] = [n \in Agents |-> Into(doc', n).intended]
  BY <1>1
<1>9. QED
  BY <1>1, <1>2, <1>3, <1>6, <1>7, <1>8 DEF CompiledInv

\* Every step keeps the compiled scenario what it is.
LEMMA CompiledStep == WalkInv /\ CompiledInv /\ [Next]_vars => CompiledInv'
<1> SUFFICES ASSUME WalkInv, CompiledInv, [Next]_vars PROVE CompiledInv'
  OBVIOUS
<1>1. CASE UNCHANGED compilerVars
  <2>1. doc' = doc /\ nodes' = nodes /\ outcome' = outcome /\ scenario' = scenario
    BY <1>1 DEF compilerVars
  <2>2. GraphIsValid' = GraphIsValid
    BY <2>1 DEF GraphIsValid, Unreached, RootIsRoot, Acyclic, ReachedFrom, Reaches, IntentIsMonotone,
                Excess, CapabilitiesAreKnown, DepthIsBounded, Delegations
  <2>3. [n \in Agents |-> Into(doc, n).intended] = [n \in Agents |-> Into(doc', n).intended]
    BY <2>1
  <2>4. QED
    BY <2>1, <2>2, <2>3 DEF CompiledInv
<1>2. CASE Emit
  BY <1>2, EmitInv
<1>3. CASE Compile /\ ~Emit
  BY <1>3 DEF CompiledInv, Compile, RejectSchema, RejectSecondParent, RejectDeclaration,
              ExhaustStack, RejectGraph, RejectBinding, RejectPolicy, Reject, StartWalk, Visit
<1>4. QED
  BY <1>1, <1>2, <1>3, CompilerFrame

\* Nothing is compiled at first.
LEMMA InitCompiler == Init => WalkInv /\ CompiledInv
BY DEF Init, CompilerInit, WalkInv, CompiledInv

---------------------------------------------------------------------------
\* The tree.

\* Every agent has the delegation that created it, one hop below its parent.
LEMMA Tree ==
    ASSUME WalkInv, CompiledInv, outcome = "compiled"
    PROVE  /\ DOMAIN nodes = Identities
           /\ \A n \in Identities : nodes[n].hop \in Nat /\ nodes[n].hop <= MaxDepth
           /\ \A n \in Agents :
                 /\ n # Root /\ scenario.parent[n] \in Identities
                 /\ nodes[n].hop = nodes[scenario.parent[n]].hop + 1
                 /\ \E e \in Delegations(doc) :
                       /\ e.to = n /\ e.from = scenario.parent[n]
                       /\ scenario.intended[n] = e.intended
                       /\ scenario.expected[n] = scenario.expected[scenario.parent[n]] \cap e.intended
<1>1. /\ doc \in Documents /\ SchemaValid(doc) /\ TargetedOnce(doc)
      /\ nodes \in UNION {[S -> Node] : S \in SUBSET Identities}
      /\ GraphIsValid /\ RootIsRoot(doc) /\ DepthIsBounded(doc) /\ Unreached = {}
  BY DEF WalkInv, CompiledInv, GraphIsValid
<1>2. DOMAIN nodes = Identities /\ nodes \in [Identities -> Node]
  <2>1. PICK S \in SUBSET Identities : nodes \in [S -> Node]
    BY <1>1
  <2>2. Identities \subseteq DOMAIN nodes
    BY <1>1 DEF Unreached
  <2>3. S = Identities
    BY <2>1, <2>2
  <2>4. QED
    BY <2>1, <2>3
<1>3. \A n \in Identities : nodes[n].hop \in Nat /\ nodes[n].hop <= MaxDepth
  BY <1>1, <1>2 DEF Node, DepthIsBounded
<1>4. ASSUME NEW n \in Agents
      PROVE  /\ n # Root /\ scenario.parent[n] \in Identities
             /\ nodes[n].hop = nodes[scenario.parent[n]].hop + 1
             /\ \E e \in Delegations(doc) :
                   /\ e.to = n /\ e.from = scenario.parent[n]
                   /\ scenario.intended[n] = e.intended
                   /\ scenario.expected[n] = scenario.expected[scenario.parent[n]] \cap e.intended
  <2>1. n # Root /\ n \in Identities
    BY RootIsNoAgent DEF Identities
  <2>2. Descends(n, nodes[n])
    BY <1>1, <1>2, <2>1 DEF WalkInv
  <2>3. PICK e \in Delegations(doc) :
          /\ e.to = n /\ e.from = nodes[n].parent
          /\ nodes[n].parent \in DOMAIN nodes
          /\ nodes[n].hop = nodes[nodes[n].parent].hop + 1
          /\ nodes[n].expected = nodes[nodes[n].parent].expected \cap e.intended
    BY <2>1, <2>2, Zenon DEF Descends
  <2>4. /\ scenario.parent[n] = nodes[n].parent
        /\ scenario.intended[n] = Into(doc, n).intended
        /\ \A m \in Identities : scenario.expected[m] = nodes[m].expected
    BY DEF CompiledInv
  <2>5. Into(doc, n) \in Delegations(doc) /\ Into(doc, n).to = n
    BY <2>3, Zenon DEF Into
  <2>6. Into(doc, n) = e
    BY <1>1, <2>3, <2>5, OneParent
  <2>7. QED
    BY <1>2, <2>1, <2>3, <2>4, <2>6
<1>5. QED
  BY <1>2, <1>3, <1>4

\* A set of naturals has a least element.
LEMMA LeastNatural ==
    ASSUME NEW S \in SUBSET Nat, S # {}
    PROVE  \E n \in S : \A m \in S : n <= m
<1> DEFINE R == OpToRel(<, Nat)
<1>1. IsWellFoundedOn(R, Nat)
  BY NatLessThanWellFounded, Zenon
<1>2. \A x, y \in Nat : y < x => <<y, x>> \in R
  BY DEF OpToRel
<1> HIDE DEF R
<1>3. PICK x \in S : \A y \in S : ~(<<y, x>> \in R)
  BY <1>1, WFMin
<1>4. \A y \in S : ~(y < x)
  BY <1>2, <1>3
<1>5. \A y \in S : x <= y
  BY <1>4
<1>6. QED
  BY <1>5

\* A function can be defined along a tree of bounded depth.
TreeData(depth, bound, parent, V, base, step) ==
    /\ depth \in [Identities -> Nat] /\ bound \in Nat /\ \A n \in Identities : depth[n] <= bound
    /\ \A n \in Agents : parent[n] \in Identities /\ depth[parent[n]] < depth[n]
    /\ base \in V /\ step \in [Agents \X V -> V]

\* A recursion down a tree of bounded depth defines a function: extended depth by depth.
LEMMA TreeRecursion ==
    ASSUME NEW depth, NEW bound, NEW parent, NEW V, NEW base, NEW step,
           TreeData(depth, bound, parent, V, base, step)
    PROVE  \E f \in [Identities -> V] :
              \A m \in Identities : f[m] = IF m = Root THEN base ELSE step[<<m, f[parent[m]]>>]
<1> USE DEF TreeData
<1> DEFINE Keeps(f, m) == f[m] = IF m = Root THEN base ELSE step[<<m, f[parent[m]]>>]
           Defined(k) == \E f \in [Identities -> V] :
                            \A m \in Identities : depth[m] <= k => Keeps(f, m)
           missing == {k \in Nat : ~Defined(k)}
<1>1. ASSUME missing # {} PROVE FALSE
  <2>1. missing \in SUBSET Nat
    OBVIOUS
  <2> HIDE DEF missing
  <2>2. PICK k \in missing : \A j \in missing : k <= j
    BY <1>1, <2>1, LeastNatural
  <2>3. k \in Nat /\ ~Defined(k)
    BY <2>2 DEF missing
  <2>4. k # 0
    <3> SUFFICES ASSUME k = 0 PROVE Defined(0)
      BY <2>3
    <3> DEFINE f == [m \in Identities |-> base]
    <3>1. f \in [Identities -> V]
      OBVIOUS
    <3>2. ASSUME NEW m \in Identities, depth[m] <= 0 PROVE Keeps(f, m)
      <4>1. m = Root
        BY <3>2 DEF Identities
      <4>2. QED
        BY <4>1
    <3> HIDE DEF f, Keeps
    <3>3. QED
      BY <3>1, <3>2
  <2>5. k - 1 \in Nat /\ ~(k <= k - 1)
    BY <2>3, <2>4
  <2>6. Defined(k - 1)
    BY <2>2, <2>5 DEF missing
  <2>7. PICK f \in [Identities -> V] : \A m \in Identities : depth[m] <= k - 1 => Keeps(f, m)
    BY <2>6
  <2> DEFINE h == [m \in Identities |->
                      IF depth[m] < k THEN f[m]
                      ELSE IF m = Root THEN base ELSE step[<<m, f[parent[m]]>>]]
  <2>8. \A m \in Identities : m # Root => m \in Agents
    BY DEF Identities
  <2>9. h \in [Identities -> V]
    BY <2>7, <2>8
  <2>10. \A m \in Identities : depth[m] < k => h[m] = f[m]
    OBVIOUS
  <2>11. ASSUME NEW m \in Identities, depth[m] <= k PROVE Keeps(h, m)
    <3>1. h[m] = IF m = Root THEN base ELSE step[<<m, f[parent[m]]>>]
      <4>1. CASE depth[m] < k
        <5>1. depth[m] <= k - 1
          BY <2>3, <4>1
        <5>2. QED
          BY <2>7, <2>10, <4>1, <5>1
      <4>2. CASE ~(depth[m] < k)
        BY <4>2
      <4>3. QED
        BY <4>1, <4>2
    <3> HIDE DEF h
    <3>2. m # Root => h[parent[m]] = f[parent[m]]
      <4> SUFFICES ASSUME m # Root PROVE h[parent[m]] = f[parent[m]]
        OBVIOUS
      <4>1. parent[m] \in Identities /\ depth[parent[m]] < depth[m]
        BY <2>8
      <4>2. depth[parent[m]] \in Nat /\ depth[m] \in Nat
        BY <4>1
      <4>3. depth[parent[m]] < k
        BY <2>3, <2>11, <4>1, <4>2
      <4>4. QED
        BY <2>10, <4>1, <4>3
    <3>3. QED
      BY <3>1, <3>2
  <2> HIDE DEF h, Keeps
  <2>12. Defined(k)
    BY <2>9, <2>11
  <2>13. QED
    BY <2>3, <2>12
<1>2. Defined(bound)
  BY <1>1
<1>3. PICK f \in [Identities -> V] : \A m \in Identities : depth[m] <= bound => Keeps(f, m)
  BY <1>2
<1>4. QED
  BY <1>3

\* The path to an identity is its parent's, and itself.
LEMMA PathSteps ==
    ASSUME WalkInv, CompiledInv, outcome = "compiled", NEW g, g.parent = scenario.parent,
           NEW n \in Identities
    PROVE  PathTo(g, n) = IF n = Root THEN <<n>> ELSE Append(PathTo(g, g.parent[n]), n)
<1> DEFINE depth == [m \in Identities |-> nodes[m].hop]
           V == Seq(Identities)
           base == <<Root>>
           step == [x \in Agents \X V |-> Append(x[2], x[1])]
           Says(f) == f = [m \in Identities |-> IF m = Root THEN <<m>> ELSE Append(f[g.parent[m]], m)]
<1>1. \A m \in Identities : m # Root => m \in Agents
  BY DEF Identities
<1>2. \E f \in [Identities -> V] :
         \A m \in Identities : f[m] = IF m = Root THEN base ELSE step[<<m, f[g.parent[m]]>>]
  <2>1. depth \in [Identities -> Nat] /\ MaxDepth \in Nat /\ \A m \in Identities : depth[m] <= MaxDepth
    BY Tree, CompilerConstants
  <2>2. \A m \in Agents : g.parent[m] \in Identities /\ depth[g.parent[m]] < depth[m]
    <3> SUFFICES ASSUME NEW m \in Agents
                 PROVE  g.parent[m] \in Identities /\ depth[g.parent[m]] < depth[m]
      OBVIOUS
    <3>1. m \in Identities /\ g.parent[m] \in Identities
          /\ nodes[m].hop = nodes[g.parent[m]].hop + 1 /\ nodes[g.parent[m]].hop \in Nat
      BY Tree DEF Identities
    <3>2. QED
      BY <3>1
  <2>3. base \in V /\ step \in [Agents \X V -> V]
    <3>1. \A x \in Agents \X V : Append(x[2], x[1]) \in V
      BY DEF Identities
    <3>2. QED
      BY <3>1 DEF Identities
  <2> HIDE DEF depth, V, base, step
  <2>4. TreeData(depth, MaxDepth, g.parent, V, base, step)
    BY <2>1, <2>2, <2>3 DEF TreeData
  <2>5. QED
    BY <2>4, TreeRecursion
<1>3. PICK f \in [Identities -> V] :
         \A m \in Identities : f[m] = IF m = Root THEN base ELSE step[<<m, f[g.parent[m]]>>]
  BY <1>2
<1>4. \A m \in Identities : f[m] = IF m = Root THEN <<m>> ELSE Append(f[g.parent[m]], m)
  <2> SUFFICES ASSUME NEW m \in Identities
               PROVE  f[m] = IF m = Root THEN <<m>> ELSE Append(f[g.parent[m]], m)
    OBVIOUS
  <2>1. m # Root => m \in Agents /\ f[g.parent[m]] \in V
    BY <1>1, <1>3, Tree
  <2>2. m # Root => step[<<m, f[g.parent[m]]>>] = Append(f[g.parent[m]], m)
    BY <2>1
  <2>3. QED
    BY <1>3, <2>2
<1> HIDE DEF step, base
<1>5. Says(f)
  BY <1>3, <1>4
<1> DEFINE path == CHOOSE h : Says(h)
<1>6. Says(path)
  BY <1>5, Zenon
<1>7. \A m : PathTo(g, m) = path[m]
  BY DEF PathTo
<1> HIDE DEF path
<1>8. path[n] = IF n = Root THEN <<n>> ELSE Append(path[g.parent[n]], n)
  BY <1>6, Zenon
<1>9. QED
  BY <1>7, <1>8

\* Every path starts at the root, ends at its identity, and passes through identities only.
LEMMA PathTyped ==
    ASSUME WalkInv, CompiledInv, outcome = "compiled", NEW g, g.parent = scenario.parent,
           NEW n \in Identities
    PROVE  /\ PathTo(g, n) \in Seq(Identities) /\ PathTo(g, n) # <<>>
           /\ Head(PathTo(g, n)) = Root
<1> DEFINE Typed(m) == /\ PathTo(g, m) \in Seq(Identities) /\ PathTo(g, m) # <<>>
                       /\ Head(PathTo(g, m)) = Root
           wrong == {nodes[m].hop : m \in {k \in Identities : ~Typed(k)}}
<1>1. ASSUME wrong # {} PROVE FALSE
  <2>1. wrong \in SUBSET Nat
    BY Tree
  <2>2. PICK h \in wrong : \A k \in wrong : h <= k
    BY <1>1, <2>1, LeastNatural
  <2>3. PICK m \in Identities : h = nodes[m].hop /\ ~Typed(m)
    BY Zenon
  <2>4. CASE m = Root
    <3>1. PathTo(g, m) = <<Root>>
      BY <2>4, PathSteps
    <3>2. QED
      BY <2>3, <2>4, <3>1
  <2>5. CASE m # Root
    <3>1. /\ m \in Agents /\ g.parent[m] \in Identities
          /\ nodes[m].hop = nodes[g.parent[m]].hop + 1 /\ nodes[g.parent[m]].hop \in Nat
      BY <2>5, Tree DEF Identities
    <3>2. Typed(g.parent[m])
      <4> SUFFICES ASSUME ~Typed(g.parent[m]) PROVE FALSE
        OBVIOUS
      <4>1. nodes[g.parent[m]].hop \in wrong
        BY <3>1, Zenon
      <4>2. nodes[m].hop <= nodes[g.parent[m]].hop
        BY <2>2, <2>3, <4>1
      <4>3. QED
        BY <3>1, <4>2
    <3>3. PathTo(g, m) = Append(PathTo(g, g.parent[m]), m)
      BY <2>5, PathSteps
    <3>4. Typed(m)
      BY <3>2, <3>3
    <3>5. QED
      BY <2>3, <3>4
  <2>6. QED
    BY <2>4, <2>5
<1>2. Typed(n)
  BY <1>1, Zenon
<1>3. QED
  BY <1>2

\* The delegations of what is compiled are as many as the agents.
LEMMA OneDelegationEach ==
    ASSUME WalkInv, CompiledInv, outcome = "compiled"
    PROVE  Len(doc.delegations) = Cardinality(Agents)
<1> DEFINE last == Len(doc.delegations)
<1>1. doc \in Documents /\ TargetedOnce(doc) /\ ReferencesResolve(doc) /\ RootIsRoot(doc)
  BY DEF WalkInv, CompiledInv, SchemaValid, GraphIsValid
<1>2. last \in Nat /\ DOMAIN doc.delegations = 1..last
  BY <1>1, DocumentShape
<1>3. DOMAIN Targets(doc) = 1..last /\ Targets(doc) = [i \in 1..last |-> doc.delegations[i].to]
  BY <1>2 DEF Targets
<1>4. \A i \in 1..last : Targets(doc)[i] \in Agents
  <2> SUFFICES ASSUME NEW i \in 1..last PROVE doc.delegations[i].to \in Agents
    BY <1>3
  <2>1. doc.delegations[i] \in Delegations(doc)
    BY <1>1, <1>2, DocumentShape
  <2>2. QED
    BY <1>1, <2>1 DEF ReferencesResolve, RootIsRoot, Identities
<1>5. \A n \in Agents : \E i \in 1..last : Targets(doc)[i] = n
  <2> SUFFICES ASSUME NEW n \in Agents PROVE \E i \in 1..last : Targets(doc)[i] = n
    OBVIOUS
  <2>1. PICK e \in Delegations(doc) : e.to = n
    BY Tree
  <2>2. PICK i \in DOMAIN doc.delegations : doc.delegations[i] = e
    BY <1>1, DocumentShape
  <2>3. QED
    BY <1>2, <1>3, <2>1, <2>2
<1>6. \A i, j \in 1..last : Targets(doc)[i] = Targets(doc)[j] => i = j
  BY <1>1, <1>3 DEF TargetedOnce, IsInjective
<1>7. Targets(doc) \in [1..last -> Agents]
  BY <1>3, <1>4
<1> HIDE DEF last
<1>8. ExistsBijection(1..last, Agents)
  BY <1>5, <1>6, <1>7 DEF ExistsBijection, Bijection, Injection, Surjection, IsInjective
<1>9. QED
  BY <1>2, <1>8, FS_CountingElements DEF last

\* No delegation of a compiled document intends more than its parent has, unless the
\* document suppresses G-3.
LEMMA IntentWithinParent ==
    ASSUME WalkInv, CompiledInv, outcome = "compiled", doc.suppress = {}, NEW n \in Agents
    PROVE  scenario.intended[n] \subseteq scenario.expected[scenario.parent[n]]
<1>1. PICK e \in Delegations(doc) : e.from = scenario.parent[n] /\ scenario.intended[n] = e.intended
  BY Tree
<1>2. Excess(doc) = {}
  BY DEF CompiledInv, GraphIsValid, IntentIsMonotone
<1>3. e.intended \subseteq nodes[e.from].expected
  BY <1>2 DEF Excess
<1>4. scenario.expected[scenario.parent[n]] = nodes[scenario.parent[n]].expected
  BY Tree DEF CompiledInv
<1>5. QED
  BY <1>1, <1>3, <1>4

\* The two invariants of the compiler give the tree.
LEMMA TreeProperty ==
    ASSUME WalkInv, CompiledInv
    PROVE  CompiledIsATree
<1> SUFFICES ASSUME outcome = "compiled"
             PROVE  /\ Len(doc.delegations) = Cardinality(Agents)
                    /\ \A n \in Agents :
                          /\ \E e \in Delegations(doc) :
                                e.from = scenario.parent[n] /\ e.to = n
                                  /\ e.intended = scenario.intended[n]
                          /\ scenario.expected[n] =
                                scenario.expected[scenario.parent[n]] \cap scenario.intended[n]
                          /\ Head(PathTo(scenario, n)) = Root
                    /\ doc.suppress = {} =>
                          \A n \in Agents :
                              scenario.intended[n] \subseteq scenario.expected[scenario.parent[n]]
  BY DEF CompiledIsATree
<1>1. \A n \in Agents : n \in Identities
  BY DEF Identities
<1>2. ASSUME NEW n \in Agents
      PROVE  /\ \E e \in Delegations(doc) :
                   e.from = scenario.parent[n] /\ e.to = n /\ e.intended = scenario.intended[n]
             /\ scenario.expected[n] =
                   scenario.expected[scenario.parent[n]] \cap scenario.intended[n]
             /\ Head(PathTo(scenario, n)) = Root
  <2>1. Head(PathTo(scenario, n)) = Root
    BY <1>1, PathTyped
  <2>2. PICK e \in Delegations(doc) :
          /\ e.to = n /\ e.from = scenario.parent[n]
          /\ scenario.intended[n] = e.intended
          /\ scenario.expected[n] = scenario.expected[scenario.parent[n]] \cap e.intended
    BY Tree
  <2>3. QED
    BY <2>1, <2>2
<1>3. QED
  BY <1>2, OneDelegationEach, IntentWithinParent

---------------------------------------------------------------------------
\* Cells and findings.

\* A cell resolves to allowed exactly when every trial was.
LEMMA ResolvedSays ==
    ASSUME NEW t \in Trials
    PROVE  /\ (Resolved(t) = "ALLOWED") <=> (Outcomes(t) = {"ALLOWED"})
           /\ Outcomes(t) \subseteq Denials \cup Errors \cup {"ALLOWED"}
<1>1. 1 \in DOMAIN t /\ \A i \in DOMAIN t : t[i] \in Denials \cup Errors \cup {"ALLOWED"}
  BY DEF Trials
<1>2. Outcomes(t) = {t[i] : i \in DOMAIN t}
  BY DEF Outcomes, ToSet
<1>3. Outcomes(t) \subseteq Denials \cup Errors \cup {"ALLOWED"} /\ t[1] \in Outcomes(t)
  BY <1>1, <1>2
<1>4. "ALLOWED" \notin Denials /\ "ALLOWED" \notin Errors
  BY DEF Denials, Errors
<1>5. CASE Outcomes(t) = {"ALLOWED"}
  BY <1>3, <1>4, <1>5 DEF Resolved
<1>6. CASE Outcomes(t) # {"ALLOWED"}
  BY <1>3, <1>4, <1>6 DEF Resolved
<1>7. QED
  BY <1>3, <1>5, <1>6

\* A unanimous cell without an error that was not allowed was denied.
LEMMA UnanimousSays ==
    ASSUME NEW t \in Trials, Unanimous(t), Outcomes(t) \cap Errors = {}, Outcomes(t) # {"ALLOWED"}
    PROVE  Outcomes(t) \subseteq Denials
<1> DEFINE f == [i \in DOMAIN t |-> t[i]]
<1>1. Len(t) \in Nat /\ DOMAIN t = 1..Len(t)
  BY DEF Trials
<1>2. IsFiniteSet(DOMAIN t)
  BY <1>1, FS_Interval
<1>3. Outcomes(t) = {t[i] : i \in DOMAIN t}
  BY DEF Outcomes, ToSet
<1>4. f \in Surjection(DOMAIN t, Outcomes(t))
  <2>1. f \in [DOMAIN t -> Outcomes(t)]
    BY <1>3
  <2>2. \A x \in Outcomes(t) : \E i \in DOMAIN t : f[i] = x
    BY <1>3
  <2>3. QED
    BY <2>1, <2>2 DEF Surjection
<1>5. IsFiniteSet(Outcomes(t))
  BY <1>2, <1>4, FS_Surjection
<1>6. PICK x : Outcomes(t) = {x}
  BY <1>5, FS_Singleton DEF Unanimous
<1>7. QED
  BY <1>6, ResolvedSays

\* The gate always gives a confidence, and HIGH only to unanimous cells without errors.
LEMMA GateSays ==
    ASSUME NEW classified, NEW attempted, NEW cells
    PROVE  /\ GateConfidence(classified, attempted, cells) \in Confidences
           /\ GateConfidence(classified, attempted, cells) = "HIGH" =>
                 \A t \in cells : Unanimous(t) /\ Outcomes(t) \cap Errors = {}
BY DEF GateConfidence, Confidences

\* What a finding of a phase says of its identity.
Probed(g, n, caps) == caps \cap DOMAIN g.rows[n]
Says(f, g, place, n, type, caps) ==
    /\ f.node = n
    /\ f.confidence \in Confidences
    /\ f.type = IF f.confidence = "INSUFFICIENT" THEN "INCONCLUSIVE" ELSE type
    /\ f.refs = {<<place, n, c>> : c \in Probed(g, n, caps)}
    /\ f.confidence = "HIGH" =>
          \A c \in Probed(g, n, caps) :
              Unanimous(g.rows[n][c]) /\ Outcomes(g.rows[n][c]) \cap Errors = {}

\* It says so whatever else is recorded in it.
LEMMA SaysOnly ==
    ASSUME NEW f, NEW r, NEW g, NEW place, NEW n, NEW type, NEW caps,
           Says(f, g, place, n, type, caps),
           r.node = f.node, r.confidence = f.confidence, r.type = f.type, r.refs = f.refs
    PROVE  Says(r, g, place, n, type, caps)
BY DEF Says

Fields == {"type", "kind", "node", "gain", "loss", "observed", "said", "confidence",
           "drift", "cites", "refs"}

\* What _build puts into a finding.
LEMMA FindingSays ==
    ASSUME NEW g, NEW place, NEW n, NEW type, NEW kind, NEW caps, NEW classified, NEW attempted,
           NEW f, f = Finding(g, place, n, type, kind, caps, classified, attempted)
    PROVE  /\ Says(f, g, place, n, type, caps)
           /\ f = [x \in Fields |-> f[x]]
           /\ f.kind = kind /\ f.gain = {} /\ f.loss = {}
           /\ f.observed = Held(g, n) /\ f.said = place[2] /\ f.cites = NoId
<1> DEFINE probed == Probed(g, n, caps)
           cells == {g.rows[n][c] : c \in probed}
           confidence == GateConfidence(classified, attempted, cells)
<1>1. f = [type |-> IF confidence = "INSUFFICIENT" THEN "INCONCLUSIVE" ELSE type,
           kind |-> kind, node |-> n, gain |-> {}, loss |-> {}, observed |-> Held(g, n),
           said |-> place[2], confidence |-> confidence, drift |-> "NONE", cites |-> NoId,
           refs |-> {<<place, n, c>> : c \in probed}]
  BY DEF Finding, Probed
<1>2. confidence \in Confidences
      /\ (confidence = "HIGH" => \A t \in cells : Unanimous(t) /\ Outcomes(t) \cap Errors = {})
  BY GateSays
<1>3. \A c \in probed : g.rows[n][c] \in cells
  BY Zenon
<1> HIDE DEF cells, confidence
<1>4. \A c \in probed : confidence = "HIGH" =>
         Unanimous(g.rows[n][c]) /\ Outcomes(g.rows[n][c]) \cap Errors = {}
  BY <1>2, <1>3
<1> HIDE DEF probed
<1>5. Says(f, g, place, n, type, caps)
  BY <1>1, <1>2, <1>4 DEF Says, probed
<1>6. f = [x \in Fields |-> f[x]]
  BY <1>1 DEF Fields
<1>7. QED
  BY <1>1, <1>5, <1>6

\* The five findings of a phase; four of them tell what their identity held.
Tells(f, g, n) == DOMAIN f = Fields /\ f.kind = "identity" /\ f.observed = Held(g, n)

\* An expansion reports the gain of its identity.
LEMMA ExpansionSays ==
    ASSUME NEW g, NEW place, NEW n, NEW f, f = AuthorityExpansion(g, place, n)
    PROVE  /\ Says(f, g, place, n, "AUTHORITY_EXPANSION", Gain(g, n))
           /\ f.gain = Gain(g, n) /\ f.loss = {}
           /\ Tells(f, g, n) /\ f.said = place[2] /\ f.cites = NoId
<1>1. PICK gain, drift : gain = Gain(g, n) /\ drift = DriftClass(g, n)
  OBVIOUS
<1>2. PICK b : b = Finding(g, place, n, "AUTHORITY_EXPANSION", "identity", gain,
                           Classified(g, n), Attempted(g, n))
  OBVIOUS
<1>3. f = [b EXCEPT !.gain = gain, !.drift = drift]
  BY <1>1, <1>2 DEF AuthorityExpansion, NodeFinding
<1>4. /\ Says(b, g, place, n, "AUTHORITY_EXPANSION", gain)
      /\ b = [x \in Fields |-> b[x]] /\ b.kind = "identity" /\ b.loss = {}
      /\ b.observed = Held(g, n) /\ b.said = place[2] /\ b.cites = NoId
  BY <1>2, FindingSays
<1>5. /\ f.node = b.node /\ f.confidence = b.confidence /\ f.type = b.type /\ f.refs = b.refs
      /\ f.gain = gain /\ f.loss = {} /\ DOMAIN f = Fields /\ f.kind = "identity"
      /\ f.observed = Held(g, n) /\ f.said = place[2] /\ f.cites = NoId
  BY <1>3, <1>4 DEF Fields
<1>6. Says(f, g, place, n, "AUTHORITY_EXPANSION", gain)
  BY <1>4, <1>5, SaysOnly
<1>7. QED
  BY <1>1, <1>5, <1>6 DEF Tells

\* What a finding says that names no phase.
Unsaid == ""

\* A drift reports the gain too, and cites the origin its parent's gain is traced to.
LEMMA DriftSays ==
    ASSUME NEW g, NEW place, NEW n, NEW f, f = DelegationDrift(g, place, n)
    PROVE  /\ Says(f, g, place, n, "DELEGATION_DRIFT", Gain(g, n))
           /\ f.gain = Gain(g, n) /\ f.loss = {}
           /\ f.drift = DriftClass(g, n) /\ f.cites = Origin(g, place)[g.parent[n]]
           /\ Tells(f, g, n) /\ f.said = Unsaid
<1>1. PICK gain, drift, cited, said :
        /\ gain = Gain(g, n) /\ drift = DriftClass(g, n)
        /\ cited = Origin(g, place)[g.parent[n]] /\ said = Unsaid
  OBVIOUS
<1>2. PICK b : b = Finding(g, place, n, "DELEGATION_DRIFT", "identity", gain,
                           Classified(g, n), Attempted(g, n))
  OBVIOUS
<1>3. f = [b EXCEPT !.gain = gain, !.drift = drift, !.said = said, !.cites = cited]
  BY <1>1, <1>2 DEF DelegationDrift, NodeFinding, Unsaid
<1>4. /\ Says(b, g, place, n, "DELEGATION_DRIFT", gain)
      /\ b = [x \in Fields |-> b[x]] /\ b.loss = {}
      /\ b.kind = "identity" /\ b.observed = Held(g, n)
  BY <1>2, FindingSays
<1>5. /\ f.node = b.node /\ f.confidence = b.confidence /\ f.type = b.type /\ f.refs = b.refs
      /\ f.gain = gain /\ f.loss = {} /\ f.drift = drift /\ f.cites = cited /\ f.said = said
      /\ DOMAIN f = Fields /\ f.kind = "identity" /\ f.observed = Held(g, n)
  BY <1>3, <1>4 DEF Fields
<1>6. Says(f, g, place, n, "DELEGATION_DRIFT", gain)
  BY <1>4, <1>5, SaysOnly
<1>7. QED
  BY <1>1, <1>5, <1>6 DEF Tells

\* A narrowing reports the loss.
LEMMA NarrowingSays ==
    ASSUME NEW g, NEW place, NEW n, NEW f, f = AuthorityNarrowing(g, place, n)
    PROVE  /\ Says(f, g, place, n, "AUTHORITY_NARROWING", Loss(g, n))
           /\ f.gain = {} /\ f.loss = Loss(g, n)
           /\ Tells(f, g, n) /\ f.said = place[2] /\ f.cites = NoId
<1>1. PICK loss : loss = Loss(g, n)
  OBVIOUS
<1>2. PICK b : b = Finding(g, place, n, "AUTHORITY_NARROWING", "identity", loss,
                           Classified(g, n), Attempted(g, n))
  OBVIOUS
<1>3. f = [b EXCEPT !.loss = loss]
  BY <1>1, <1>2 DEF AuthorityNarrowing, NodeFinding
<1>4. /\ Says(b, g, place, n, "AUTHORITY_NARROWING", loss)
      /\ b = [x \in Fields |-> b[x]] /\ b.kind = "identity" /\ b.gain = {}
      /\ b.observed = Held(g, n) /\ b.said = place[2] /\ b.cites = NoId
  BY <1>2, FindingSays
<1>5. /\ f.node = b.node /\ f.confidence = b.confidence /\ f.type = b.type /\ f.refs = b.refs
      /\ f.gain = {} /\ f.loss = loss /\ DOMAIN f = Fields /\ f.kind = "identity"
      /\ f.observed = Held(g, n) /\ f.said = place[2] /\ f.cites = NoId
  BY <1>3, <1>4 DEF Fields
<1>6. Says(f, g, place, n, "AUTHORITY_NARROWING", loss)
  BY <1>4, <1>5, SaysOnly
<1>7. QED
  BY <1>1, <1>5, <1>6 DEF Tells

\* Expected behaviour reports every probed cell.
LEMMA ExpectedSays ==
    ASSUME NEW g, NEW place, NEW n, NEW f, f = ExpectedBehavior(g, place, n)
    PROVE  /\ Says(f, g, place, n, "EXPECTED_BEHAVIOR", DOMAIN g.rows[n])
           /\ f.gain = {} /\ f.loss = {}
           /\ Tells(f, g, n) /\ f.said = place[2] /\ f.cites = NoId
<1>1. PICK caps : caps = DOMAIN g.rows[n]
  OBVIOUS
<1>2. f = Finding(g, place, n, "EXPECTED_BEHAVIOR", "identity", caps,
                  Classified(g, n), Attempted(g, n))
  BY <1>1 DEF ExpectedBehavior, NodeFinding
<1>3. /\ Says(f, g, place, n, "EXPECTED_BEHAVIOR", caps)
      /\ f = [x \in Fields |-> f[x]] /\ f.kind = "identity" /\ f.gain = {} /\ f.loss = {}
      /\ f.observed = Held(g, n) /\ f.said = place[2] /\ f.cites = NoId
  BY <1>2, FindingSays
<1>4. DOMAIN f = Fields
  BY <1>3
<1>5. QED
  BY <1>1, <1>3, <1>4 DEF Tells

\* A survival reports what the edge should have taken away.
LEMMA SurvivalSays ==
    ASSUME NEW g, NEW place, NEW n, NEW f, f = AuthoritySurvival(g, place, n)
    PROVE  /\ Says(f, g, place, n, "AUTHORITY_SURVIVAL", SurvivedIncorrectly(g, n))
           /\ f.gain = SurvivedIncorrectly(g, n) /\ f.loss = {} /\ f.kind = "edge"
<1>1. PICK survived : survived = SurvivedIncorrectly(g, n)
  OBVIOUS
<1>2. PICK b : b = Finding(g, place, n, "AUTHORITY_SURVIVAL", "edge", survived,
                           Cardinality(survived), Cardinality(survived))
  OBVIOUS
<1>3. f = [b EXCEPT !.gain = survived, !.observed = survived, !.said = ""]
  BY <1>1, <1>2 DEF AuthoritySurvival
<1>4. /\ Says(b, g, place, n, "AUTHORITY_SURVIVAL", survived)
      /\ b = [x \in Fields |-> b[x]] /\ b.loss = {} /\ b.kind = "edge"
  BY <1>2, FindingSays
<1>5. /\ f.node = b.node /\ f.confidence = b.confidence /\ f.type = b.type /\ f.refs = b.refs
      /\ f.gain = survived /\ f.loss = {} /\ f.kind = "edge"
  BY <1>3, <1>4 DEF Fields
<1>6. QED
  BY <1>1, <1>4, <1>5, SaysOnly

\* Every finding of a phase is one of the five, of a measured identity.
LEMMA PhaseFindings ==
    ASSUME NEW g, NEW place, NEW f \in AuthorityFindings(g, place)
    PROVE  \E n \in Identities :
              /\ Measured(g, n)
              /\ \/ f = AuthorityExpansion(g, place, n) /\ Expands(g, n)
                 \/ f = DelegationDrift(g, place, n) /\ Drifts(g, n)
                 \/ f = AuthorityNarrowing(g, place, n)
                 \/ f = ExpectedBehavior(g, place, n) /\ ~Diverged(g, n)
                 \/ f = AuthoritySurvival(g, place, n)
<1>1. \/ f \in UNION {NodeFindings(g, place, n) : n \in {m \in Identities : Measured(g, m)}}
      \/ f \in {AuthoritySurvival(g, place, n) :
             n \in {m \in Identities : EdgeMeasured(g, m) /\ SurvivedIncorrectly(g, m) # {}}}
  BY DEF AuthorityFindings
<1>2. CASE \E n \in Identities : Measured(g, n) /\ f \in NodeFindings(g, place, n)
  <2>1. PICK n \in Identities : Measured(g, n) /\ f \in NodeFindings(g, place, n)
    BY <1>2
  <2>2. \/ f = AuthorityExpansion(g, place, n) /\ Expands(g, n)
        \/ f = DelegationDrift(g, place, n) /\ Drifts(g, n)
        \/ f = AuthorityNarrowing(g, place, n)
        \/ f = ExpectedBehavior(g, place, n) /\ ~Diverged(g, n)
    BY <2>1 DEF NodeFindings
  <2>3. QED
    BY <2>1, <2>2
<1>3. CASE \E n \in Identities : EdgeMeasured(g, n) /\ f = AuthoritySurvival(g, place, n)
  BY <1>3 DEF EdgeMeasured
<1>4. QED
  BY <1>1, <1>2, <1>3, Zenon

---------------------------------------------------------------------------
\* The run, and what the analysis makes of it.

RowsInv ==
    /\ DOMAIN rows = PlanPhases
    /\ \A p \in PlanPhases :
          /\ DOMAIN rows[p] = Identities
          /\ \A n \in Identities : \A c \in DOMAIN rows[p][n] : rows[p][n][c] \in Trials

\* What the other analyses hand over: nothing but their own findings, none of them
\* without confidence, and one for every cell whose window saw no transition.
OtherTypes == {"NO_TRANSITION_OBSERVED", "REVOCATION_DELAY", "STALE_AUTHORITY",
               "EXPIRED_CREDENTIAL_ACCEPTED", "SILENT_NARROWING"}
AxesInv ==
    /\ status \in {"RUNNING", "COMPLETED", "ABORTED"}
    /\ status = "COMPLETED" =>
          /\ outcome = "compiled"
          /\ axes.pollPlans \in Nat /\ axes.windows \in Nat /\ axes.deferrals \in Nat
          /\ axes.paired \in Nat /\ axes.tasks \in Nat /\ axes.credentials \in Nat
          /\ "findings" \in DOMAIN axes
          /\ \A f \in axes.findings :
                /\ f.type \in OtherTypes /\ f.kind = "other"
                /\ f.confidence \in {"HIGH", "MEDIUM", "LOW"}
          /\ \A cell \in DOMAIN axes.transitions : axes.transitions[cell] = {} =>
                \E f \in axes.findings : f.type = "NO_TRANSITION_OBSERVED"

VerdictInv ==
    /\ result # Pending => status = "COMPLETED" /\ result = AnalyzeBundle(ThisRun)
    /\ scores # Pending =>
          /\ result # Pending
          /\ scores = IF CanScore(result) THEN Score(result) ELSE [error |-> "ValueError"]

\* The analysis is a function of the scenario and of the evidence.
LEMMA SameAnalysis ==
    ASSUME UNCHANGED <<scenario, rows, axes, discarded>>
    PROVE  AnalyzeBundle(ThisRun)' = AnalyzeBundle(ThisRun)
BY DEF AnalyzeBundle, ThisRun, Graph, MeasuredIn, PhasesPresent, Accumulated, ConfigurationErrors

\* Trials of a cell that are run together are trials of the cell.
LEMMA Together ==
    ASSUME NEW t \in Trials \cup {<<>>}, NEW u \in Trials \cup {<<>>}, t # <<>> \/ u # <<>>
    PROVE  t \o u \in Trials
<1>1. PICK all : all = Denials \cup Errors \cup {"ALLOWED"}
  OBVIOUS
<1>2. Trials = Seq(all) \ {<<>>}
  BY <1>1 DEF Trials
<1>3. <<>> \in Seq(all)
  OBVIOUS
<1>4. t \in Seq(all) /\ u \in Seq(all)
  BY <1>2, <1>3
<1>5. t \o u \in Seq(all) /\ Len(t \o u) = Len(t) + Len(u) /\ Len(t) \in Nat /\ Len(u) \in Nat
  BY <1>4
<1>6. t # <<>> => Len(t) > 0
  BY <1>4
<1>7. u # <<>> => Len(u) > 0
  BY <1>4
<1>8. Len(t \o u) > 0
  BY <1>5, <1>6, <1>7
<1>9. t \o u # <<>>
  BY <1>8
<1>10. QED
  BY <1>2, <1>5, <1>9

\* Every cell of two matrices run together has trials.
LEMMA MergeTyped ==
    ASSUME NEW old, NEW new,
           \A c \in DOMAIN old : old[c] \in Trials, \A c \in DOMAIN new : new[c] \in Trials
    PROVE  \A c \in DOMAIN Merge(old, new) : Merge(old, new)[c] \in Trials
<1> SUFFICES ASSUME NEW c \in DOMAIN Merge(old, new)
             PROVE  Merge(old, new)[c] \in Trials
  OBVIOUS
<1>1. PICK t, u : /\ t = IF c \in DOMAIN old THEN old[c] ELSE <<>>
                  /\ u = IF c \in DOMAIN new THEN new[c] ELSE <<>>
  OBVIOUS
<1>2. c \in DOMAIN old \/ c \in DOMAIN new
  BY DEF Merge
<1>3. Merge(old, new)[c] = t \o u
  BY <1>1, <1>2 DEF Merge
<1>4. <<>> \notin Trials
  BY DEF Trials
<1>5. t \in Trials \cup {<<>>} /\ u \in Trials \cup {<<>>} /\ (t # <<>> \/ u # <<>>)
  BY <1>1, <1>2, <1>4
<1>6. QED
  BY <1>3, <1>5, Together

\* A matrix adds trials and loses none.
LEMMA MeasureRows ==
    ASSUME RowsInv, MeasureMatrix
    PROVE  RowsInv'
<1>1. PICK cells \in [Matrix.targets \X Matrix.caps -> TrialRows] :
        rows' = [rows EXCEPT ![PlanPhaseOf[Matrix.name]] =
                    [n \in Identities |->
                        IF n \in Matrix.targets
                        THEN Merge(@[n], [c \in Matrix.caps |-> cells[<<n, c>>]])
                        ELSE @[n]]]
  BY DEF MeasureMatrix
<1>2. PICK q, targets, caps : q = PlanPhaseOf[Matrix.name] /\ targets = Matrix.targets /\ caps = Matrix.caps
  OBVIOUS
<1>3. q \in PlanPhases
  BY <1>2 DEF MeasureMatrix, PlanPhases, Range
<1>4. \A n \in targets, c \in caps : cells[<<n, c>>] \in Trials
  BY <1>1, <1>2, RunConstants
<1>5. PICK row : row = [n \in Identities |->
                          IF n \in targets
                          THEN Merge(rows[q][n], [c \in caps |-> cells[<<n, c>>]])
                          ELSE rows[q][n]]
  OBVIOUS
<1>6. rows' = [rows EXCEPT ![q] = row]
  BY <1>1, <1>2, <1>5
<1>7. \A n \in Identities : \A c \in DOMAIN row[n] : row[n][c] \in Trials
  <2> SUFFICES ASSUME NEW n \in Identities
               PROVE  \A c \in DOMAIN row[n] : row[n][c] \in Trials
    OBVIOUS
  <2>1. \A c \in DOMAIN rows[q][n] : rows[q][n][c] \in Trials
    BY <1>3 DEF RowsInv
  <2>2. CASE n \in targets
    <3>1. PICK new : new = [c \in caps |-> cells[<<n, c>>]]
      OBVIOUS
    <3>2. \A c \in DOMAIN new : new[c] \in Trials
      BY <1>4, <2>2, <3>1
    <3>3. row[n] = Merge(rows[q][n], new)
      BY <1>5, <2>2, <3>1
    <3>4. QED
      BY <2>1, <3>2, <3>3, MergeTyped
  <2>3. CASE n \notin targets
    BY <1>5, <2>1, <2>3
  <2>4. QED
    BY <2>2, <2>3
<1>8. DOMAIN row = Identities
  BY <1>5
<1>9. DOMAIN rows' = PlanPhases /\ rows'[q] = row /\ \A p \in PlanPhases : p # q => rows'[p] = rows[p]
  BY <1>3, <1>6 DEF RowsInv
<1>10. ASSUME NEW p \in PlanPhases
       PROVE  /\ DOMAIN rows'[p] = Identities
              /\ \A n \in Identities : \A c \in DOMAIN rows'[p][n] : rows'[p][n][c] \in Trials
  <2>1. CASE p = q
    BY <1>7, <1>8, <1>9, <2>1
  <2>2. CASE p # q
    BY <1>9, <2>2 DEF RowsInv
  <2>3. QED
    BY <2>1, <2>2
<1>11. QED
  BY <1>9, <1>10 DEF RowsInv

\* Every step keeps the rows trials of cells.
LEMMA RowsStep == RowsInv /\ [Next]_vars => RowsInv'
<1> SUFFICES ASSUME RowsInv, [Next]_vars
             PROVE  RowsInv'
  OBVIOUS
<1>1. CASE MeasureMatrix
  BY <1>1, MeasureRows
<1>2. CASE UNCHANGED rows
  BY <1>2 DEF RowsInv
<1>3. QED
  BY <1>1, <1>2
     DEF Next, vars, runVars, DiscardMatrix, AbortRun, MeasureOtherAxes, Analyze, ScoreBundle,
         Compare, Rest

\* What the other analyses hand over has the shape they promise.
LEMMA PlainSays ==
    ASSUME NEW type, NEW node, NEW said, NEW confidence
    PROVE  /\ PlainFinding(type, node, said, confidence).type = type
           /\ PlainFinding(type, node, said, confidence).kind = "other"
           /\ PlainFinding(type, node, said, confidence).confidence = confidence
BY DEF PlainFinding

OtherFinding(f) ==
    f.type \in OtherTypes /\ f.kind = "other" /\ f.confidence \in {"HIGH", "MEDIUM", "LOW"}

\* However few the polls, some confidence is left.
LEMMA PollConfidenceSays ==
    ASSUME NEW polls \in Nat \ {0}
    PROVE  PollConfidence(polls) \in {"HIGH", "MEDIUM", "LOW"}
<1>1. CASE polls >= 5
  BY <1>1 DEF PollConfidence
<1>2. CASE polls \in 3..4
  BY <1>2 DEF PollConfidence
<1>3. CASE polls \in 1..2
  BY <1>3 DEF PollConfidence
<1>4. QED
  BY <1>1, <1>2, <1>3

\* What the revocation analysis finds is plain.
LEMMA RevocationSays ==
    ASSUME NEW transitions, NEW late, NEW polls \in Nat \ {0},
           NEW f \in RevocationFindings(transitions, late, polls)
    PROVE  OtherFinding(f)
<1>1. PICK trust : trust = PollConfidence(polls)
  OBVIOUS
<1>2. \/ \E cell \in DOMAIN transitions :
            f = PlainFinding("NO_TRANSITION_OBSERVED", cell[1], cell[2], trust)
      \/ \E cell \in DOMAIN transitions :
            f = PlainFinding("REVOCATION_DELAY", cell[1], cell[2], "HIGH")
  BY <1>1 DEF RevocationFindings
<1>3. QED
  BY <1>1, <1>2, PlainSays, PollConfidenceSays DEF OtherTypes, OtherFinding

\* A window without a transition is reported.
LEMMA UnseenIsFound ==
    ASSUME NEW transitions, NEW late, NEW polls,
           NEW cell \in DOMAIN transitions, transitions[cell] = {}
    PROVE  \E f \in RevocationFindings(transitions, late, polls) : f.type = "NO_TRANSITION_OBSERVED"
<1>1. PICK f : f = PlainFinding("NO_TRANSITION_OBSERVED", cell[1], cell[2], PollConfidence(polls))
  OBVIOUS
<1>2. f \in RevocationFindings(transitions, late, polls)
  BY <1>1 DEF RevocationFindings
<1>3. QED
  BY <1>1, <1>2, PlainSays

\* So is what the staleness analysis finds.
LEMMA DeferralSays ==
    ASSUME NEW paired, NEW kind, NEW f \in DeferralFindings(paired, kind)
    PROVE  OtherFinding(f)
<1>1. CASE kind = "STALE_AUTHORITY"
  <2>1. \E x \in paired : f = PlainFinding(kind, "any", x, "MEDIUM")
    BY <1>1 DEF DeferralFindings
  <2>2. QED
    BY <1>1, <2>1, PlainSays DEF OtherTypes, OtherFinding
<1>2. CASE kind = "EXPIRED_CREDENTIAL_ACCEPTED"
  <2>1. \E x \in paired : f = PlainFinding(kind, "any", x, "HIGH")
    BY <1>2 DEF DeferralFindings
  <2>2. QED
    BY <1>2, <2>1, PlainSays DEF OtherTypes, OtherFinding
<1>3. CASE kind \notin {"STALE_AUTHORITY", "EXPIRED_CREDENTIAL_ACCEPTED"}
  BY <1>3 DEF DeferralFindings
<1>4. QED
  BY <1>1, <1>2, <1>3

\* And what the failure analysis finds.
LEMMA FlawSays ==
    ASSUME NEW said, NEW f, f = PlainFinding("SILENT_NARROWING", "any", said, "HIGH")
    PROVE  OtherFinding(f)
BY PlainSays DEF OtherTypes, OtherFinding

\* What the other analyses hand over has the shape AxesInv promises.
LEMMA OtherAxes ==
    ASSUME CompiledInv, AxesInv, MeasureOtherAxes
    PROVE  AxesInv'
<1>1. PICK phases \in SUBSET {d[1] : d \in scenario.deferrals}, polls \in PollCounts,
          transitions \in [MeasuredWindows -> Windows], late \in {{}, MeasuredWindows},
          honored \in {"none", "STALE_AUTHORITY", "EXPIRED_CREDENTIAL_ACCEPTED"},
          flaw \in {"none", "SILENT_NARROWING"} :
       LET paired == {d \in scenario.deferrals : d[1] \in phases}
       IN  axes' = [pollPlans |-> scenario.polls, windows |-> Cardinality(MeasuredWindows),
                    transitions |-> transitions,
                    deferrals |-> Cardinality(scenario.deferrals),
                    paired |-> Cardinality(paired),
                    tasks |-> scenario.tasks,
                    credentials |-> Cardinality(Agents),
                    usedAfterExpiry |-> honored = "EXPIRED_CREDENTIAL_ACCEPTED" /\ paired # {},
                    findings |->
                       RevocationFindings(transitions, late, polls)
                       \cup DeferralFindings(paired, honored)
                       \cup (IF flaw = "none" \/ scenario.tasks = 0 THEN {}
                             ELSE {PlainFinding(flaw, "any", "", "HIGH")})]
  BY DEF MeasureOtherAxes
<1>2. PICK paired : paired = {d \in scenario.deferrals : d[1] \in phases}
  OBVIOUS
<1>3. PICK revocation, deferral, flaws :
        /\ revocation = RevocationFindings(transitions, late, polls)
        /\ deferral = DeferralFindings(paired, honored)
        /\ flaws = IF flaw = "none" \/ scenario.tasks = 0 THEN {}
                   ELSE {PlainFinding(flaw, "any", "", "HIGH")}
  OBVIOUS
<1>4. PICK expired : expired = (honored = "EXPIRED_CREDENTIAL_ACCEPTED" /\ paired # {})
  OBVIOUS
<1>5. axes' = [pollPlans |-> scenario.polls, windows |-> Cardinality(MeasuredWindows),
               transitions |-> transitions,
               deferrals |-> Cardinality(scenario.deferrals),
               paired |-> Cardinality(paired),
               tasks |-> scenario.tasks,
               credentials |-> Cardinality(Agents),
               usedAfterExpiry |-> expired,
               findings |-> revocation \cup deferral \cup flaws]
  BY <1>1, <1>2, <1>3, <1>4
<1>6. /\ outcome = "compiled" /\ outcome' = outcome /\ status' = "COMPLETED"
  BY DEF MeasureOtherAxes, Runs, compilerVars
<1>7. /\ scenario.polls \in Nat /\ scenario.tasks \in Nat
      /\ IsFiniteSet(scenario.deferrals) /\ IsFiniteSet(scenario.polled)
  BY <1>6 DEF CompiledInv
<1>8. IsFiniteSet(MeasuredWindows)
  BY <1>7, FS_EmptySet DEF MeasuredWindows
<1>9. IsFiniteSet(paired)
  BY <1>2, <1>7, FS_Subset
<1>10. /\ Cardinality(MeasuredWindows) \in Nat /\ Cardinality(scenario.deferrals) \in Nat
       /\ Cardinality(paired) \in Nat /\ Cardinality(Agents) \in Nat
  BY <1>7, <1>8, <1>9, FS_CardinalityType, DocumentsAreFinite
<1>11. polls \in Nat \ {0}
  BY RunConstants
<1>12. \A f \in flaws : OtherFinding(f)
  <2>1. \A f \in flaws : f = PlainFinding("SILENT_NARROWING", "any", "", "HIGH")
    BY <1>3
  <2>2. QED
    BY <2>1, FlawSays, Zenon
<1>13. \A f \in revocation \cup deferral \cup flaws :
          OtherFinding(f)
  BY <1>3, <1>11, <1>12, RevocationSays, DeferralSays
<1>14. \A cell \in DOMAIN transitions : transitions[cell] = {} =>
          \E f \in revocation : f.type = "NO_TRANSITION_OBSERVED"
  BY <1>3, UnseenIsFound
<1>15. /\ axes'.pollPlans \in Nat /\ axes'.windows \in Nat /\ axes'.deferrals \in Nat
       /\ axes'.paired \in Nat /\ axes'.tasks \in Nat /\ axes'.credentials \in Nat
       /\ "findings" \in DOMAIN axes' /\ axes'.findings = revocation \cup deferral \cup flaws
       /\ axes'.transitions = transitions
  BY <1>5, <1>7, <1>10
<1>16. QED
  BY <1>6, <1>13, <1>14, <1>15 DEF AxesInv, OtherFinding

\* A compiled scenario is never compiled again.
LEMMA CompiledStays == outcome = "compiled" /\ [Next]_vars => UNCHANGED compilerVars
BY DEF Next, vars, compilerVars, Compile, RejectSchema, RejectSecondParent, StartWalk, Visit,
       RejectDeclaration, ExhaustStack, RejectGraph, RejectBinding, RejectPolicy, Emit, Walked,
       MeasureMatrix, DiscardMatrix, AbortRun, MeasureOtherAxes, Analyze, ScoreBundle, Compare, Rest

\* Every step keeps what the other analyses handed over.
LEMMA AxesStep == CompiledInv /\ AxesInv /\ [Next]_vars => AxesInv'
<1> SUFFICES ASSUME CompiledInv, AxesInv, [Next]_vars
             PROVE  AxesInv'
  OBVIOUS
<1>1. CASE MeasureOtherAxes
  BY <1>1, OtherAxes
<1>2. CASE AbortRun
  BY <1>2 DEF AxesInv, AbortRun
<1>3. CASE UNCHANGED <<axes, status>>
  <2>1. status = "COMPLETED" => outcome' = outcome
    BY CompiledStays DEF AxesInv, compilerVars
  <2>2. QED
    BY <1>3, <2>1 DEF AxesInv
<1>4. QED
  BY <1>1, <1>2, <1>3
     DEF Next, vars, runVars, MeasureMatrix, DiscardMatrix, Analyze, ScoreBundle, Compare, Rest

\* Once a run is completed its evidence stays what it is.
LEMMA CompletedStays ==
    ASSUME AxesInv, status = "COMPLETED", [Next]_vars
    PROVE  UNCHANGED <<compilerVars, runVars>>
<1>1. outcome = "compiled"
  BY DEF AxesInv
<1>2. UNCHANGED compilerVars
  BY <1>1, CompiledStays
<1>3. UNCHANGED runVars
  BY DEF Next, vars, runVars, Runs, MeasureMatrix, DiscardMatrix, AbortRun, MeasureOtherAxes,
         Analyze, ScoreBundle, Compare, Rest
<1>4. QED
  BY <1>2, <1>3

\* Every step keeps the result and the scores what the evidence gives.
LEMMA VerdictStep == AxesInv /\ VerdictInv /\ [Next]_vars => VerdictInv'
<1> SUFFICES ASSUME AxesInv, VerdictInv, [Next]_vars
             PROVE  VerdictInv'
  OBVIOUS
<1>1. status = "COMPLETED" => status' = status /\ AnalyzeBundle(ThisRun)' = AnalyzeBundle(ThisRun)
  BY CompletedStays, SameAnalysis DEF compilerVars, runVars
<1>2. CASE Analyze
  BY <1>1, <1>2 DEF Analyze, VerdictInv
<1>3. CASE ScoreBundle
  BY <1>1, <1>3 DEF ScoreBundle, VerdictInv
<1>4. CASE UNCHANGED <<result, scores>>
  BY <1>1, <1>4 DEF VerdictInv
<1>5. QED
  BY <1>2, <1>3, <1>4
     DEF Next, vars, verdictVars, MeasureMatrix, DiscardMatrix, AbortRun, MeasureOtherAxes,
         Compare, Rest

IInv == WalkInv /\ CompiledInv /\ RowsInv /\ AxesInv /\ VerdictInv

\* The invariant holds before anything is read.
LEMMA InitInv == Init => IInv
<1> SUFFICES ASSUME Init
             PROVE  IInv
  OBVIOUS
<1>1. RowsInv
  BY DEF Init, RowsInv, NoRows
<1>2. AxesInv /\ VerdictInv
  BY DEF Init, AxesInv, VerdictInv
<1>3. QED
  BY <1>1, <1>2, InitCompiler DEF IInv

\* The inductive invariant holds of every behaviour.
THEOREM Invariance == Spec => []IInv
<1>1. IInv /\ [Next]_vars => IInv'
  BY WalkStep, CompiledStep, RowsStep, AxesStep, VerdictStep DEF IInv
<1>2. QED
  BY <1>1, InitInv, PTL DEF Spec

\* What compiles is a tree: the walk of compiler.py 126-190 leaves every agent with
\* its only delegation and what that leaves of its parent's authority.
THEOREM TreeCompiled == Spec => []CompiledIsATree
<1>1. IInv => CompiledIsATree
  BY TreeProperty DEF IInv
<1>2. QED
  BY <1>1, Invariance, PTL

---------------------------------------------------------------------------
\* What a finding says of its cells.

\* An observation of a finding is a probed cell of its identity.
LEMMA Observed ==
    ASSUME NEW f, NEW g, NEW place, NEW n, NEW type, NEW caps,
           Says(f, g, place, n, type, caps), NEW ref \in f.refs
    PROVE  /\ ref[1] = place /\ ref[2] = n /\ ref[3] \in caps /\ ref[3] \in DOMAIN g.rows[n]
           /\ f.confidence = "HIGH" =>
                 Unanimous(g.rows[n][ref[3]]) /\ Outcomes(g.rows[n][ref[3]]) \cap Errors = {}
<1>1. PICK c \in Probed(g, n, caps) : ref = <<place, n, c>>
  BY DEF Says
<1>2. ref[1] = place /\ ref[2] = n /\ ref[3] = c
  BY <1>1
<1>3. c \in caps /\ c \in DOMAIN g.rows[n]
  BY DEF Probed
<1>4. QED
  BY <1>2, <1>3 DEF Says

SupportedCell(f, g, n, c) ==
    /\ c \in f.gain => Outcomes(g.rows[n][c]) = {"ALLOWED"}
    /\ c \in f.loss /\ f.confidence = "HIGH" => Outcomes(g.rows[n][c]) \subseteq Denials
    /\ f.type = "EXPECTED_BEHAVIOR" /\ f.confidence = "HIGH" =>
          (Outcomes(g.rows[n][c]) = {"ALLOWED"} <=> c \in g.expected[n])

\* A finding of a phase is supported by the cells of that phase (rules.py, ADR-012).
LEMMA PhaseSupported ==
    ASSUME NEW g, NEW place, NEW f \in AuthorityFindings(g, place),
           \A n \in Identities : \A c \in DOMAIN g.rows[n] : g.rows[n][c] \in Trials
    PROVE  \A ref \in f.refs :
              /\ ref[1] = place /\ ref[2] \in Identities /\ ref[2] = f.node
              /\ SupportedCell(f, g, ref[2], ref[3])
<1>1. PICK n \in Identities :
        /\ Measured(g, n)
        /\ \/ f = AuthorityExpansion(g, place, n) /\ Expands(g, n)
           \/ f = DelegationDrift(g, place, n) /\ Drifts(g, n)
           \/ f = AuthorityNarrowing(g, place, n)
           \/ f = ExpectedBehavior(g, place, n) /\ ~Diverged(g, n)
           \/ f = AuthoritySurvival(g, place, n)
  BY PhaseFindings
<1>2. \A c \in DOMAIN g.rows[n] :
         /\ g.rows[n][c] \in Trials
         /\ c \in Held(g, n) <=> Outcomes(g.rows[n][c]) = {"ALLOWED"}
  BY ResolvedSays DEF Held
<1>3. Gain(g, n) \subseteq Held(g, n) /\ SurvivedIncorrectly(g, n) \subseteq Held(g, n)
  BY DEF Gain, SurvivedIncorrectly
<1>4. Gain(g, n) = Held(g, n) \ g.expected[n] /\ Loss(g, n) = g.expected[n] \ Held(g, n)
  BY <1>1 DEF Gain, Loss
<1>5. ASSUME f = AuthorityExpansion(g, place, n), NEW ref \in f.refs
      PROVE  ref[1] = place /\ ref[2] = n /\ f.node = n /\ SupportedCell(f, g, n, ref[3])
  <2>1. /\ Says(f, g, place, n, "AUTHORITY_EXPANSION", Gain(g, n))
        /\ f.gain = Gain(g, n) /\ f.loss = {}
    BY <1>5, ExpansionSays
  <2>2. ref[1] = place /\ ref[2] = n /\ ref[3] \in DOMAIN g.rows[n]
    BY <2>1, Observed
  <2>3. f.node = n /\ (f.confidence = "HIGH" => f.type = "AUTHORITY_EXPANSION")
    BY <2>1 DEF Says
  <2>4. QED
    BY <1>2, <1>3, <2>1, <2>2, <2>3 DEF SupportedCell
<1>6. ASSUME f = DelegationDrift(g, place, n), NEW ref \in f.refs
      PROVE  ref[1] = place /\ ref[2] = n /\ f.node = n /\ SupportedCell(f, g, n, ref[3])
  <2>1. /\ Says(f, g, place, n, "DELEGATION_DRIFT", Gain(g, n))
        /\ f.gain = Gain(g, n) /\ f.loss = {}
    BY <1>6, DriftSays
  <2>2. ref[1] = place /\ ref[2] = n /\ ref[3] \in DOMAIN g.rows[n]
    BY <2>1, Observed
  <2>3. f.node = n /\ (f.confidence = "HIGH" => f.type = "DELEGATION_DRIFT")
    BY <2>1 DEF Says
  <2>4. QED
    BY <1>2, <1>3, <2>1, <2>2, <2>3 DEF SupportedCell
<1>7. ASSUME f = AuthorityNarrowing(g, place, n), NEW ref \in f.refs
      PROVE  ref[1] = place /\ ref[2] = n /\ f.node = n /\ SupportedCell(f, g, n, ref[3])
  <2>1. /\ Says(f, g, place, n, "AUTHORITY_NARROWING", Loss(g, n))
        /\ f.gain = {} /\ f.loss = Loss(g, n)
    BY <1>7, NarrowingSays
  <2>2. PICK c : c = ref[3]
    OBVIOUS
  <2>3. /\ ref[1] = place /\ ref[2] = n /\ c \in DOMAIN g.rows[n]
        /\ f.confidence = "HIGH" =>
              Unanimous(g.rows[n][c]) /\ Outcomes(g.rows[n][c]) \cap Errors = {}
    BY <2>1, <2>2, Observed
  <2>4. f.node = n /\ (f.confidence = "HIGH" => f.type = "AUTHORITY_NARROWING")
    BY <2>1 DEF Says
  <2>5. c \in f.loss /\ f.confidence = "HIGH" => Outcomes(g.rows[n][c]) \subseteq Denials
    BY <1>2, <1>4, <2>1, <2>3, UnanimousSays
  <2>6. QED
    BY <2>1, <2>2, <2>3, <2>4, <2>5 DEF SupportedCell
<1>8. ASSUME f = ExpectedBehavior(g, place, n), ~Diverged(g, n), NEW ref \in f.refs
      PROVE  ref[1] = place /\ ref[2] = n /\ f.node = n /\ SupportedCell(f, g, n, ref[3])
  <2>1. /\ Says(f, g, place, n, "EXPECTED_BEHAVIOR", DOMAIN g.rows[n])
        /\ f.gain = {} /\ f.loss = {}
    BY <1>8, ExpectedSays
  <2>2. ref[1] = place /\ ref[2] = n /\ ref[3] \in DOMAIN g.rows[n]
    BY <2>1, Observed
  <2>3. f.node = n
    BY <2>1 DEF Says
  <2>4. ref[3] \in Held(g, n) <=> ref[3] \in g.expected[n]
    BY <1>4, <1>8 DEF Diverged
  <2>5. QED
    BY <1>2, <2>1, <2>2, <2>3, <2>4 DEF SupportedCell
<1>9. ASSUME f = AuthoritySurvival(g, place, n), NEW ref \in f.refs
      PROVE  ref[1] = place /\ ref[2] = n /\ f.node = n /\ SupportedCell(f, g, n, ref[3])
  <2>1. /\ Says(f, g, place, n, "AUTHORITY_SURVIVAL", SurvivedIncorrectly(g, n))
        /\ f.gain = SurvivedIncorrectly(g, n) /\ f.loss = {}
    BY <1>9, SurvivalSays
  <2>2. ref[1] = place /\ ref[2] = n /\ ref[3] \in DOMAIN g.rows[n]
    BY <2>1, Observed
  <2>3. f.node = n /\ (f.confidence = "HIGH" => f.type = "AUTHORITY_SURVIVAL")
    BY <2>1 DEF Says
  <2>4. QED
    BY <1>2, <1>3, <2>1, <2>2, <2>3 DEF SupportedCell
<1>10. QED
  BY <1>1, <1>5, <1>6, <1>7, <1>8, <1>9

\* A finding of the run is one of a measured phase, or another analysis', or says that a
\* matrix was discarded.
LEMMA FoundIn ==
    ASSUME AxesInv, VerdictInv, result # Pending, NEW f \in result.findings
    PROVE  \/ \E p \in Range(PhaseOrder) :
                 /\ f \in AuthorityFindings(Graph(rows[p]), <<"r1", p>>)
                 /\ AuthorityFindings(Graph(rows[p]), <<"r1", p>>) \subseteq result.findings
           \/ f.type \in OtherTypes /\ f.confidence \in {"HIGH", "MEDIUM", "LOW"}
           \/ f.type = "CONFIGURATION_ERROR" /\ f.confidence = "HIGH"
<1>1. result = AnalyzeBundle(ThisRun) /\ status = "COMPLETED"
  BY DEF VerdictInv
<1>2. PICK present : present = {PhaseOrder[j] : j \in PhasesPresent(ThisRun)}
  OBVIOUS
<1>3. result.findings =
        (UNION {AuthorityFindings(Graph(rows[p]), <<"r1", p>>) : p \in present})
        \cup axes.findings \cup ConfigurationErrors
  BY <1>1, <1>2, Zenon DEF AnalyzeBundle, ThisRun
<1>4. present \subseteq Range(PhaseOrder)
  BY <1>2 DEF PhasesPresent, MeasuredIn, Range
<1>5. CASE f \in UNION {AuthorityFindings(Graph(rows[p]), <<"r1", p>>) : p \in present}
  BY <1>3, <1>4, <1>5
<1>6. CASE f \in axes.findings
  BY <1>1, <1>6 DEF AxesInv
<1>7. CASE f \in ConfigurationErrors
  <2>1. PICK n, c : f = PlainFinding("CONFIGURATION_ERROR", n, c, "HIGH")
    BY <1>7 DEF ConfigurationErrors
  <2>2. QED
    BY <2>1, PlainSays
<1>8. QED
  BY <1>3, <1>5, <1>6, <1>7

\* A finding of the authority axis says of a system only what every trial of the cells it
\* cites said (rules.py, ADR-012), whatever matrices of the phase ran them.
THEOREM FindingsSupported == Spec => []FindingsAreSupported
<1>1. ASSUME IInv, Analyzed, NEW f \in AuthorityOf(result), NEW ref \in f.refs
      PROVE  /\ ref[3] \in f.gain => Outcomes(Cell(ref)) = {"ALLOWED"}
             /\ ref[3] \in f.loss /\ f.confidence = "HIGH" => Outcomes(Cell(ref)) \subseteq Denials
             /\ f.type = "EXPECTED_BEHAVIOR" /\ f.confidence = "HIGH" =>
                   (Outcomes(Cell(ref)) = {"ALLOWED"}) = (ref[3] \in scenario.expected[f.node])
  <2>1. f \in result.findings /\ f.type \in Authority /\ result # Pending
    BY <1>1 DEF AuthorityOf, Analyzed
  <2>2. f.type \notin OtherTypes /\ f.type # "CONFIGURATION_ERROR"
    BY <2>1 DEF Authority, OtherTypes
  <2>3. PICK p \in Range(PhaseOrder) : f \in AuthorityFindings(Graph(rows[p]), <<"r1", p>>)
    BY <1>1, <2>1, <2>2, FoundIn DEF IInv
  <2>4. PICK g, place : g = Graph(rows[p]) /\ place = <<"r1", p>>
    OBVIOUS
  <2>5. g.rows = rows[p] /\ g.expected = scenario.expected /\ place[2] = p
    BY <2>4 DEF Graph
  <2>6. p \in PlanPhases
    BY DEF PhaseOrder, PlanPhases, PlanPhaseOf, Range
  <2>7. \A n \in Identities : \A c \in DOMAIN g.rows[n] : g.rows[n][c] \in Trials
    BY <1>1, <2>5, <2>6 DEF IInv, RowsInv
  <2>8. ref[1] = place /\ ref[2] = f.node /\ SupportedCell(f, g, ref[2], ref[3])
    BY <1>1, <2>3, <2>4, <2>7, PhaseSupported
  <2>9. Cell(ref) = g.rows[ref[2]][ref[3]]
    BY <2>5, <2>8 DEF Cell
  <2>10. QED
    BY <2>5, <2>8, <2>9 DEF SupportedCell
<1>2. IInv => FindingsAreSupported
  BY <1>1 DEF FindingsAreSupported
<1>3. QED
  BY <1>2, Invariance, PTL

---------------------------------------------------------------------------
\* Scores.

\* The four confidences and their order.
LEMMA Ranks ==
    /\ Rank("INSUFFICIENT") = 0 /\ Rank("LOW") = 1 /\ Rank("MEDIUM") = 2 /\ Rank("HIGH") = 3
    /\ \A c \in Confidences : Rank(c) \in Nat /\ (Rank(c) >= 3 <=> c = "HIGH")
<1>1. Rank("INSUFFICIENT") = 0
  BY DEF Rank
<1>2. Rank("LOW") = 1
  BY DEF Rank
<1>3. Rank("MEDIUM") = 2
  BY DEF Rank
<1>4. Rank("HIGH") = 3
  BY DEF Rank
<1>5. QED
  BY <1>1, <1>2, <1>3, <1>4 DEF Confidences

\* The least confident of some confidences is one of them, and HIGH only if all are.
LEMMA LeastSays ==
    ASSUME NEW S \in SUBSET Confidences, S # {}
    PROVE  /\ LeastConfident(S) \in Confidences
           /\ LeastConfident(S) = "HIGH" => \A d \in S : d = "HIGH"
<1>1. \E c \in S : \A d \in S : Rank(c) <= Rank(d)
  <2>1. CASE "INSUFFICIENT" \in S
    BY <2>1, Ranks
  <2>2. CASE "INSUFFICIENT" \notin S /\ "LOW" \in S
    BY <2>2, Ranks DEF Confidences
  <2>3. CASE "INSUFFICIENT" \notin S /\ "LOW" \notin S /\ "MEDIUM" \in S
    BY <2>3, Ranks DEF Confidences
  <2>4. CASE S = {"HIGH"}
    BY <2>4, Ranks
  <2>5. QED
    BY <2>1, <2>2, <2>3, <2>4 DEF Confidences
<1>2. PICK c : c = LeastConfident(S)
  OBVIOUS
<1>3. c \in S /\ \A d \in S : Rank(c) <= Rank(d)
  BY <1>1, <1>2, Zenon DEF LeastConfident
<1>4. ASSUME c = "HIGH", NEW d \in S
      PROVE  d = "HIGH"
  <2>1. Rank(d) \in Nat /\ Rank(d) >= 3
    BY <1>3, <1>4, Ranks
  <2>2. QED
    BY <2>1, Ranks
<1>5. QED
  BY <1>2, <1>3, <1>4

\* HIGH coverage is the coverage of every applicable cell.
LEMMA CoverageSays ==
    ASSUME NEW measured \in Nat, NEW applicable \in Nat
    PROVE  /\ CoverageConfidence(measured, applicable) \in Confidences
           /\ CoverageConfidence(measured, applicable) = "HIGH" => measured >= applicable
<1>1. CASE measured >= applicable
  BY <1>1 DEF CoverageConfidence, Confidences
<1>2. CASE measured < applicable
  BY <1>2 DEF CoverageConfidence, Confidences
<1>3. QED
  BY <1>1, <1>2

\* What _finalize makes of an evaluation.
LEMMA FinalizeSays ==
    ASSUME NEW b, NEW category, NEW e, e = Evaluate(b, category),
           e.applicable \in Nat, e.measured \in Nat,
           \A f \in e.contributing : f.confidence \in Confidences,
           NEW r, r = Finalize(b, category)
    PROVE  /\ r.status \in Statuses /\ r.confidence \in Confidences
           /\ r.findings \subseteq e.contributing
           /\ r.status \in {"CONSISTENT", "DIVERGENT"} =>
                 /\ ~DetectorFailed(b, category) /\ Exercised(e)
                 /\ 10 * e.measured >= 7 * e.applicable
           /\ r.status = "CONSISTENT" => ~e.divergent /\ ~e.partial
           /\ r.confidence = "HIGH" =>
                 /\ Exercised(e) /\ e.measured >= e.applicable
                 /\ \A f \in r.findings : f.confidence = "HIGH"
<1>1. PICK contributing, verdict, confidence :
        /\ contributing = IF Exercised(e) THEN e.contributing ELSE {}
        /\ verdict = CASE ~Exercised(e) -> "NOT_MEASURED"
                       [] Exercised(e) /\ Thin(e) -> "PARTIAL"
                       [] Exercised(e) /\ ~Thin(e) /\ e.divergent -> "DIVERGENT"
                       [] Exercised(e) /\ ~Thin(e) /\ ~e.divergent /\ e.partial -> "PARTIAL"
                       [] OTHER -> "CONSISTENT"
        /\ confidence = IF Exercised(e)
                        THEN LeastConfident({CoverageConfidence(e.measured, e.applicable)}
                                            \cup {f.confidence : f \in contributing})
                        ELSE "INSUFFICIENT"
  OBVIOUS
<1>2. r = [status |-> IF DetectorFailed(b, category) THEN "DETECTOR_FAILED" ELSE verdict,
           confidence |-> confidence, findings |-> contributing]
  BY <1>1, Zenon DEF Finalize
<1>3. /\ verdict \in {"NOT_MEASURED", "PARTIAL", "DIVERGENT", "CONSISTENT"}
      /\ verdict \in {"CONSISTENT", "DIVERGENT"} => Exercised(e) /\ ~Thin(e)
      /\ verdict = "CONSISTENT" => ~e.divergent /\ ~e.partial
  <2>1. CASE ~Exercised(e)
    BY <1>1, <2>1
  <2>2. CASE Exercised(e) /\ Thin(e)
    BY <1>1, <2>2
  <2>3. CASE Exercised(e) /\ ~Thin(e) /\ e.divergent
    BY <1>1, <2>3
  <2>4. CASE Exercised(e) /\ ~Thin(e) /\ ~e.divergent /\ e.partial
    BY <1>1, <2>4
  <2>5. CASE Exercised(e) /\ ~Thin(e) /\ ~e.divergent /\ ~e.partial
    BY <1>1, <2>5
  <2>6. QED
    BY <2>1, <2>2, <2>3, <2>4, <2>5
<1>4. ~Thin(e) => 10 * e.measured >= 7 * e.applicable
  BY DEF Thin
<1>5. contributing \subseteq e.contributing
  BY <1>1
<1>6. /\ confidence \in Confidences
      /\ confidence = "HIGH" =>
            /\ Exercised(e) /\ e.measured >= e.applicable
            /\ \A f \in contributing : f.confidence = "HIGH"
  <2>1. CASE Exercised(e)
    <3>1. PICK coverage, S : /\ coverage = CoverageConfidence(e.measured, e.applicable)
                             /\ S = {coverage} \cup {f.confidence : f \in contributing}
      OBVIOUS
    <3>2. confidence = LeastConfident(S)
      BY <1>1, <2>1, <3>1
    <3>3. coverage \in Confidences /\ (coverage = "HIGH" => e.measured >= e.applicable)
      BY <3>1, CoverageSays
    <3>4. S \in SUBSET Confidences /\ coverage \in S /\ \A f \in contributing : f.confidence \in S
      BY <1>5, <3>1, <3>3
    <3>5. confidence \in Confidences /\ (confidence = "HIGH" => \A d \in S : d = "HIGH")
      BY <3>2, <3>4, LeastSays
    <3>6. QED
      BY <2>1, <3>3, <3>4, <3>5
  <2>2. CASE ~Exercised(e)
    BY <1>1, <2>2 DEF Confidences
  <2>3. QED
    BY <2>1, <2>2
<1>7. /\ r.confidence = confidence /\ r.findings = contributing
      /\ DetectorFailed(b, category) => r.status = "DETECTOR_FAILED"
      /\ ~DetectorFailed(b, category) => r.status = verdict
  BY <1>2
<1>8. r.status \in Statuses
  BY <1>3, <1>7 DEF Statuses
<1>9. r.status \in {"CONSISTENT", "DIVERGENT"} => ~DetectorFailed(b, category) /\ r.status = verdict
  BY <1>7
<1>10. QED
  BY <1>3, <1>4, <1>5, <1>6, <1>7, <1>8, <1>9

\* The evaluators count in natural numbers and contribute findings of the run.
LEMMA EvaluationSays ==
    ASSUME NEW applicable, NEW measured, NEW divergent, NEW contributing, NEW e,
           e = Evaluation(applicable, measured, divergent, contributing)
    PROVE  /\ e = [x \in {"applicable", "measured", "divergent", "partial", "contributing"} |-> e[x]]
           /\ e.applicable = applicable /\ e.measured = measured
           /\ e.divergent = divergent /\ e.contributing = contributing
BY DEF Evaluation

\* Edges are counted by numbers, and there are some only if every agent has one.
LEMMA EdgeCounts ==
    ASSUME NEW b
    PROVE  /\ Cardinality(Edges(b)) \in Nat /\ Cardinality(MeasuredEdges(b)) \in Nat
           /\ Cardinality(Edges(b)) > 0 => Edges(b) = Agents
<1>1. IsFiniteSet(Edges(b))
  BY DocumentsAreFinite, FS_EmptySet DEF Edges
<1>2. IsFiniteSet(MeasuredEdges(b))
  BY <1>1, FS_Subset DEF MeasuredEdges
<1>3. Edges(b) = Agents \/ Edges(b) = {}
  BY DEF Edges
<1>4. QED
  BY <1>1, <1>2, <1>3, FS_CardinalityType, FS_EmptySet

\* Every category counts cells, and contributes findings of the bundle.
LEMMA EvaluateSays ==
    ASSUME NEW b, NEW category \in Categories, NEW e, e = Evaluate(b, category),
           b.axes.pollPlans \in Nat, b.axes.windows \in Nat, b.axes.deferrals \in Nat,
           b.axes.paired \in Nat, b.axes.tasks \in Nat, b.axes.credentials \in Nat
    PROVE  /\ e.applicable \in Nat /\ e.measured \in Nat
           /\ e.contributing \subseteq b.findings
<1>1. \A types : OfTypes(b, types) \subseteq b.findings
  BY DEF OfTypes
<1>2. CASE category = "DELEGATION_INTEGRITY"
  <2>1. PICK divergent, contributing :
          /\ e = Evaluation(Cardinality(Edges(b)), Cardinality(MeasuredEdges(b)), divergent,
                            contributing)
          /\ contributing = OfTypes(b, {"AUTHORITY_SURVIVAL"})
    BY <1>2 DEF Evaluate, DelegationIntegrity
  <2>2. QED
    BY <1>1, <2>1, EvaluationSays, EdgeCounts
<1>3. CASE category = "SCOPE_ATTENUATION"
  <2>1. PICK divergent, contributing :
          /\ e = Evaluation(Cardinality(Edges(b)), Cardinality(MeasuredEdges(b)), divergent,
                            contributing)
          /\ contributing = OfTypes(b, TypesOf["SCOPE_ATTENUATION"])
    BY <1>3 DEF Evaluate, ScopeAttenuation
  <2>2. QED
    BY <1>1, <2>1, EvaluationSays, EdgeCounts
<1>4. CASE category = "REVOCATION_RESPONSIVENESS"
  <2>1. PICK delays, unseen, base :
          /\ delays = OfTypes(b, {"REVOCATION_DELAY"})
          /\ unseen = OfTypes(b, {"NO_TRANSITION_OBSERVED"})
          /\ base = Evaluation(b.axes.pollPlans, b.axes.windows, delays # {}, delays \cup unseen)
    OBVIOUS
  <2>2. e = [base EXCEPT !.partial = unseen # {} /\ delays = {}]
    BY <1>4, <2>1 DEF Evaluate, RevocationResponsiveness
  <2>3. /\ base = [x \in {"applicable", "measured", "divergent", "partial", "contributing"} |-> base[x]]
        /\ base.applicable = b.axes.pollPlans /\ base.measured = b.axes.windows
        /\ base.contributing = delays \cup unseen
    BY <2>1, EvaluationSays
  <2>4. e.applicable = base.applicable /\ e.measured = base.measured /\ e.contributing = base.contributing
    BY <2>2, <2>3
  <2>5. QED
    BY <1>1, <2>1, <2>3, <2>4
<1>5. CASE category = "AUTHORITY_FRESHNESS"
  <2>1. PICK divergent, contributing :
          /\ e = Evaluation(b.axes.deferrals, b.axes.paired, divergent, contributing)
          /\ contributing = OfTypes(b, {"EXPIRED_CREDENTIAL_ACCEPTED"})
                            \cup OfTypes(b, {"STALE_AUTHORITY"})
    BY <1>5 DEF Evaluate, AuthorityFreshness
  <2>2. QED
    BY <1>1, <2>1, EvaluationSays
<1>6. CASE category = "FAILURE_TRANSPARENCY"
  <2>1. PICK divergent, contributing :
          /\ e = Evaluation(b.axes.tasks, b.axes.tasks, divergent, contributing)
          /\ contributing = OfTypes(b, TypesOf["FAILURE_TRANSPARENCY"])
    BY <1>6 DEF Evaluate, FailureTransparency
  <2>2. QED
    BY <1>1, <2>1, EvaluationSays
<1>7. CASE category = "CREDENTIAL_HYGIENE"
  <2>1. PICK divergent, contributing :
          /\ e = Evaluation(b.axes.credentials, b.axes.credentials, divergent, contributing)
          /\ contributing = OfTypes(b, {"LIFETIME_CAPPED"})
    BY <1>7 DEF Evaluate, CredentialHygiene
  <2>2. QED
    BY <1>1, <2>1, EvaluationSays
<1>8. QED
  BY <1>2, <1>3, <1>4, <1>5, <1>6, <1>7 DEF Categories

\* Every finding has a confidence, and says so if it has none.
LEMMA FindingsTyped ==
    ASSUME AxesInv, VerdictInv, result # Pending, NEW f \in result.findings
    PROVE  /\ f.confidence \in Confidences
           /\ f.type = "INCONCLUSIVE" <=> f.confidence = "INSUFFICIENT"
<1>1. CASE \E p \in Range(PhaseOrder) : f \in AuthorityFindings(Graph(rows[p]), <<"r1", p>>)
  <2>1. PICK g, place : f \in AuthorityFindings(g, place)
    BY <1>1
  <2>2. PICK n \in Identities :
          \/ f = AuthorityExpansion(g, place, n)
          \/ f = DelegationDrift(g, place, n)
          \/ f = AuthorityNarrowing(g, place, n)
          \/ f = ExpectedBehavior(g, place, n)
          \/ f = AuthoritySurvival(g, place, n)
    BY <2>1, PhaseFindings
  <2>3. PICK type, caps : Says(f, g, place, n, type, caps) /\ type # "INCONCLUSIVE"
    <3>1. CASE f = AuthorityExpansion(g, place, n)
      BY <3>1, ExpansionSays
    <3>2. CASE f = DelegationDrift(g, place, n)
      BY <3>2, DriftSays
    <3>3. CASE f = AuthorityNarrowing(g, place, n)
      BY <3>3, NarrowingSays
    <3>4. CASE f = ExpectedBehavior(g, place, n)
      BY <3>4, ExpectedSays
    <3>5. CASE f = AuthoritySurvival(g, place, n)
      BY <3>5, SurvivalSays
    <3>6. QED
      BY <2>2, <3>1, <3>2, <3>3, <3>4, <3>5
  <2>4. QED
    BY <2>3 DEF Says
<1>2. CASE f.type \in OtherTypes /\ f.confidence \in {"HIGH", "MEDIUM", "LOW"}
  BY <1>2 DEF OtherTypes, Confidences
<1>3. CASE f.type = "CONFIGURATION_ERROR" /\ f.confidence = "HIGH"
  BY <1>3 DEF Confidences
<1>4. QED
  BY <1>1, <1>2, <1>3, FoundIn

\* Scores that are no error are those of _finalize, of a run with countable axes.
LEMMA Finalized ==
    ASSUME AxesInv, VerdictInv, Scored, NEW category \in Categories
    PROVE  /\ CanScore(result) /\ result # Pending /\ result.axes = axes
           /\ scores[category] = Finalize(result, category)
           /\ Evaluate(result, category).applicable \in Nat
           /\ Evaluate(result, category).measured \in Nat
           /\ Evaluate(result, category).contributing \subseteq result.findings
           /\ \A f \in Evaluate(result, category).contributing : f.confidence \in Confidences
<1>1. /\ scores # Pending /\ "error" \notin DOMAIN scores /\ result # Pending
      /\ status = "COMPLETED" /\ result = AnalyzeBundle(ThisRun)
  BY DEF Scored, VerdictInv
<1>2. CanScore(result) /\ scores = Score(result)
  BY <1>1 DEF VerdictInv
<1>3. scores[category] = Finalize(result, category)
  BY <1>2 DEF Score
<1>4. result.axes = axes
  BY <1>1 DEF AnalyzeBundle, ThisRun
<1>5. /\ axes.pollPlans \in Nat /\ axes.windows \in Nat /\ axes.deferrals \in Nat
      /\ axes.paired \in Nat /\ axes.tasks \in Nat /\ axes.credentials \in Nat
  BY <1>1 DEF AxesInv
<1>6. PICK e : e = Evaluate(result, category)
  OBVIOUS
<1>7. e.applicable \in Nat /\ e.measured \in Nat /\ e.contributing \subseteq result.findings
  BY <1>4, <1>5, <1>6, EvaluateSays
<1>8. \A f \in result.findings : f.confidence \in Confidences
  BY <1>1, FindingsTyped
<1>9. QED
  BY <1>1, <1>2, <1>3, <1>4, <1>6, <1>7, <1>8

\* Every stage's result has its shape.
THEOREM TypeCorrect == Spec => []TypeOK
<1>1. ASSUME IInv
      PROVE  TypeOK
  <2>1. outcome \in {"reading", "walking", "compiled", "schema", "semantic", "binding", "crashed"}
    BY <1>1 DEF IInv, CompiledInv
  <2>2. outcome = "compiled" => DOMAIN nodes = Identities
    <3> SUFFICES ASSUME outcome = "compiled"
                 PROVE  DOMAIN nodes = Identities
      OBVIOUS
    <3>1. Unreached = {}
      BY <1>1 DEF IInv, CompiledInv, GraphIsValid
    <3>2. nodes \in UNION {[S -> Node] : S \in SUBSET Identities}
      BY <1>1 DEF IInv, WalkInv
    <3>3. DOMAIN nodes \subseteq Identities
      BY <3>2
    <3>4. QED
      BY <3>1, <3>3 DEF Unreached
  <2>3. status \in {"RUNNING", "COMPLETED", "ABORTED"}
    BY <1>1 DEF IInv, AxesInv
  <2>4. ASSUME Analyzed, NEW f \in result.findings
        PROVE  /\ f.confidence \in Confidences
               /\ (f.type = "INCONCLUSIVE") = (f.confidence = "INSUFFICIENT")
    <3>1. /\ f.confidence \in Confidences
          /\ f.type = "INCONCLUSIVE" <=> f.confidence = "INSUFFICIENT"
      BY <1>1, <2>4, FindingsTyped DEF IInv, Analyzed
    <3>2. QED
      BY <3>1
  <2>5. ASSUME Scored, NEW c \in Categories
        PROVE  /\ scores[c].status \in Statuses
               /\ scores[c].confidence \in Confidences
               /\ scores[c].findings \subseteq result.findings
    <3>1. PICK e, r : e = Evaluate(result, c) /\ r = Finalize(result, c)
      OBVIOUS
    <3>2. /\ scores[c] = r /\ e.applicable \in Nat /\ e.measured \in Nat
          /\ e.contributing \subseteq result.findings
          /\ \A f \in e.contributing : f.confidence \in Confidences
      BY <1>1, <2>5, <3>1, Finalized DEF IInv
    <3>3. r.status \in Statuses /\ r.confidence \in Confidences /\ r.findings \subseteq e.contributing
      BY <3>1, <3>2, FinalizeSays
    <3>4. QED
      BY <3>2, <3>3
  <2>6. QED
    BY <2>1, <2>2, <2>3, <2>4, <2>5 DEF TypeOK
<1>2. QED
  BY <1>1, Invariance, PTL

\* A revocation is CONSISTENT only if no window stayed open.
LEMMA RevocationEarned ==
    ASSUME AxesInv, VerdictInv, Scored,
           scores["REVOCATION_RESPONSIVENESS"].status = "CONSISTENT",
           NEW cell \in DOMAIN axes.transitions
    PROVE  axes.transitions[cell] # {}
<1> SUFFICES ASSUME axes.transitions[cell] = {}
             PROVE  FALSE
  OBVIOUS
<1>1. PICK category : category = "REVOCATION_RESPONSIVENESS" /\ category \in Categories
  BY DEF Categories
<1>2. PICK e, r : e = Evaluate(result, category) /\ r = Finalize(result, category)
  OBVIOUS
<1>3. /\ result # Pending /\ scores[category] = r
      /\ e.applicable \in Nat /\ e.measured \in Nat
      /\ \A f \in e.contributing : f.confidence \in Confidences
  BY <1>1, <1>2, Finalized
<1>4. ~e.divergent /\ ~e.partial
  BY <1>1, <1>2, <1>3, FinalizeSays
<1>5. PICK delays, unseen, late, base :
        /\ delays = OfTypes(result, {"REVOCATION_DELAY"})
        /\ unseen = OfTypes(result, {"NO_TRANSITION_OBSERVED"})
        /\ late = (delays # {})
        /\ base = Evaluation(result.axes.pollPlans, result.axes.windows, late,
                             delays \cup unseen)
  OBVIOUS
<1>6. e = [base EXCEPT !.partial = unseen # {} /\ delays = {}]
  BY <1>1, <1>2, <1>5 DEF Evaluate, RevocationResponsiveness
<1>7. /\ base = [x \in {"applicable", "measured", "divergent", "partial", "contributing"} |-> base[x]]
      /\ base.divergent = late
  BY <1>5, EvaluationSays
<1>8. e.divergent = late /\ e.partial = (unseen # {} /\ delays = {})
  BY <1>6, <1>7
<1>9. unseen = {}
  BY <1>4, <1>5, <1>8
<1>10. status = "COMPLETED" /\ result = AnalyzeBundle(ThisRun)
  BY <1>3 DEF VerdictInv
<1>11. PICK f \in axes.findings : f.type = "NO_TRANSITION_OBSERVED"
  BY <1>10 DEF AxesInv
<1>12. axes.findings \subseteq result.findings
  BY <1>10 DEF AnalyzeBundle, ThisRun
<1>13. f \in unseen
  BY <1>5, <1>11, <1>12 DEF OfTypes
<1>14. QED
  BY <1>9, <1>13

\* An attenuation is CONSISTENT only if every measured edge passed on what it intended.
LEMMA AttenuationEarned ==
    ASSUME AxesInv, VerdictInv, Scored,
           scores["SCOPE_ATTENUATION"].status = "CONSISTENT",
           NEW n \in Agents, EdgeMeasured(result.graph, n)
    PROVE  /\ Held(result.graph, n) \subseteq scenario.intended[n]
           /\ Held(result.graph, n) \subseteq Held(result.graph, scenario.parent[n])
<1>1. PICK category : category = "SCOPE_ATTENUATION" /\ category \in Categories
  BY DEF Categories
<1>2. PICK e, r : e = Evaluate(result, category) /\ r = Finalize(result, category)
  OBVIOUS
<1>3. /\ result # Pending /\ scores[category] = r
      /\ e.applicable \in Nat /\ e.measured \in Nat
      /\ \A f \in e.contributing : f.confidence \in Confidences
  BY <1>1, <1>2, Finalized
<1>4. ~e.divergent /\ Exercised(e)
  BY <1>1, <1>2, <1>3, FinalizeSays
<1>5. PICK applicable, measured, divergent, contributing :
        /\ applicable = Cardinality(Edges(result))
        /\ divergent = (\E m \in MeasuredEdges(result) : ~AttenuationCorrect(result.graph, m))
        /\ e = Evaluation(applicable, measured, divergent, contributing)
  BY <1>1, <1>2 DEF Evaluate, ScopeAttenuation
<1>6. e.applicable = Cardinality(Edges(result)) /\ e.divergent = divergent
  <2>1. e = Evaluation(applicable, measured, divergent, contributing)
    BY <1>5
  <2>2. e.applicable = applicable /\ e.divergent = divergent
    BY <2>1, EvaluationSays
  <2>3. QED
    BY <1>5, <2>2
<1>7. Edges(result) = Agents
  BY <1>4, <1>6, EdgeCounts DEF Exercised
<1>8. n \in MeasuredEdges(result)
  BY <1>7 DEF MeasuredEdges
<1>9. AttenuationCorrect(result.graph, n)
  BY <1>4, <1>5, <1>6, <1>8
<1>10. result.graph.intended = scenario.intended /\ result.graph.parent = scenario.parent
  BY <1>3 DEF VerdictInv, AnalyzeBundle, Graph
<1>11. QED
  BY <1>9, <1>10 DEF AttenuationCorrect

\* A verdict is earned (categories.py, _finalize): by coverage, by no failed negative
\* control, and by the findings, windows and edges it is a verdict of.
THEOREM VerdictsEarned == Spec => []VerdictsAreEarned
<1>1. ASSUME IInv, Scored, NEW c \in Categories
      PROVE  /\ scores[c].status \in {"CONSISTENT", "DIVERGENT"} =>
                   /\ 10 * Evaluate(result, c).measured >= 7 * Evaluate(result, c).applicable
                   /\ ~(result.check.result = "DETECTOR_FAILURE" /\ doc.expect.type \in TypesOf[c])
             /\ scores[c].confidence = "HIGH" =>
                   /\ Evaluate(result, c).measured = Evaluate(result, c).applicable
                   /\ \A f \in scores[c].findings : f.confidence = "HIGH"
  <2>1. PICK e, r : e = Evaluate(result, c) /\ r = Finalize(result, c)
    OBVIOUS
  <2>2. /\ CanScore(result) /\ result # Pending /\ scores[c] = r
        /\ e.applicable \in Nat /\ e.measured \in Nat
        /\ \A f \in e.contributing : f.confidence \in Confidences
    BY <1>1, <2>1, Finalized DEF IInv
  <2>3. /\ r.status \in {"CONSISTENT", "DIVERGENT"} =>
              ~DetectorFailed(result, c) /\ 10 * e.measured >= 7 * e.applicable
        /\ r.confidence = "HIGH" =>
              /\ Exercised(e) /\ e.measured >= e.applicable
              /\ \A f \in r.findings : f.confidence = "HIGH"
    BY <2>1, <2>2, FinalizeSays
  <2>4. result.check.type = doc.expect.type
    <3>1. status = "COMPLETED" /\ outcome = "compiled" /\ result = AnalyzeBundle(ThisRun)
      BY <1>1, <2>2 DEF IInv, VerdictInv, AxesInv
    <3>2. scenario.expect = doc.expect
      BY <1>1, <3>1 DEF IInv, CompiledInv
    <3>3. result.check.type = scenario.expect.type
      BY <3>1 DEF AnalyzeBundle
    <3>4. QED
      BY <3>2, <3>3
  <2>5. e.applicable = 0 \/ e.measured <= e.applicable
    BY <2>1, <2>2 DEF CanScore
  <2>6. Exercised(e) /\ e.measured >= e.applicable => e.measured = e.applicable
    BY <2>2, <2>5 DEF Exercised
  <2>7. QED
    BY <2>1, <2>2, <2>3, <2>4, <2>6 DEF DetectorFailed
<1>2. IInv => VerdictsAreEarned
  BY <1>1, RevocationEarned, AttenuationEarned DEF VerdictsAreEarned, IInv
<1>3. QED
  BY <1>2, Invariance, PTL

---------------------------------------------------------------------------
\* Paths.

\* A path without divergence point has only measured identities that hold what they should.
LEMMA NoDivergence ==
    ASSUME NEW g, NEW path, FirstDivergence(g, path).kind = "NONE", NEW i \in DOMAIN path
    PROVE  Measured(g, path[i]) /\ Held(g, path[i]) = g.expected[path[i]]
<1>1. PICK points : points = {k \in DOMAIN path : ~Measured(g, path[k]) \/ Diverged(g, path[k])}
  OBVIOUS
<1>2. PICK k : k = CHOOSE first \in points : \A j \in points : first <= j
  OBVIOUS
<1>3. PICK kind : kind = CASE ~Measured(g, path[k]) -> "UNMEASURED"
                           [] Gain(g, path[k]) # {} /\ Loss(g, path[k]) # {} -> "MIXED"
                           [] Gain(g, path[k]) # {} /\ Loss(g, path[k]) = {} -> "EXPANSION"
                           [] OTHER -> "NARROWING"
  OBVIOUS
<1>4. FirstDivergence(g, path) =
        IF points = {} THEN [kind |-> "NONE", at |-> 0] ELSE [kind |-> kind, at |-> k]
  BY <1>1, <1>2, <1>3, Zenon DEF FirstDivergence
<1>5. kind \in {"UNMEASURED", "MIXED", "EXPANSION", "NARROWING"}
  BY <1>3
<1>6. points = {}
  BY <1>4, <1>5
<1>7. Measured(g, path[i]) /\ ~Diverged(g, path[i])
  BY <1>1, <1>6
<1>8. QED
  BY <1>7 DEF Diverged, Gain, Loss

\* What an identity holds after a phase is the last row measured by then.
LEMMA AccumulatedSays ==
    ASSUME NEW upto \in 1..Len(PhaseOrder), NEW n \in Identities,
           DOMAIN Accumulated(ThisRun, upto)[n] # {}
    PROVE  \E last \in 1..upto :
              /\ Accumulated(ThisRun, upto)[n] = rows[PhaseOrder[last]][n]
              /\ DOMAIN rows[PhaseOrder[last]][n] # {}
              /\ \A k \in last + 1..upto : DOMAIN rows[PhaseOrder[k]][n] = {}
<1>1. DOMAIN PhaseOrder = 1..3 /\ Len(PhaseOrder) = 3
  BY DEF PhaseOrder
<1>2. PICK measured : measured = MeasuredIn(ThisRun, n) \cap 1..upto
  OBVIOUS
<1>3. Accumulated(ThisRun, upto)[n] =
        IF measured = {} THEN <<>> ELSE rows[PhaseOrder[Max(measured)]][n]
  BY <1>2, Zenon DEF Accumulated, ThisRun
<1>4. DOMAIN <<>> = {}
  OBVIOUS
<1>5. measured # {}
  BY <1>3, <1>4
<1>6. \A k : k \in measured <=> (k \in 1..upto /\ DOMAIN rows[PhaseOrder[k]][n] # {})
  BY <1>1, <1>2 DEF MeasuredIn, ThisRun
<1>7. \E x \in measured : \A y \in measured : x >= y
  <2>1. \A k \in measured : k \in {1, 2, 3}
    BY <1>1, <1>6
  <2>2. CASE 3 \in measured
    BY <2>1, <2>2
  <2>3. CASE 3 \notin measured /\ 2 \in measured
    BY <2>1, <2>3
  <2>4. CASE 3 \notin measured /\ 2 \notin measured
    BY <1>5, <2>1, <2>4
  <2>5. QED
    BY <2>2, <2>3, <2>4
<1>8. PICK last : last = Max(measured)
  OBVIOUS
<1>9. last \in measured /\ \A y \in measured : last >= y
  BY <1>7, <1>8, Zenon DEF Max
<1>10. last \in 1..upto /\ DOMAIN rows[PhaseOrder[last]][n] # {}
  BY <1>6, <1>9
<1>11. ASSUME NEW k \in last + 1..upto
       PROVE  DOMAIN rows[PhaseOrder[k]][n] = {}
  <2>1. k \in 1..upto /\ ~(last >= k)
    BY <1>1, <1>10
  <2>2. QED
    BY <1>6, <1>9, <2>1
<1>12. QED
  BY <1>3, <1>5, <1>8, <1>10, <1>11

\* A path is free of divergence only if everybody on it was measured, and last held what
\* was expected (divergence.py 59-94): a gap does not pass for agreement.
THEOREM CleanPathsMeasured == Spec => []CleanPathsAreMeasured
<1>1. ASSUME IInv, Analyzed, NEW j \in DOMAIN result.paths, NEW p \in DOMAIN result.paths[j],
             result.paths[j][p].first.kind = "NONE", NEW n \in Range(p)
      PROVE  \E last \in 1..j :
                LET row == rows[PhaseOrder[last]][n]
                IN  /\ DOMAIN row # {}
                    /\ \A k \in last + 1..j : DOMAIN rows[PhaseOrder[k]][n] = {}
                    /\ {c \in DOMAIN row : Outcomes(row[c]) = {"ALLOWED"}} = scenario.expected[n]
  <2>1. /\ result = AnalyzeBundle(ThisRun) /\ outcome = "compiled"
        /\ WalkInv /\ CompiledInv /\ RowsInv
    BY <1>1 DEF IInv, VerdictInv, AxesInv, Analyzed
  <2>2. PICK phases : phases = PhasesPresent(ThisRun)
    OBVIOUS
  <2>3. result.paths = [k \in phases |->
                           LET g == Graph(Accumulated(ThisRun, k))
                           IN  [q \in Paths(g) |-> AnalyzePath(g, q)]]
    BY <2>1, <2>2, Zenon DEF AnalyzeBundle
  <2>4. j \in phases /\ j \in 1..Len(PhaseOrder)
    BY <2>2, <2>3 DEF PhasesPresent, MeasuredIn, PhaseOrder
  <2>5. PICK g : g = Graph(Accumulated(ThisRun, j))
    OBVIOUS
  <2>6. result.paths[j] = [q \in Paths(g) |-> AnalyzePath(g, q)]
    BY <2>3, <2>4, <2>5
  <2>7. p \in Paths(g) /\ FirstDivergence(g, p).kind = "NONE"
    BY <1>1, <2>6 DEF AnalyzePath
  <2>8. /\ g.parent = scenario.parent /\ g.expected = scenario.expected
        /\ g.rows = Accumulated(ThisRun, j)
    BY <2>5 DEF Graph
  <2>9. p \in Seq(Identities)
    <3>1. PICK m \in Identities : p = PathTo(g, m)
      BY <2>7 DEF Paths, Leaves
    <3>2. QED
      BY <2>1, <2>8, <3>1, PathTyped
  <2>10. PICK i \in DOMAIN p : n = p[i]
    BY DEF Range
  <2>11. n \in Identities
    BY <2>9, <2>10
  <2>12. Measured(g, n) /\ Held(g, n) = g.expected[n]
    BY <2>7, <2>10, NoDivergence
  <2>13. DOMAIN Accumulated(ThisRun, j)[n] # {}
    BY <2>8, <2>12 DEF Measured
  <2>14. PICK last \in 1..j :
           /\ Accumulated(ThisRun, j)[n] = rows[PhaseOrder[last]][n]
           /\ DOMAIN rows[PhaseOrder[last]][n] # {}
           /\ \A k \in last + 1..j : DOMAIN rows[PhaseOrder[k]][n] = {}
    BY <2>4, <2>11, <2>13, AccumulatedSays
  <2>15. PICK row : row = rows[PhaseOrder[last]][n]
    OBVIOUS
  <2>16. last \in DOMAIN PhaseOrder
    BY <2>4 DEF PhaseOrder
  <2>17. PhaseOrder[last] \in PlanPhases
    BY <2>16 DEF PhaseOrder, PlanPhases, PlanPhaseOf, Range
  <2>18. \A c \in DOMAIN row : row[c] \in Trials
    BY <2>1, <2>11, <2>15, <2>17 DEF RowsInv
  <2>19. \A c \in DOMAIN row : Resolved(row[c]) = "ALLOWED" <=> Outcomes(row[c]) = {"ALLOWED"}
    BY <2>18, ResolvedSays
  <2>20. Held(g, n) = {c \in DOMAIN row : Resolved(row[c]) = "ALLOWED"}
    BY <2>8, <2>14, <2>15 DEF Held
  <2>21. {c \in DOMAIN row : Outcomes(row[c]) = {"ALLOWED"}} = scenario.expected[n]
    BY <2>8, <2>12, <2>19, <2>20
  <2>22. QED
    BY <2>14, <2>15, <2>21
<1>2. IInv => CleanPathsAreMeasured
  BY <1>1 DEF CleanPathsAreMeasured
<1>3. QED
  BY <1>2, Invariance, PTL

---------------------------------------------------------------------------
\* Origins.

\* Drift that was carried down comes from a parent that exceeds its authority too.
LEMMA GainSays ==
    ASSUME NEW g, NEW n, Gain(g, n) # {}
    PROVE  /\ Measured(g, n) /\ Gain(g, n) \subseteq DOMAIN g.rows[n]
           /\ DriftClass(g, n) \in {"ORIGINATED", "AMPLIFIED", "PROPAGATED"}
           /\ DriftClass(g, n) \in {"AMPLIFIED", "PROPAGATED"} =>
                 n # Root /\ Gain(g, g.parent[n]) # {}
<1>1. Measured(g, n) /\ Gain(g, n) \subseteq DOMAIN g.rows[n]
  BY DEF Gain, Held
<1>2. PICK gain, before : gain = Gain(g, n) /\ before = ParentGain(g, n)
  OBVIOUS
<1>3. DriftClass(g, n) =
        CASE before = {} /\ gain = {} -> "NONE"
          [] before # {} /\ gain = {} -> "CORRECTED"
          [] before # {} /\ before \subseteq gain /\ gain # before -> "AMPLIFIED"
          [] gain # {} /\ gain \subseteq before -> "PROPAGATED"
          [] OTHER -> "ORIGINATED"
  BY <1>2, Zenon DEF DriftClass
<1>4. CASE before = {}
  <2>1. DriftClass(g, n) = "ORIGINATED"
    BY <1>2, <1>3, <1>4
  <2>2. QED
    BY <1>1, <2>1
<1>5. CASE before # {}
  <2>1. DriftClass(g, n) \in {"ORIGINATED", "AMPLIFIED", "PROPAGATED"}
    BY <1>2, <1>3, <1>5
  <2>2. n # Root /\ Gain(g, g.parent[n]) # {}
    BY <1>2, <1>5 DEF ParentGain
  <2>3. QED
    BY <1>1, <2>1, <2>2
<1>6. QED
  BY <1>4, <1>5

\* The origin of an identity is its own expansion, or its parent's.
LEMMA OriginSteps ==
    ASSUME WalkInv, CompiledInv, outcome = "compiled", NEW g, g.parent = scenario.parent,
           NEW place, NEW n \in Identities
    PROVE  Origin(g, place)[n] =
             IF Measured(g, n) /\ Expands(g, n) THEN Id(AuthorityExpansion(g, place, n))
             ELSE IF Measured(g, n) /\ Drifts(g, n) THEN Origin(g, place)[g.parent[n]] ELSE NoId
<1> DEFINE depth == [m \in Identities |-> nodes[m].hop]
           own == [m \in Identities |-> Id(AuthorityExpansion(g, place, m))]
           V == {own[m] : m \in Identities} \cup {NoId}
           base == IF Measured(g, Root) /\ Expands(g, Root) THEN own[Root] ELSE NoId
           step == [x \in Agents \X V |->
                       IF Measured(g, x[1]) /\ Expands(g, x[1]) THEN own[x[1]]
                       ELSE IF Measured(g, x[1]) /\ Drifts(g, x[1]) THEN x[2] ELSE NoId]
           Defines(f) == f = [m \in Identities |->
                      IF Measured(g, m) /\ Expands(g, m) THEN Id(AuthorityExpansion(g, place, m))
                      ELSE IF Measured(g, m) /\ Drifts(g, m) THEN f[g.parent[m]] ELSE NoId]
<1>1. \A m \in Identities : m # Root => m \in Agents
  BY DEF Identities
<1>2. \E f \in [Identities -> V] :
         \A m \in Identities : f[m] = IF m = Root THEN base ELSE step[<<m, f[g.parent[m]]>>]
  <2>1. depth \in [Identities -> Nat] /\ MaxDepth \in Nat /\ \A m \in Identities : depth[m] <= MaxDepth
    BY Tree, CompilerConstants
  <2>2. \A m \in Agents : g.parent[m] \in Identities /\ depth[g.parent[m]] < depth[m]
    <3> SUFFICES ASSUME NEW m \in Agents
                 PROVE  g.parent[m] \in Identities /\ depth[g.parent[m]] < depth[m]
      OBVIOUS
    <3>1. m \in Identities /\ g.parent[m] \in Identities
          /\ nodes[m].hop = nodes[g.parent[m]].hop + 1 /\ nodes[g.parent[m]].hop \in Nat
      BY Tree DEF Identities
    <3>2. QED
      BY <3>1
  <2>3. \A m \in Identities : own[m] \in V
    BY Zenon
  <2>4. NoId \in V
    OBVIOUS
  <2> HIDE DEF depth, own, V
  <2>5. base \in V
    BY <2>3, <2>4 DEF Identities
  <2>6. step \in [Agents \X V -> V]
    BY <2>3, <2>4 DEF Identities
  <2> HIDE DEF base, step
  <2>7. TreeData(depth, MaxDepth, g.parent, V, base, step)
    BY <2>1, <2>2, <2>5, <2>6 DEF TreeData
  <2>8. QED
    BY <2>7, TreeRecursion
<1>3. PICK f \in [Identities -> V] :
         \A m \in Identities : f[m] = IF m = Root THEN base ELSE step[<<m, f[g.parent[m]]>>]
  BY <1>2
<1>4. ASSUME NEW m \in Identities
      PROVE  f[m] = IF Measured(g, m) /\ Expands(g, m) THEN Id(AuthorityExpansion(g, place, m))
                    ELSE IF Measured(g, m) /\ Drifts(g, m) THEN f[g.parent[m]] ELSE NoId
  <2>1. own[m] = Id(AuthorityExpansion(g, place, m))
    OBVIOUS
  <2> HIDE DEF own
  <2>2. CASE m = Root
    <3>1. ~Drifts(g, m)
      BY <2>2 DEF Drifts
    <3>2. f[m] = IF Measured(g, m) /\ Expands(g, m) THEN own[m] ELSE NoId
      BY <1>3, <2>2
    <3>3. QED
      BY <2>1, <3>1, <3>2
  <2>3. CASE m # Root
    <3>1. m \in Agents /\ g.parent[m] \in Identities
      BY <1>1, <2>3, Tree
    <3>2. f[g.parent[m]] \in V
      BY <1>3, <3>1
    <3> HIDE DEF V
    <3>3. step[<<m, f[g.parent[m]]>>] =
            IF Measured(g, m) /\ Expands(g, m) THEN own[m]
            ELSE IF Measured(g, m) /\ Drifts(g, m) THEN f[g.parent[m]] ELSE NoId
      BY <3>1, <3>2
    <3> HIDE DEF step, base
    <3>4. f[m] = step[<<m, f[g.parent[m]]>>]
      BY <1>3, <2>3
    <3>5. QED
      BY <2>1, <3>3, <3>4
  <2>4. QED
    BY <2>2, <2>3
<1> HIDE DEF step, base, own, V
<1>5. Defines(f)
  BY <1>3, <1>4
<1> DEFINE origin == CHOOSE h : Defines(h)
<1>6. Defines(origin)
  BY <1>5, Zenon
<1>7. Origin(g, place) = origin
  BY Zenon DEF Origin
<1> HIDE DEF origin
<1>8. origin[n] = IF Measured(g, n) /\ Expands(g, n) THEN Id(AuthorityExpansion(g, place, n))
                  ELSE IF Measured(g, n) /\ Drifts(g, n) THEN origin[g.parent[n]] ELSE NoId
  BY <1>6, Zenon
<1>9. QED
  BY <1>7, <1>8

\* Below its origin, everybody on the path to an identity exceeds its authority.
Threaded(g, place, m, path, k) ==
    /\ k \in 1..Len(path)
    /\ path[k] \in Identities /\ Measured(g, path[k]) /\ Expands(g, path[k])
    /\ Origin(g, place)[m] = Id(AuthorityExpansion(g, place, path[k]))
    /\ \A j \in k..Len(path) : Gain(g, path[j]) # {}

\* A gain is traced to an expansion above it, with a gain at every identity between.
LEMMA OriginReached ==
    ASSUME WalkInv, CompiledInv, outcome = "compiled", NEW g, g.parent = scenario.parent,
           NEW place, NEW n \in Identities, Gain(g, n) # {}
    PROVE  \E k : Threaded(g, place, n, PathTo(g, n), k)
<1> DEFINE Reached(m) == Gain(g, m) # {} => \E k : Threaded(g, place, m, PathTo(g, m), k)
           wrong == {nodes[m].hop : m \in {x \in Identities : ~Reached(x)}}
<1>1. ASSUME wrong # {} PROVE FALSE
  <2>1. wrong \in SUBSET Nat
    BY Tree
  <2>2. PICK h \in wrong : \A x \in wrong : h <= x
    BY <1>1, <2>1, LeastNatural
  <2>3. PICK m \in Identities : h = nodes[m].hop /\ ~Reached(m)
    BY Zenon
  <2>4. Gain(g, m) # {} /\ ~(\E k : Threaded(g, place, m, PathTo(g, m), k))
    BY <2>3
  <2>5. PICK path : path = PathTo(g, m)
    OBVIOUS
  <2>6. path \in Seq(Identities) /\ path # <<>>
    BY <2>5, PathTyped
  <2>7. path[Len(path)] = m /\ Len(path) \in 1..Len(path)
    <3>1. CASE m = Root
      <4>1. path = <<m>>
        BY <2>5, <3>1, PathSteps
      <4>2. QED
        BY <4>1
    <3>2. CASE m # Root
      <4>1. m \in Agents /\ g.parent[m] \in Identities
        BY <3>2, Tree DEF Identities
      <4>2. PICK q : q = PathTo(g, g.parent[m])
        OBVIOUS
      <4>3. q \in Seq(Identities)
        BY <4>1, <4>2, PathTyped
      <4>4. path = Append(q, m)
        BY <2>5, <3>2, <4>2, PathSteps
      <4>5. QED
        BY <4>3, <4>4
    <3>3. QED
      BY <3>1, <3>2
  <2>8. Measured(g, m) /\ DriftClass(g, m) \in {"ORIGINATED", "AMPLIFIED", "PROPAGATED"}
    BY <2>4, GainSays
  <2>9. CASE Expands(g, m)
    <3>1. Origin(g, place)[m] = Id(AuthorityExpansion(g, place, m))
      BY <2>8, <2>9, OriginSteps
    <3>2. \A j \in Len(path)..Len(path) : j = Len(path)
      BY <2>6
    <3>3. Threaded(g, place, m, path, Len(path))
      BY <2>4, <2>7, <2>8, <2>9, <3>1, <3>2 DEF Threaded
    <3>4. QED
      BY <2>4, <2>5, <3>3
  <2>10. CASE ~Expands(g, m)
    <3>1. m # Root /\ Gain(g, g.parent[m]) # {} /\ Drifts(g, m)
      BY <2>4, <2>8, <2>10, GainSays DEF Expands, Drifts
    <3>2. /\ m \in Agents /\ g.parent[m] \in Identities
          /\ nodes[m].hop = nodes[g.parent[m]].hop + 1 /\ nodes[g.parent[m]].hop \in Nat
      BY <3>1, Tree DEF Identities
    <3>3. PICK p : p = g.parent[m]
      OBVIOUS
    <3>4. Reached(p)
      <4> SUFFICES ASSUME ~Reached(p) PROVE FALSE
        OBVIOUS
      <4>1. nodes[p].hop \in wrong
        BY <3>2, <3>3, Zenon
      <4>2. nodes[m].hop <= nodes[p].hop
        BY <2>2, <2>3, <4>1
      <4>3. QED
        BY <3>2, <3>3, <4>2
    <3>5. PICK q : q = PathTo(g, p)
      OBVIOUS
    <3>6. PICK k : Threaded(g, place, p, q, k)
      BY <3>1, <3>3, <3>4, <3>5
    <3>7. q \in Seq(Identities) /\ path = Append(q, m)
      BY <2>5, <3>1, <3>2, <3>3, <3>5, PathTyped, PathSteps
    <3>8. Origin(g, place)[m] = Origin(g, place)[p]
      BY <2>8, <2>10, <3>1, <3>3, OriginSteps
    <3>9. /\ Len(path) = Len(q) + 1 /\ Len(q) \in Nat
          /\ \A j \in 1..Len(q) : path[j] = q[j]
      BY <3>7
    <3>10. k \in 1..Len(q) /\ k \in 1..Len(path) /\ path[k] = q[k]
      BY <3>6, <3>9 DEF Threaded
    <3>11. \A j \in k..Len(path) : Gain(g, path[j]) # {}
      <4> SUFFICES ASSUME NEW j \in k..Len(path)
                   PROVE  Gain(g, path[j]) # {}
        OBVIOUS
      <4>1. CASE j = Len(path)
        BY <2>4, <2>7, <4>1
      <4>2. CASE j # Len(path)
        <5>1. j \in k..Len(q) /\ j \in 1..Len(q)
          BY <3>9, <3>10, <4>2
        <5>2. QED
          BY <3>6, <3>9, <5>1 DEF Threaded
      <4>3. QED
        BY <4>1, <4>2
    <3>12. Threaded(g, place, m, path, k)
      BY <3>6, <3>8, <3>10, <3>11 DEF Threaded
    <3>13. QED
      BY <2>4, <2>5, <3>12
  <2>11. QED
    BY <2>9, <2>10
<1>2. Reached(n)
  BY <1>1, Zenon
<1>3. QED
  BY <1>2

\* A path depends on the tree alone.
LEMMA SamePath ==
    ASSUME NEW g, NEW h, g.parent = h.parent, NEW n
    PROVE  PathTo(g, n) = PathTo(h, n)
BY DEF PathTo

\* A drift that was carried down cites a finding of this very analysis (pipeline.py
\* 101-129): its origin's, of an ancestor in the same phase, and all between exceed too.
THEOREM OriginsThreaded == Spec => []OriginsAreThreaded
<1>1. ASSUME IInv, Analyzed, NEW f \in result.findings,
             f.type = "DELEGATION_DRIFT", f.drift \in {"PROPAGATED", "AMPLIFIED"}
      PROVE  \E origin \in result.findings :
                /\ Id(origin) = f.cites
                /\ \A ref \in f.refs, source \in origin.refs : ref[1] = source[1]
                /\ LET path == PathTo(scenario, f.node)
                       phase == (CHOOSE ref \in f.refs : TRUE)[1][2]
                   IN  \E i \in 1..(Len(path) - 1) :
                          /\ path[i] = origin.node
                          /\ \A j \in i..Len(path) : Gain(Graph(rows[phase]), path[j]) # {}
  <2>1. /\ result # Pending /\ status = "COMPLETED" /\ outcome = "compiled"
        /\ WalkInv /\ CompiledInv /\ AxesInv /\ VerdictInv
    BY <1>1 DEF IInv, VerdictInv, AxesInv, Analyzed
  <2>2. f.type \notin OtherTypes /\ f.type # "CONFIGURATION_ERROR"
    BY <1>1 DEF OtherTypes
  <2>3. PICK p \in Range(PhaseOrder) :
          /\ f \in AuthorityFindings(Graph(rows[p]), <<"r1", p>>)
          /\ AuthorityFindings(Graph(rows[p]), <<"r1", p>>) \subseteq result.findings
    BY <1>1, <2>1, <2>2, FoundIn
  <2>4. PICK g, place : g = Graph(rows[p]) /\ place = <<"r1", p>>
    OBVIOUS
  <2>5. g.parent = scenario.parent /\ place[2] = p
    BY <2>4 DEF Graph
  <2>6. PICK n \in Identities :
          /\ Measured(g, n)
          /\ \/ f = AuthorityExpansion(g, place, n)
             \/ f = DelegationDrift(g, place, n) /\ Drifts(g, n)
             \/ f = AuthorityNarrowing(g, place, n)
             \/ f = ExpectedBehavior(g, place, n)
             \/ f = AuthoritySurvival(g, place, n)
    BY <2>3, <2>4, PhaseFindings
  <2>7. f = DelegationDrift(g, place, n) /\ Drifts(g, n)
    <3>1. CASE f = AuthorityExpansion(g, place, n)
      <4>1. Says(f, g, place, n, "AUTHORITY_EXPANSION", Gain(g, n))
        BY <3>1, ExpansionSays
      <4>2. QED
        BY <1>1, <4>1 DEF Says
    <3>2. CASE f = AuthorityNarrowing(g, place, n)
      <4>1. Says(f, g, place, n, "AUTHORITY_NARROWING", Loss(g, n))
        BY <3>2, NarrowingSays
      <4>2. QED
        BY <1>1, <4>1 DEF Says
    <3>3. CASE f = ExpectedBehavior(g, place, n)
      <4>1. Says(f, g, place, n, "EXPECTED_BEHAVIOR", DOMAIN g.rows[n])
        BY <3>3, ExpectedSays
      <4>2. QED
        BY <1>1, <4>1 DEF Says
    <3>4. CASE f = AuthoritySurvival(g, place, n)
      <4>1. Says(f, g, place, n, "AUTHORITY_SURVIVAL", SurvivedIncorrectly(g, n))
        BY <3>4, SurvivalSays
      <4>2. QED
        BY <1>1, <4>1 DEF Says
    <3>5. QED
      BY <2>6, <3>1, <3>2, <3>3, <3>4
  <2>8. /\ Says(f, g, place, n, "DELEGATION_DRIFT", Gain(g, n))
        /\ f.drift = DriftClass(g, n) /\ f.cites = Origin(g, place)[g.parent[n]]
    BY <2>7, DriftSays
  <2>9. Gain(g, n) # {} /\ n # Root
    BY <2>7 DEF Drifts
  <2>10. Gain(g, g.parent[n]) # {} /\ Gain(g, n) \subseteq DOMAIN g.rows[n]
    BY <1>1, <2>8, <2>9, GainSays
  <2>11. PICK q, path : q = PathTo(g, g.parent[n]) /\ path = PathTo(g, n)
    OBVIOUS
  <2>12. n \in Agents /\ g.parent[n] \in Identities
    BY <2>1, <2>5, <2>9, Tree DEF Identities
  <2>13. PICK k : Threaded(g, place, g.parent[n], q, k)
    BY <2>1, <2>5, <2>10, <2>11, <2>12, OriginReached
  <2>14. path = Append(q, n) /\ q \in Seq(Identities)
    BY <2>1, <2>5, <2>9, <2>11, <2>12, PathSteps, PathTyped
  <2>15. /\ Len(path) = Len(q) + 1 /\ Len(q) \in Nat /\ path[Len(path)] = n
         /\ \A j \in 1..Len(q) : path[j] = q[j]
    BY <2>14
  <2>16. k \in 1..Len(q) /\ k \in 1..(Len(path) - 1) /\ path[k] = q[k]
    BY <2>13, <2>15 DEF Threaded
  <2>17. \A j \in k..Len(path) : Gain(g, path[j]) # {}
    <3> SUFFICES ASSUME NEW j \in k..Len(path)
                 PROVE  Gain(g, path[j]) # {}
      OBVIOUS
    <3>1. CASE j = Len(path)
      BY <2>9, <2>15, <3>1
    <3>2. CASE j # Len(path)
      <4>1. j \in k..Len(q) /\ j \in 1..Len(q)
        BY <2>15, <2>16, <3>2
      <4>2. QED
        BY <2>13, <2>15, <4>1 DEF Threaded
    <3>3. QED
      BY <3>1, <3>2
  <2>18. PICK origin : origin = AuthorityExpansion(g, place, path[k])
    OBVIOUS
  <2>19. Says(origin, g, place, path[k], "AUTHORITY_EXPANSION", Gain(g, path[k]))
    BY <2>18, ExpansionSays
  <2>20. path[k] \in Identities /\ Measured(g, path[k]) /\ Expands(g, path[k]) /\ Id(origin) = f.cites
    BY <2>8, <2>13, <2>16, <2>18 DEF Threaded
  <2>21. origin \in result.findings
    <3>1. origin \in NodeFindings(g, place, path[k])
      BY <2>18, <2>20 DEF NodeFindings
    <3>2. origin \in AuthorityFindings(g, place)
      BY <2>20, <3>1 DEF AuthorityFindings
    <3>3. QED
      BY <2>3, <2>4, <3>2
  <2>22. \A ref \in f.refs, source \in origin.refs : ref[1] = source[1]
    BY <2>8, <2>19, Observed
  <2>23. origin.node = path[k] /\ f.node = n
    BY <2>8, <2>19 DEF Says
  <2>24. PICK ref : ref = CHOOSE r \in f.refs : TRUE
    OBVIOUS
  <2>25. ref \in f.refs
    <3>1. PICK c : c \in Probed(g, n, Gain(g, n))
      BY <2>9, <2>10 DEF Probed
    <3>2. <<place, n, c>> \in f.refs
      BY <2>8, <3>1 DEF Says
    <3>3. QED
      BY <2>24, <3>2, Zenon
  <2>26. ref[1][2] = p
    BY <2>5, <2>8, <2>25, Observed
  <2>27. path = PathTo(scenario, f.node)
    BY <2>5, <2>11, <2>23, SamePath
  <2>28. PICK phase : phase = (CHOOSE r \in f.refs : TRUE)[1][2]
    OBVIOUS
  <2>29. Graph(rows[phase]) = g
    BY <2>4, <2>24, <2>26, <2>28
  <2>30. QED
    BY <2>16, <2>17, <2>20, <2>21, <2>22, <2>23, <2>27, <2>28, <2>29
<1>2. IInv => OriginsAreThreaded
  BY <1>1, Zenon DEF OriginsAreThreaded
<1>3. QED
  BY <1>2, Invariance, PTL

---------------------------------------------------------------------------
\* Comparison.

\* Findings of the same content say the same in all but their observations.
LEMMA ContentSays ==
    ASSUME NEW f, DOMAIN f = Fields, NEW x, Content(x) = Content(f)
    PROVE  /\ x.kind = f.kind /\ x.node = f.node /\ x.said = f.said
           /\ x.observed = f.observed /\ x.cites = f.cites
<1>1. PICK same : same = Content(x)
  OBVIOUS
<1>2. /\ DOMAIN same = Fields \ {"refs"}
      /\ \A y \in Fields \ {"refs"} : same[y] = f[y]
  BY <1>1 DEF Content
<1>3. /\ DOMAIN same = DOMAIN x \ {"refs"}
      /\ \A y \in DOMAIN x \ {"refs"} : same[y] = x[y]
  BY <1>1 DEF Content
<1>4. {"kind", "node", "said", "observed", "cites"} \subseteq Fields \ {"refs"}
  BY DEF Fields
<1>5. QED
  BY <1>2, <1>3, <1>4

\* A carried-down origin is an expansion of the same phase, or there is none.
LEMMA OriginIs ==
    ASSUME WalkInv, CompiledInv, outcome = "compiled", NEW g, g.parent = scenario.parent,
           NEW place, NEW n \in Identities
    PROVE  \/ Gain(g, n) = {} /\ Origin(g, place)[n] = NoId
           \/ \E m \in Identities :
                 Gain(g, m) # {} /\ Origin(g, place)[n] = Id(AuthorityExpansion(g, place, m))
<1>1. CASE Gain(g, n) = {}
  <2>1. ~Expands(g, n) /\ ~Drifts(g, n)
    BY <1>1 DEF Expands, Drifts
  <2>2. QED
    BY <1>1, <2>1, OriginSteps
<1>2. CASE Gain(g, n) # {}
  <2>1. PICK path : path = PathTo(g, n)
    OBVIOUS
  <2>2. PICK k : Threaded(g, place, n, path, k)
    BY <1>2, <2>1, OriginReached
  <2>3. QED
    BY <2>2 DEF Threaded, Expands
<1>3. QED
  BY <1>1, <1>2

\* The evidence of one run.
Evidence(e) ==
    /\ \A p \in Range(PhaseOrder), n \in Identities :
          \A c \in DOMAIN e.rows[p][n] : e.rows[p][n][c] \in Trials
    /\ \A f \in e.axes.findings : f.kind = "other"

\* What an analysis says of the run itself.
LEMMA BundleSays ==
    ASSUME NEW e
    PROVE  /\ AnalyzeBundle(e).axes = e.axes
           /\ AnalyzeBundle(e).findings =
                 (UNION {AuthorityFindings(Graph(e.rows[p]), <<e.run, p>>) :
                            p \in {PhaseOrder[j] : j \in PhasesPresent(e)}})
                 \cup e.axes.findings \cup ConfigurationErrors
<1>1. PICK present : present = {PhaseOrder[j] : j \in PhasesPresent(e)}
  OBVIOUS
<1>2. PICK found : found =
        (UNION {AuthorityFindings(Graph(e.rows[p]), <<e.run, p>>) : p \in present})
        \cup e.axes.findings \cup ConfigurationErrors
  OBVIOUS
<1>3. AnalyzeBundle(e).axes = e.axes /\ AnalyzeBundle(e).findings = found
  BY <1>1, <1>2, Zenon DEF AnalyzeBundle
<1>4. QED
  BY <1>1, <1>2, <1>3

\* The findings of an identity are made in a phase, in one of four ways.
OfPhase(x, e, p, n) ==
    LET g == Graph(e.rows[p])
    IN  \/ x = AuthorityExpansion(g, <<e.run, p>>, n)
        \/ x = DelegationDrift(g, <<e.run, p>>, n) /\ n # Root
        \/ x = AuthorityNarrowing(g, <<e.run, p>>, n)
        \/ x = ExpectedBehavior(g, <<e.run, p>>, n)

\* Every finding of an identity in a bundle was made in one of its phases.
LEMMA IdentityFindings ==
    ASSUME NEW e, Evidence(e), NEW x \in AnalyzeBundle(e).findings, x.kind = "identity"
    PROVE  x.node \in Identities /\ \E p \in Range(PhaseOrder) : OfPhase(x, e, p, x.node)
<1>1. PICK present : present = {PhaseOrder[j] : j \in PhasesPresent(e)}
  OBVIOUS
<1>2. present \subseteq Range(PhaseOrder)
  BY <1>1 DEF PhasesPresent, MeasuredIn, Range
<1>3. x \notin e.axes.findings
  BY DEF Evidence
<1>4. x \notin ConfigurationErrors
  <2> SUFFICES ASSUME x \in ConfigurationErrors PROVE FALSE
    OBVIOUS
  <2>1. PICK n, c : x = PlainFinding("CONFIGURATION_ERROR", n, c, "HIGH")
    BY DEF ConfigurationErrors
  <2>2. QED
    BY <2>1, PlainSays
<1>5. x \in UNION {AuthorityFindings(Graph(e.rows[p]), <<e.run, p>>) : p \in present}
  BY <1>1, <1>3, <1>4, BundleSays
<1>6. PICK p \in Range(PhaseOrder) : x \in AuthorityFindings(Graph(e.rows[p]), <<e.run, p>>)
  BY <1>2, <1>5
<1>7. PICK g, place : g = Graph(e.rows[p]) /\ place = <<e.run, p>>
  OBVIOUS
<1>8. PICK n \in Identities :
        \/ x = AuthorityExpansion(g, place, n)
        \/ x = DelegationDrift(g, place, n) /\ n # Root
        \/ x = AuthorityNarrowing(g, place, n)
        \/ x = ExpectedBehavior(g, place, n)
        \/ x = AuthoritySurvival(g, place, n)
  BY <1>6, <1>7, PhaseFindings DEF Drifts
<1>9. x # AuthoritySurvival(g, place, n)
  BY SurvivalSays
<1>10. x.node = n
  <2>1. CASE x = AuthorityExpansion(g, place, n)
    BY <2>1, ExpansionSays DEF Says
  <2>2. CASE x = DelegationDrift(g, place, n)
    BY <2>2, DriftSays DEF Says
  <2>3. CASE x = AuthorityNarrowing(g, place, n)
    BY <2>3, NarrowingSays DEF Says
  <2>4. CASE x = ExpectedBehavior(g, place, n)
    BY <2>4, ExpectedSays DEF Says
  <2>5. QED
    BY <1>8, <1>9, <2>1, <2>2, <2>3, <2>4
<1>11. OfPhase(x, e, p, n)
  BY <1>7, <1>8, <1>9 DEF OfPhase
<1>12. QED
  BY <1>10, <1>11

\* So there are finitely many of an identity.
LEMMA FewFindings ==
    ASSUME NEW e, Evidence(e), NEW n, NEW S,
           \A x \in S : x \in AnalyzeBundle(e).findings /\ x.kind = "identity" /\ x.node = n
    PROVE  IsFiniteSet(S)
<1> DEFINE ways(p) ==
        LET g == Graph(e.rows[p])
        IN  {AuthorityExpansion(g, <<e.run, p>>, n), DelegationDrift(g, <<e.run, p>>, n),
             AuthorityNarrowing(g, <<e.run, p>>, n), ExpectedBehavior(g, <<e.run, p>>, n)}
<1>1. \A p : IsFiniteSet(ways(p))
  <2> SUFFICES ASSUME NEW p PROVE IsFiniteSet(ways(p))
    OBVIOUS
  <2>1. PICK v, w, x, y : ways(p) = {v, w, x, y}
    BY Zenon
  <2>2. {v, w, x, y} = ({v} \cup {w}) \cup ({x} \cup {y})
    OBVIOUS
  <2>3. IsFiniteSet(({v} \cup {w}) \cup ({x} \cup {y}))
    BY FS_Singleton, FS_Union
  <2>4. QED
    BY <2>1, <2>2, <2>3
<1>2. \A x \in S : \E p \in Range(PhaseOrder) : x \in ways(p)
  BY IdentityFindings DEF OfPhase
<1>3. Range(PhaseOrder) = {"BASELINE", "FINAL", "POST_DELEGATION"}
  BY DEF PhaseOrder, Range
<1> HIDE DEF ways
<1>4. S \subseteq ways("BASELINE") \cup (ways("FINAL") \cup ways("POST_DELEGATION"))
  BY <1>2, <1>3
<1>5. IsFiniteSet(ways("BASELINE") \cup (ways("FINAL") \cup ways("POST_DELEGATION")))
  BY <1>1, FS_Union
<1>6. QED
  BY <1>4, <1>5, FS_Subset

\* What is held by a cell is what every trial of it allowed.
LEMMA HeldSays ==
    ASSUME NEW e, Evidence(e), NEW p \in Range(PhaseOrder), NEW n \in Identities
    PROVE  Held(Graph(e.rows[p]), n) = HeldIn(e, p, n)
<1>1. PICK row : row = e.rows[p][n]
  OBVIOUS
<1>2. \A c \in DOMAIN row : row[c] \in Trials
  BY <1>1 DEF Evidence
<1>3. \A c \in DOMAIN row : (Resolved(row[c]) = "ALLOWED") <=> (Outcomes(row[c]) = {"ALLOWED"})
  BY <1>2, ResolvedSays
<1>4. Graph(e.rows[p]).rows[n] = row
  BY <1>1 DEF Graph
<1>5. Held(Graph(e.rows[p]), n) = {c \in DOMAIN row : Resolved(row[c]) = "ALLOWED"}
  BY <1>4 DEF Held
<1>6. HeldIn(e, p, n) = {c \in DOMAIN row : Outcomes(row[c]) = {"ALLOWED"}}
  BY <1>1 DEF HeldIn
<1>7. QED
  BY <1>3, <1>5, <1>6

\* The expansion an origin names has observations, and they are of the run and the phase.
LEMMA ExpansionObserves ==
    ASSUME NEW g, NEW place, NEW m, Gain(g, m) # {},
           NEW f, f = AuthorityExpansion(g, place, m)
    PROVE  f.refs # {} /\ \A ref \in f.refs : ref[1] = place
<1>1. Gain(g, m) \subseteq DOMAIN g.rows[m]
  BY GainSays
<1>2. Says(f, g, place, m, "AUTHORITY_EXPANSION", Gain(g, m))
  BY ExpansionSays
<1>3. PICK c : c \in Probed(g, m, Gain(g, m))
  BY <1>1 DEF Probed
<1>4. <<place, m, c>> \in f.refs
  BY <1>2, <1>3 DEF Says
<1>5. QED
  BY <1>2, <1>4, Observed

\* A finding that tells its run, or else its phase.
Distinctive(f, g, place) ==
    \/ f.said = place[2] /\ f.cites = NoId
    \/ \E m \in Identities :
          Gain(g, m) # {} /\ f.cites = Id(AuthorityExpansion(g, place, m))

\* Every measured identity has one that tells what it held.
LEMMA EveryoneTells ==
    ASSUME WalkInv, CompiledInv, outcome = "compiled", NEW g, g.parent = scenario.parent,
           NEW place, NEW n \in Identities, Measured(g, n)
    PROVE  \E f \in AuthorityFindings(g, place) :
              /\ f.node = n /\ f.type \notin Timing
              /\ Tells(f, g, n) /\ Distinctive(f, g, place)
<1>1. NodeFindings(g, place, n) \subseteq AuthorityFindings(g, place)
  <2>1. NodeFindings(g, place, n) \in
           {NodeFindings(g, place, x) : x \in {m \in Identities : Measured(g, m)}}
    BY Zenon
  <2>2. QED
    BY <2>1 DEF AuthorityFindings
<1>2. CASE Loss(g, n) # {}
  <2>1. PICK f : f = AuthorityNarrowing(g, place, n)
    OBVIOUS
  <2>2. f \in AuthorityFindings(g, place)
    BY <1>1, <1>2, <2>1 DEF NodeFindings
  <2>3. /\ Says(f, g, place, n, "AUTHORITY_NARROWING", Loss(g, n))
        /\ Tells(f, g, n) /\ f.said = place[2] /\ f.cites = NoId
    BY <2>1, NarrowingSays
  <2>4. f.node = n /\ f.type \notin Timing
    BY <2>3 DEF Says, Timing
  <2>5. QED
    BY <2>2, <2>3, <2>4 DEF Distinctive
<1>3. CASE ~Diverged(g, n)
  <2>1. PICK f : f = ExpectedBehavior(g, place, n)
    OBVIOUS
  <2>2. f \in AuthorityFindings(g, place)
    BY <1>1, <1>3, <2>1 DEF NodeFindings
  <2>3. /\ Says(f, g, place, n, "EXPECTED_BEHAVIOR", DOMAIN g.rows[n])
        /\ Tells(f, g, n) /\ f.said = place[2] /\ f.cites = NoId
    BY <2>1, ExpectedSays
  <2>4. f.node = n /\ f.type \notin Timing
    BY <2>3 DEF Says, Timing
  <2>5. QED
    BY <2>2, <2>3, <2>4 DEF Distinctive
<1>4. CASE Expands(g, n)
  <2>1. PICK f : f = AuthorityExpansion(g, place, n)
    OBVIOUS
  <2>2. f \in AuthorityFindings(g, place)
    BY <1>1, <1>4, <2>1 DEF NodeFindings
  <2>3. /\ Says(f, g, place, n, "AUTHORITY_EXPANSION", Gain(g, n))
        /\ Tells(f, g, n) /\ f.said = place[2] /\ f.cites = NoId
    BY <2>1, ExpansionSays
  <2>4. f.node = n /\ f.type \notin Timing
    BY <2>3 DEF Says, Timing
  <2>5. QED
    BY <2>2, <2>3, <2>4 DEF Distinctive
<1>5. CASE Gain(g, n) # {} /\ ~Expands(g, n)
  <2>1. n # Root /\ Gain(g, g.parent[n]) # {} /\ Drifts(g, n)
    BY <1>5, GainSays DEF Expands, Drifts
  <2>2. PICK f : f = DelegationDrift(g, place, n)
    OBVIOUS
  <2>3. f \in AuthorityFindings(g, place)
    BY <1>1, <2>1, <2>2 DEF NodeFindings
  <2>4. /\ Says(f, g, place, n, "DELEGATION_DRIFT", Gain(g, n))
        /\ Tells(f, g, n) /\ f.cites = Origin(g, place)[g.parent[n]]
    BY <2>2, DriftSays
  <2>5. f.node = n /\ f.type \notin Timing
    BY <2>4 DEF Says, Timing
  <2>6. g.parent[n] \in Identities
    BY <2>1, Tree DEF Identities
  <2>7. \E m \in Identities : Gain(g, m) # {} /\ f.cites = Id(AuthorityExpansion(g, place, m))
    BY <2>1, <2>4, <2>6, OriginIs
  <2>8. QED
    BY <2>3, <2>4, <2>5, <2>7 DEF Distinctive
<1>6. QED
  BY <1>2, <1>3, <1>4, <1>5 DEF Diverged

\* No finding of a run that observed otherwise has the content of a distinctive one.
LEMMA Foreign ==
    ASSUME WalkInv, CompiledInv, outcome = "compiled",
           NEW d, NEW e, Evidence(e), d.run # e.run,
           NEW p \in Range(PhaseOrder), NEW n \in Identities, HeldIn(d, p, n) # HeldIn(e, p, n),
           NEW f, DOMAIN f = Fields, f.kind = "identity", f.node = n,
           f.observed = HeldIn(d, p, n), Distinctive(f, Graph(d.rows[p]), <<d.run, p>>),
           NEW x \in AnalyzeBundle(e).findings, Content(x) = Content(f)
    PROVE  FALSE
<1>1. /\ x.kind = "identity" /\ x.node = n /\ x.said = f.said
      /\ x.observed = HeldIn(d, p, n) /\ x.cites = f.cites
  BY ContentSays
<1>2. PICK q \in Range(PhaseOrder) : OfPhase(x, e, q, n)
  BY <1>1, IdentityFindings
<1>3. PICK g, place : g = Graph(e.rows[q]) /\ place = <<e.run, q>>
  OBVIOUS
<1>4. PICK h, there : h = Graph(d.rows[p]) /\ there = <<d.run, p>>
  OBVIOUS
<1>5. Held(g, n) = HeldIn(e, q, n)
  BY <1>3, HeldSays
<1>6. \/ Tells(x, g, n) /\ x.said = q /\ x.cites = NoId
      \/ /\ x = DelegationDrift(g, place, n) /\ n # Root
         /\ x.said = Unsaid /\ x.cites = Origin(g, place)[g.parent[n]]
  <2>1. place[2] = q
    BY <1>3
  <2>2. CASE x = AuthorityExpansion(g, place, n)
    BY <2>1, <2>2, ExpansionSays
  <2>3. CASE x = DelegationDrift(g, place, n) /\ n # Root
    BY <2>3, DriftSays
  <2>4. CASE x = AuthorityNarrowing(g, place, n)
    BY <2>1, <2>4, NarrowingSays
  <2>5. CASE x = ExpectedBehavior(g, place, n)
    BY <2>1, <2>5, ExpectedSays
  <2>6. QED
    BY <1>2, <1>3, <2>2, <2>3, <2>4, <2>5 DEF OfPhase
<1>7. Distinctive(f, h, there) /\ there[2] = p
  BY <1>4
<1>8. CASE f.said = there[2] /\ f.cites = NoId
  <2>1. x.said = p /\ Unsaid # p
    <3>1. Range(PhaseOrder) = {"BASELINE", "FINAL", "POST_DELEGATION"}
      BY DEF PhaseOrder, Range
    <3>2. Unsaid # "BASELINE" /\ Unsaid # "FINAL" /\ Unsaid # "POST_DELEGATION"
      BY Zenon DEF Unsaid
    <3>3. QED
      BY <1>1, <1>7, <1>8, <3>1, <3>2
  <2>2. Tells(x, g, n) /\ q = p
    BY <1>6, <2>1
  <2>3. QED
    BY <1>1, <1>5, <2>2 DEF Tells
<1>9. CASE \E m \in Identities :
              Gain(h, m) # {} /\ f.cites = Id(AuthorityExpansion(h, there, m))
  <2>1. PICK m \in Identities : Gain(h, m) # {} /\ f.cites = Id(AuthorityExpansion(h, there, m))
    BY <1>9
  <2>2. PICK origin : origin = AuthorityExpansion(h, there, m)
    OBVIOUS
  <2>3. origin.refs # {} /\ \A ref \in origin.refs : ref[1] = there
    BY <2>1, <2>2, ExpansionObserves
  <2>4. x.cites = Id(origin)
    BY <1>1, <2>1, <2>2
  <2>5. \A y : Id(y) # NoId /\ Id(y).refs = y.refs
    BY DEF Id, NoId
  <2>6. n # Root /\ Id(origin) = Origin(g, place)[g.parent[n]]
    BY <1>6, <2>4, <2>5
  <2>7. g.parent = scenario.parent
    BY <1>3 DEF Graph
  <2>8. g.parent[n] \in Identities
    BY <2>6, <2>7, Tree DEF Identities
  <2>9. PICK k \in Identities : Gain(g, k) # {} /\ Id(origin) = Id(AuthorityExpansion(g, place, k))
    BY <2>5, <2>6, <2>7, <2>8, OriginIs
  <2>10. PICK source : source = AuthorityExpansion(g, place, k)
    OBVIOUS
  <2>11. \A ref \in source.refs : ref[1] = place
    BY <2>9, <2>10, ExpansionObserves
  <2>12. origin.refs = source.refs
    BY <2>5, <2>9, <2>10
  <2>13. there = place
    BY <2>3, <2>11, <2>12
  <2>14. QED
    BY <1>3, <1>4, <2>13
<1>10. QED
  BY <1>7, <1>8, <1>9 DEF Distinctive

\* So two runs that observed different authority disagree in the count of some content.
LEMMA CountsDiffer ==
    ASSUME WalkInv, CompiledInv, outcome = "compiled",
           NEW d, NEW e, Evidence(d), Evidence(e), d.run # e.run,
           NEW p \in Range(PhaseOrder), NEW n \in Identities,
           HeldIn(d, p, n) # HeldIn(e, p, n), HeldIn(d, p, n) # {}
    PROVE  \E f \in SetValued(AnalyzeBundle(d)) :
              Count(AnalyzeBundle(d), Content(f)) # Count(AnalyzeBundle(e), Content(f))
<1>1. PICK g, place : g = Graph(d.rows[p]) /\ place = <<d.run, p>>
  OBVIOUS
<1>2. g.parent = scenario.parent /\ g.rows = d.rows[p]
  BY <1>1 DEF Graph
<1>3. DOMAIN d.rows[p][n] # {}
  BY DEF HeldIn
<1>4. Measured(g, n)
  BY <1>2, <1>3 DEF Measured
<1>5. PICK f \in AuthorityFindings(g, place) :
        f.node = n /\ f.type \notin Timing /\ Tells(f, g, n) /\ Distinctive(f, g, place)
  BY <1>2, <1>4, EveryoneTells
<1>6. f \in AnalyzeBundle(d).findings
  <2>1. PICK present : present = {PhaseOrder[j] : j \in PhasesPresent(d)}
    OBVIOUS
  <2>2. PICK j \in DOMAIN PhaseOrder : p = PhaseOrder[j]
    BY DEF Range
  <2>3. j \in MeasuredIn(d, n)
    BY <1>3, <2>2 DEF MeasuredIn
  <2>4. j \in PhasesPresent(d)
    BY <2>3 DEF PhasesPresent
  <2>5. p \in present
    BY <2>1, <2>2, <2>4
  <2>6. QED
    <3>1. AuthorityFindings(g, place) \in
             {AuthorityFindings(Graph(d.rows[y]), <<d.run, y>>) : y \in present}
      BY <1>1, <2>5, Zenon
    <3>2. f \in UNION {AuthorityFindings(Graph(d.rows[y]), <<d.run, y>>) : y \in present}
      BY <1>5, <3>1, Zenon
    <3>3. QED
      BY <2>1, <3>2, BundleSays
<1>7. /\ DOMAIN f = Fields /\ f.kind = "identity"
      /\ f.observed = HeldIn(d, p, n)
  BY <1>1, <1>5, HeldSays DEF Tells
<1>8. PICK here : here = {x \in SetValued(AnalyzeBundle(d)) : Content(x) = Content(f)}
  OBVIOUS
<1>9. f \in SetValued(AnalyzeBundle(d)) /\ f \in here
  BY <1>5, <1>6, <1>8 DEF SetValued
<1>10. IsFiniteSet(here)
  <2>1. \A x \in here : x \in AnalyzeBundle(d).findings /\ x.kind = "identity" /\ x.node = n
    BY <1>5, <1>7, <1>8, ContentSays DEF SetValued
  <2>2. QED
    BY <2>1, FewFindings
<1>11. Cardinality(here) # 0
  BY <1>9, <1>10, FS_EmptySet
<1>12. PICK other : other = {x \in SetValued(AnalyzeBundle(e)) : Content(x) = Content(f)}
  OBVIOUS
<1>13. other = {}
  <2> SUFFICES ASSUME NEW x \in other PROVE FALSE
    OBVIOUS
  <2>1. x \in AnalyzeBundle(e).findings /\ Content(x) = Content(f)
    BY <1>12 DEF SetValued
  <2>2. Distinctive(f, Graph(d.rows[p]), <<d.run, p>>)
    BY <1>1, <1>5
  <2>3. QED
    BY <1>5, <1>7, <2>1, <2>2, Foreign
<1>14. Cardinality(other) = 0
  BY <1>13, FS_EmptySet
<1>15. Count(AnalyzeBundle(d), Content(f)) = Cardinality(here)
       /\ Count(AnalyzeBundle(e), Content(f)) = Cardinality(other)
  BY <1>8, <1>12 DEF Count
<1>16. QED
  BY <1>9, <1>11, <1>14, <1>15

\* What is compared is the result and another run of the scenario.
ReportInv ==
    report # Pending =>
        /\ scores # Pending
        /\ report.other \in OtherRuns
        /\ \E flags : report.comparison = Comparison(result, AnalyzeBundle(report.other), flags)

\* What is compared with stays what it was when it was chosen.
LEMMA SameOther ==
    ASSUME NEW CONSTANT other, report'.other = other, UNCHANGED <<scenario, discarded>>
    PROVE  AnalyzeBundle(report.other)' = AnalyzeBundle(other)
BY DEF AnalyzeBundle, Graph, MeasuredIn, PhasesPresent, Accumulated, ConfigurationErrors

\* Every step keeps the report a comparison with a run that OtherRuns names.
LEMMA ReportStep == AxesInv /\ VerdictInv /\ ReportInv /\ [Next]_vars => ReportInv'
<1> SUFFICES ASSUME AxesInv, VerdictInv, ReportInv, [Next]_vars
             PROVE  ReportInv'
  OBVIOUS
<1>1. ASSUME scores # Pending
      PROVE  /\ UNCHANGED <<scenario, discarded, rows, axes, result, scores>>
             /\ OtherRuns' = OtherRuns
  <2>1. result # Pending /\ status = "COMPLETED"
    BY <1>1 DEF VerdictInv
  <2>2. UNCHANGED <<compilerVars, runVars>>
    BY <2>1, CompletedStays
  <2>3. UNCHANGED <<scenario, discarded, rows, axes>>
    BY <2>2 DEF compilerVars, runVars
  <2>4. UNCHANGED <<result, scores>>
    BY <1>1, <2>1 DEF Next, vars, verdictVars, MeasureMatrix, DiscardMatrix, AbortRun,
         MeasureOtherAxes, Analyze, ScoreBundle, Compare, Rest
  <2>5. OtherRuns' = OtherRuns
    BY <2>3 DEF OtherRuns, ThisRun, MeasuredCellsOf, CellOtherwise, WindowOtherwise
  <2>6. QED
    BY <2>3, <2>4, <2>5
<1>2. CASE Compare
  <2>1. scores # Pending /\ UNCHANGED <<result, scores>>
    BY <1>2 DEF Compare
  <2>2. PICK other, flags :
          /\ other \in OtherRuns
          /\ report'.other = other
          /\ report'.comparison = Comparison(result, AnalyzeBundle(other), flags)
    <3>1. PICK other, flags, aggregate :
            /\ other \in OtherRuns
            /\ report' = [other |-> other,
                          comparison |-> Comparison(result, AnalyzeBundle(other), flags),
                          aggregate |-> aggregate]
      BY <1>2, Zenon DEF Compare
    <3>2. QED
      BY <3>1
  <2>3. AnalyzeBundle(report.other)' = AnalyzeBundle(other)
    BY <1>1, <2>1, <2>2, SameOther
  <2>4. report'.other \in OtherRuns'
    BY <1>1, <2>1, <2>2
  <2>5. Comparison(result, AnalyzeBundle(report.other), flags)'
          = Comparison(result, AnalyzeBundle(other), flags)
    BY <2>1, <2>3
       DEF Comparison, Incomparable, VersionsDiffer, OtherInfrastructure, DivergentContents,
           MatchedContents, SetValued, Count, WindowsDiverge, Overlap, MatchVerdicts
  <2>6. QED
    BY <2>1, <2>2, <2>4, <2>5 DEF ReportInv
<1>3. CASE UNCHANGED report
  <2>1. CASE report = Pending
    BY <1>3, <2>1 DEF ReportInv, Pending
  <2>2. CASE report # Pending
    <3>1. scores # Pending /\ UNCHANGED <<result, scores>>
      BY <1>1, <2>2 DEF ReportInv
    <3>2. PICK other, flags :
            other = report.other /\ report.comparison = Comparison(result, AnalyzeBundle(other), flags)
      BY <2>2 DEF ReportInv
    <3>3. AnalyzeBundle(report.other)' = AnalyzeBundle(other)
      BY <1>1, <1>3, <3>1, <3>2, SameOther
    <3>4. report'.other \in OtherRuns'
      BY <1>1, <1>3, <2>2, <3>1 DEF ReportInv
    <3>5. Comparison(result, AnalyzeBundle(report.other), flags)'
            = Comparison(result, AnalyzeBundle(other), flags)
      BY <3>1, <3>3
         DEF Comparison, Incomparable, VersionsDiffer, OtherInfrastructure, DivergentContents,
             MatchedContents, SetValued, Count, WindowsDiverge, Overlap, MatchVerdicts
    <3>6. QED
      BY <1>3, <3>1, <3>2, <3>4, <3>5 DEF ReportInv
  <2>3. QED
    BY <2>1, <2>2
<1>4. QED
  BY <1>2, <1>3
     DEF Next, vars, verdictVars, MeasureMatrix, DiscardMatrix, AbortRun, MeasureOtherAxes,
         Analyze, ScoreBundle, Rest

\* The evidence of another run is evidence too, and of another run.
LEMMA OtherEvidence ==
    ASSUME RowsInv, AxesInv, status = "COMPLETED", NEW other \in OtherRuns
    PROVE  /\ Evidence(ThisRun) /\ ThisRun.run = "r1"
           /\ other = ThisRun \/ (other.run = "r2" /\ Evidence(other))
<1>1. /\ ThisRun.run = "r1" /\ ThisRun.rows = rows /\ ThisRun.axes = axes
      /\ {"run", "version", "infrastructure", "rows", "axes"} = DOMAIN ThisRun
  BY DEF ThisRun
<1>2. \A p \in Range(PhaseOrder) : p \in PlanPhases
  BY DEF PhaseOrder, PlanPhases, PlanPhaseOf, Range
<1>3. \A p \in Range(PhaseOrder), n \in Identities :
         \A c \in DOMAIN rows[p][n] : rows[p][n][c] \in Trials
  BY <1>2 DEF RowsInv
<1>4. \A f \in axes.findings : f.kind = "other"
  BY DEF AxesInv
<1>5. \A e : e.rows = rows /\ e.axes.findings = axes.findings => Evidence(e)
  BY <1>3, <1>4 DEF Evidence
<1>6. Evidence(ThisRun)
  BY <1>1, <1>5
<1> DEFINE same == {[ThisRun EXCEPT !.run = "r2"],
                    [ThisRun EXCEPT !.run = "r2", !.version = "v2"],
                    [ThisRun EXCEPT !.run = "r2", !.infrastructure = "i2"],
                    [ThisRun EXCEPT !.run = "r2", !.infrastructure = "unknown"]}
<1>7. \/ other = ThisRun
      \/ other \in same
      \/ \E x \in MeasuredCellsOf(ThisRun), t \in OtherRows :
            other = CellOtherwise(x, t)
      \/ \E cell \in DOMAIN axes.transitions, w \in Windows :
            other = WindowOtherwise(cell, w)
  BY DEF OtherRuns
<1>8. CASE other \in same
  <2>1. other.run = "r2" /\ other.rows = rows /\ other.axes = axes
    BY <1>1, <1>8
  <2>2. QED
    BY <1>1, <1>5, <1>6, <2>1
<1>9. CASE \E x \in MeasuredCellsOf(ThisRun), t \in OtherRows :
              other = CellOtherwise(x, t)
  <2>1. PICK x \in MeasuredCellsOf(ThisRun), t \in OtherRows :
              other = CellOtherwise(x, t)
    BY <1>9
  <2>2. /\ other.run = "r2" /\ other.axes = axes
        /\ other.rows = [rows EXCEPT ![x[1]][x[2]][x[3]] = t]
    BY <1>1, <2>1 DEF CellOtherwise
  <2>3. t \in Trials
    BY RunConstants
  <2>4. ASSUME NEW p \in Range(PhaseOrder), NEW n \in Identities, NEW c \in DOMAIN other.rows[p][n]
        PROVE  other.rows[p][n][c] \in Trials
    <3>1. p \in DOMAIN rows /\ n \in DOMAIN rows[p]
      BY <1>2 DEF RowsInv
    <3>2. CASE p = x[1] /\ n = x[2]
      <4>1. other.rows[p][n] = [rows[p][n] EXCEPT ![x[3]] = t]
        BY <2>2, <3>1, <3>2
      <4>2. c \in DOMAIN rows[p][n]
        BY <4>1
      <4>3. other.rows[p][n][c] = t \/ other.rows[p][n][c] = rows[p][n][c]
        BY <4>1, <4>2
      <4>4. QED
        BY <1>3, <2>3, <4>2, <4>3
    <3>3. CASE ~(p = x[1] /\ n = x[2])
      <4>1. other.rows[p][n] = rows[p][n]
        BY <2>2, <3>1, <3>3
      <4>2. QED
        BY <1>3, <4>1
    <3>4. QED
      BY <3>2, <3>3
  <2>5. Evidence(other)
    BY <1>4, <2>2, <2>4 DEF Evidence
  <2>6. QED
    BY <1>1, <1>6, <2>2, <2>5
<1>10. CASE \E cell \in DOMAIN axes.transitions, w \in Windows :
               other = WindowOtherwise(cell, w)
  <2>1. PICK cell \in DOMAIN axes.transitions, w \in Windows :
               other = WindowOtherwise(cell, w)
    BY <1>10
  <2>2. /\ other.run = "r2" /\ other.rows = rows
        /\ other.axes = [axes EXCEPT !.transitions[cell] = w]
    BY <1>1, <2>1 DEF WindowOtherwise
  <2>3. other.axes.findings = axes.findings
    BY <2>2 DEF AxesInv
  <2>4. QED
    BY <1>1, <1>5, <1>6, <2>2, <2>3
<1>11. QED
  BY <1>1, <1>6, <1>7, <1>8, <1>9, <1>10

\* Two runs that observed different authority anywhere, or transitions of a cell in no
\* common window, never compare without a divergent entry (compare.py, Levels 2 and 3).
THEOREM ChangesReported == Spec => []ChangesAreReported
<1>1. ASSUME IInv, ReportInv, Compared
      PROVE  /\ \/ report.comparison.divergent # {}
                \/ \A p \in Range(PhaseOrder), n \in Identities :
                       HeldIn(report.other, p, n) = HeldIn(ThisRun, p, n)
             /\ report.comparison.windows = {} =>
                   \A cell \in DOMAIN axes.transitions :
                       \/ axes.transitions[cell] = report.other.axes.transitions[cell]
                       \/ axes.transitions[cell] \cap report.other.axes.transitions[cell] # {}
  <2>1. PICK other, flags :
          /\ other = report.other /\ other \in OtherRuns
          /\ report.comparison = Comparison(result, AnalyzeBundle(other), flags)
    BY <1>1 DEF Compared, ReportInv
  <2>2. /\ WalkInv /\ CompiledInv /\ outcome = "compiled" /\ status = "COMPLETED"
        /\ result = AnalyzeBundle(ThisRun) /\ RowsInv /\ AxesInv
    BY <1>1 DEF Compared, ReportInv, IInv, VerdictInv, AxesInv
  <2>3. PICK a, b : a = result /\ b = AnalyzeBundle(other)
    OBVIOUS
  <2>4. report.comparison.verdict = "compared"
    BY <1>1 DEF Compared
  <2>5. report.comparison.divergent = DivergentContents(a, b)
        /\ report.comparison.windows = WindowsDiverge(a, b)
    <3>1. PICK divergent, windows :
            divergent = DivergentContents(a, b) /\ windows = WindowsDiverge(a, b)
      OBVIOUS
    <3>2. ~Incomparable(a, b, flags)
      BY <2>1, <2>3, <2>4 DEF Comparison
    <3>3. QED
      BY <2>1, <2>3, <3>1, <3>2 DEF Comparison
  <2>6. /\ Evidence(ThisRun) /\ ThisRun.run = "r1"
        /\ other = ThisRun \/ (other.run = "r2" /\ Evidence(other))
    BY <2>1, <2>2, OtherEvidence
  <2>7. ASSUME NEW p \in Range(PhaseOrder), NEW n \in Identities,
               HeldIn(other, p, n) # HeldIn(ThisRun, p, n)
        PROVE  DivergentContents(a, b) # {}
    <3>1. other.run = "r2" /\ Evidence(other)
      BY <2>6, <2>7
    <3>2. \E f \in SetValued(a) \cup SetValued(b) : Count(a, Content(f)) # Count(b, Content(f))
      <4>1. CASE HeldIn(ThisRun, p, n) # {}
        <5>1. \E f \in SetValued(a) : Count(a, Content(f)) # Count(b, Content(f))
          BY <2>2, <2>3, <2>6, <2>7, <3>1, <4>1, CountsDiffer
        <5>2. QED
          BY <5>1
      <4>2. CASE HeldIn(other, p, n) # {}
        <5>1. \E f \in SetValued(b) : Count(b, Content(f)) # Count(a, Content(f))
          BY <2>2, <2>3, <2>6, <2>7, <3>1, <4>2, CountsDiffer
        <5>2. QED
          BY <5>1
      <4>3. QED
        BY <2>7, <4>1, <4>2
    <3>3. PICK f \in SetValued(a) \cup SetValued(b) : Count(a, Content(f)) # Count(b, Content(f))
      BY <3>2
    <3>4. Content(f) \in DivergentContents(a, b)
      BY <3>3, Zenon DEF DivergentContents
    <3>5. QED
      BY <3>4
  <2>8. a.axes = axes /\ b.axes = other.axes
    BY <2>2, <2>3, BundleSays DEF ThisRun
  <2>9. ASSUME WindowsDiverge(a, b) = {}, NEW cell \in DOMAIN axes.transitions
        PROVE  \/ axes.transitions[cell] = other.axes.transitions[cell]
               \/ axes.transitions[cell] \cap other.axes.transitions[cell] # {}
    <3>1. PICK here, there : here = axes.transitions /\ there = other.axes.transitions
      OBVIOUS
    <3>2. cell \notin WindowsDiverge(a, b)
      BY <2>9
    <3>3. /\ cell \in DOMAIN here \cap DOMAIN there
          /\ (here[cell] = {}) = (there[cell] = {})
          /\ here[cell] # {} /\ there[cell] # {} => here[cell] \cap there[cell] # {}
      BY <2>8, <2>9, <3>1, <3>2 DEF WindowsDiverge, Overlap
    <3>4. QED
      BY <3>1, <3>3
  <2>10. QED
    BY <2>1, <2>5, <2>7, <2>9
<1>2. IInv /\ ReportInv => ChangesAreReported
  BY <1>1 DEF ChangesAreReported
<1>3. Init => ReportInv
  BY DEF Init, ReportInv
<1>4. IInv /\ ReportInv /\ [Next]_vars => ReportInv'
  BY ReportStep DEF IInv
<1>5. QED
  BY <1>2, <1>3, <1>4, Invariance, PTL DEF Spec

=============================================================================
