------------------------- MODULE MCAnalysisPipeline -------------------------
\* Root, two agents and two capabilities that can surprise. MCDocuments has the shapes
\* of the shipped scenarios (a chain probed before and after delegation, one phase for
\* all, a re-measured cell, timing and task phases) and documents that must not compile.
EXTENDS AnalysisPipeline

Edge(from, to, intended) == [from |-> from, to |-> to, intended |-> intended]
Phase(kind, name, targets, caps) == [kind |-> kind, name |-> name, targets |-> targets, caps |-> caps]
Probe(name, targets) == Phase("PROBE", name, targets, {})
NoExpectation == [type |-> "none"]

Chain(c) == <<Edge("root", "a", c), Edge("a", "b", c)>>
Document(grants, delegations, phases) ==
    [grants |-> grants, delegations |-> delegations, phases |-> phases,
     declared |-> [n \in Agents |-> Undeclared], mentions |-> {"c1", "c2"},
     universe |-> "scenario", bound |-> Catalog, suppress |-> {}, marked |-> FALSE,
     expect |-> NoExpectation, background |-> 1]

Basic == [Document({"c1", "c2"}, Chain({"c1"}),
                   <<Probe("baseline", {"root"}), Probe("after_delegation", {"a", "b"})>>)
          EXCEPT !.background = 8]
Together == Document({"c1"}, Chain({"c1"}), <<Probe("after_delegation", {"root", "a", "b"})>>)
Twice == [Document({"c1", "c2"}, <<Edge("root", "a", {"c1"}), Edge("root", "b", {"c2"})>>,
                   <<Probe("baseline", {"a"}), Probe("confirm_present", {"a"}),
                     Probe("final", {"b"})>>)
          EXCEPT !.universe = "declared"]
Control == [Together EXCEPT !.marked = TRUE,
               !.expect = [type |-> "DELEGATION_DRIFT", node |-> "b", caps |-> {"c2"},
                           confidence |-> "MEDIUM"]]
Timed(warmed) == Document({"c1"}, Chain({"c1"}),
                   <<Phase("POLL", "warm", {warmed}, {"c1"}), Phase("MUTATE", "revoke", {"a"}, {"c1"}),
                     Phase("POLL", "watch", {"b"}, {"c1"}),
                     Phase("DEFERRED_EXECUTION", "late", {"b"}, {}),
                     Phase("TASK", "work", {"b"}, {})>>)
TwoLate == [Document({"c1"}, Chain({"c1"}),
                     <<Phase("DEFERRED_EXECUTION", "soon", {"b"}, {}),
                       Phase("DEFERRED_EXECUTION", "late", {"a"}, {})>>)
            EXCEPT !.background = 2]

\* Every poll precedes the mutation: windows are measured where none is applicable.
Early == Document({"c1"}, Chain({"c1"}),
                  <<Phase("POLL", "warm", {"b"}, {"c1"}), Phase("MUTATE", "revoke", {"a"}, {"c1"})>>)

Unknown == Document({"c1"}, Chain({"c1"}), <<Probe("elsewhere", {"a"})>>)

\* What the compiler is given besides: every pair of delegations, and one fault each.
Pairs == {Document({"c1", "c2"}, <<e, f>>, <<>>) :
            e, f \in {Edge(m, n, c) : m \in {"root", "a"}, n \in {"root", "a", "b"},
                                      c \in {{"c1"}, {"c1", "c2"}}}}
Triples == {Document({"c1"}, <<Edge("root", "a", {"c1"}), Edge("root", "b", {"c1"}), e>>, <<>>) :
            e \in {Edge("a", "b", {}), Edge("b", "a", {"c1"})}}
Faulty == {[Basic EXCEPT !.declared["b"] = {"c2"}], [Basic EXCEPT !.bound = {"c1"}],
           [Basic EXCEPT !.marked = TRUE], [Basic EXCEPT !.phases[1].targets = {"nobody"}],
           [Basic EXCEPT !.grants = {"c1", "c2", "c9"}],
           [Together EXCEPT !.delegations[2].intended = {"c2"}, !.suppress = {"G-3"}]}
MCDocuments == {[Basic EXCEPT !.universe = "declared"], Twice, Control, Timed("b"), Timed("a"), TwoLate, Early, Unknown} \cup Pairs \cup Triples \cup Faulty

BasicOnly == {Basic}
TogetherOnly == {Together}

MCTrialRows == {<<"ALLOWED", "ALLOWED">>, <<"ALLOWED", "DENIED_IMPLICIT">>,
                <<"DENIED_IMPLICIT", "DENIED_IMPLICIT">>, <<"ERROR_TRANSIENT", "ERROR_TRANSIENT">>}
MCOtherRows == {<<"DENIED_IMPLICIT", "DENIED_IMPLICIT">>}
MCWindows == {{}, 1..2, 2..3}
=============================================================================
