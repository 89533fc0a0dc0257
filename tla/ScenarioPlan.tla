---------------------------- MODULE ScenarioPlan ----------------------------
(***************************************************************************)
(* build_plan of scenarios/plan.py: document order is execution order, and *)
(* a SNAPSHOT is inserted right before and right after every MUTATE.       *)
(***************************************************************************)
EXTENDS Sequences, SequencesExt

Snapshot == [kind |-> "SNAPSHOT"]

BuildPlan(phases) ==
  FlattenSeq([i \in DOMAIN phases |->
                IF phases[i].kind = "MUTATE"
                THEN <<Snapshot, phases[i], Snapshot>>
                ELSE <<phases[i]>>])

=============================================================================
