--------------------------- MODULE MCEvidenceStore ---------------------------
(***************************************************************************)
(* Two runs, so that an index can be half built; one of them is analyzed   *)
(* and exported; one stream and one document, so that a copy can be half   *)
(* made.                                                                   *)
(***************************************************************************)
EXTENDS EvidenceStore

MCRuns == 1 .. 2
MCStreams == {"observations.jsonl"}
MCDocuments == <<"graph.json">>
MCArtifactNames == <<"observations.jsonl", "graph.json">>
MCOneRun == {1}
MCMaxRows == <<1, 0>>
=============================================================================
