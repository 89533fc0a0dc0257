---------------------------- MODULE EvidenceStore ----------------------------
(***************************************************************************)
(* The runs directory and the commands that share it: `run` writes and     *)
(* seals a bundle, `analyze` puts findings and scores beside it, `evidence *)
(* export --public` makes a scrubbed copy next to it, `runs reindex`       *)
(* rebuilds the index from whatever it finds.  They are processes of their *)
(* own, nothing locks the directory, and any of them can be killed.        *)
(*                                                                         *)
(* A file's bytes are abstracted to what went into it, so a SHA-256 is the *)
(* contents themselves.  write_text truncates the file first: between that *)
(* and its end the file is Torn.                                           *)
(***************************************************************************)
EXTENDS Naturals, Sequences, FiniteSets, SequencesExt

CONSTANTS
  Runs,          (* run ids, in the order of their ULIDs                    *)
  Streams,       (* the .jsonl artifacts                                    *)
  Documents,     (* scenario, environment, graph: in the order written      *)
  ArtifactNames, (* ARTIFACT_NAMES                                          *)
  MaxRows,       (* bound: rows of one stream, by run                       *)
  MaxEdits,      (* bound: artifacts changed behind the program's back      *)
  Handled,       (* bound: the runs that are analyzed, exported or spoilt   *)
  MaxCommands    (* bound: analyze, export and reindex commands started     *)

Artifacts == ToSet(ArtifactNames)
(* Mutant: the manifest is copied first.                                    *)
PublicNamesManifestFirst == <<"manifest.json">> \o ArtifactNames \o <<"findings.json", "scores.json">>

PublicNames == ArtifactNames \o <<"manifest.json", "findings.json", "scores.json">>
Names == ToSet(PublicNames)

ASSUME StoreConstants ==
  /\ Runs \subseteq Nat /\ Handled \subseteq Runs
  /\ MaxRows \in [Runs -> Nat] /\ MaxEdits \in Nat /\ MaxCommands \in Nat
  /\ ArtifactNames \in Seq(STRING) /\ Documents \in Seq(STRING)
  /\ Artifacts = Streams \union ToSet(Documents) /\ Streams \intersect ToSet(Documents) = {}
  /\ {"manifest.json", "findings.json", "scores.json"} \intersect Artifacts = {}

(* <runs_root>/<run_id> and <runs_root>/<run_id>-public.                    *)
Dirs == [run : Runs, public : BOOLEAN]
Home(r) == [run |-> r, public |-> FALSE]
Public(r) == [run |-> r, public |-> TRUE]

(* sorted(): a run's copy comes right after the run.                        *)
Before(d, e) == d.run < e.run \/ (d.run = e.run /\ ~d.public /\ e.public)

VARIABLES
  disk,      (* what each directory holds, by file name                     *)
  writer,    (* BundleWriter of each run: pc, _counts, the manifest built,  *)
             (* and whether the run raised                                  *)
  analyzer,  (* the one `analyze` command: pc, run, what it read and found  *)
  exporter,  (* the one `export` command: pc, run, position in PublicNames  *)
  reindexer, (* the one `reindex` command: pc, directories left, rows, and  *)
             (* what was sealed and what was spoilt when it began           *)
  index,     (* the committed runs table                                    *)
  edits,     (* artifacts changed so far                                    *)
  commands   (* analyze, export and reindex commands started so far         *)

vars == <<disk, writer, analyzer, exporter, reindexer, index, edits, commands>>

Absent == [is |-> "absent"]
Torn == [is |-> "torn"]
Whole(x) == [is |-> "whole", of |-> x]
IsWhole(file) == file.is = "whole"

(* marked: something export has to scrub is in it.                          *)
Content == [rows : Nat, marked : BOOLEAN, edited : BOOLEAN]
Empty == [rows |-> 0, marked |-> FALSE, edited |-> FALSE]
Scrub(file) == IF IsWhole(file) /\ "marked" \in DOMAIN file.of
                 THEN Whole([file.of EXCEPT !.marked = FALSE]) ELSE file

(* Nothing reads the conclusions of a copy but to see that they parse.      *)
Scrubbed(name, file) ==
  IF IsWhole(file) /\ name \in {"findings.json", "scores.json"} THEN Whole("copied") ELSE Scrub(file)

Manifest(d) == disk[d]["manifest.json"]
Contents(d) == [a \in Artifacts |-> disk[d][a]]
Exists(d) == \E n \in Names: disk[d][n] # Absent

(* manifest.verify.                                                         *)
Verified(d) == IsWhole(Manifest(d)) /\ Contents(d) = Manifest(d).of.hashes

Put(d, name, file) == disk' = [disk EXCEPT ![d][name] = file]

NoManifest == [run |-> 0]
NoAnalysis == [pc |-> "idle"]
NoExport == [pc |-> "idle"]
NoRows == [r \in {} |-> 0]
Idle(due, spoilt) == [pc |-> "idle", todo |-> {}, rows |-> NoRows, due |-> due, spoilt |-> spoilt]

Init ==
  /\ disk = [d \in Dirs |-> [n \in Names |-> Absent]]
  /\ writer = [r \in Runs |-> [pc |-> "none", counts |-> [s \in Streams |-> 0], built |-> NoManifest,
                             raised |-> FALSE]]
  /\ analyzer = NoAnalysis
  /\ exporter = NoExport
  /\ reindexer = Idle({}, {})
  /\ index = NoRows
  /\ edits = 0
  /\ commands = 0

-----------------------------------------------------------------------------
(* run                                                                      *)

At(r, pc) == writer[r].pc = pc
Goto(r, pc) == writer' = [writer EXCEPT ![r].pc = pc]
OnlyWriter == UNCHANGED <<analyzer, exporter, reindexer, index, edits, commands>>

(* BundleWriter.__init__: a new directory with four empty streams.          *)
StartRun(r) ==
  /\ At(r, "none")
  /\ disk' = [disk EXCEPT ![Home(r)] = [n \in Names |-> IF n \in Streams THEN Whole(Empty) ELSE @[n]]]
  /\ Goto(r, "documents")
  /\ OnlyWriter

(* write_scenario, write_environment, write_graph.  Identifiers for export  *)
(* to scrub are put in the documents of a handled run only.                 *)
WriteDocument(r) ==
  /\ At(r, "documents")
  /\ \E k \in DOMAIN Documents, m \in BOOLEAN:
       /\ m => r \in Handled
       /\ disk[Home(r)][Documents[k]] = Absent
       /\ \A j \in 1 .. k - 1: disk[Home(r)][Documents[j]] # Absent
       /\ Put(Home(r), Documents[k], Whole([Empty EXCEPT !.marked = m]))
       /\ IF k = Len(Documents) THEN Goto(r, "rows") ELSE UNCHANGED writer
  /\ OnlyWriter

(* _append_jsonl writes a line and flushes it before the row counts.        *)
WriteLine(r, s) ==
  /\ writer[r].counts[s] < MaxRows[r]
  /\ Put(Home(r), s, Whole([disk[Home(r)][s].of EXCEPT !.rows = @ + 1]))
  /\ writer' = [writer EXCEPT ![r].counts[s] = @ + 1]
  /\ OnlyWriter

(* Mutant: a closed writer still takes rows.                                *)
AppendRowUnclosed(r) == writer[r].pc \in {"rows", "done"} /\ \E s \in Streams: WriteLine(r, s)

AppendRow(r) == At(r, "rows") /\ \E s \in Streams: WriteLine(r, s)

(* Mutant: finalize is called although the run raised.                      *)
RunRaisesButSeals(r) ==
  /\ writer[r].pc \in {"documents", "rows", "seal", "manifest"}
  /\ writer' = [writer EXCEPT ![r].raised = TRUE, ![r].pc = IF @ = "rows" THEN "seal" ELSE "ended"]
  /\ UNCHANGED disk /\ OnlyWriter

(* The run, or redact(), raises; __exit__ closes the streams and seals      *)
(* nothing.                                                                 *)
RunRaises(r) ==
  /\ writer[r].pc \in {"documents", "rows", "seal", "manifest"}
  /\ writer' = [writer EXCEPT ![r].raised = TRUE, ![r].pc = "ended"]
  /\ UNCHANGED disk /\ OnlyWriter

KillRun(r) ==
  /\ writer[r].pc \in {"documents", "rows", "seal", "manifest"}
  /\ Goto(r, "ended")
  /\ UNCHANGED disk /\ OnlyWriter

(* finalize on a clean completion: close, then hash every artifact.         *)
CloseStreams(r) ==
  /\ At(r, "rows")
  /\ Goto(r, "seal")
  /\ UNCHANGED disk /\ OnlyWriter

Seal(r) ==
  /\ At(r, "seal")
  /\ \A a \in Artifacts: disk[Home(r)][a] # Absent
  /\ writer' = [writer EXCEPT ![r].pc = "manifest",
                  ![r].built = [run |-> r, counts |-> writer[r].counts, hashes |-> Contents(Home(r))]]
  /\ Put(Home(r), "manifest.json", Torn)
  /\ OnlyWriter

WriteManifest(r) ==
  /\ At(r, "manifest")
  /\ Put(Home(r), "manifest.json", Whole(writer[r].built))
  /\ Goto(r, "done")
  /\ OnlyWriter

(* A sealed artifact changes: a faulty disk, an editor, a sync tool.        *)
(* Streams stand for all artifacts here.                                    *)
Edit(r) ==
  /\ r \in Handled /\ edits < MaxEdits /\ IsWhole(Manifest(Home(r)))
  /\ \E s \in Streams: disk' = [disk EXCEPT ![Home(r)][s].of.edited = TRUE]
  /\ edits' = edits + 1
  /\ UNCHANGED <<writer, analyzer, exporter, reindexer, index, commands>>

-----------------------------------------------------------------------------
(* A command starts: a process of its own, reading before it writes.        *)
Launch == commands < MaxCommands /\ commands' = commands + 1 /\ UNCHANGED <<disk, writer, edits>>

(* analyze                                                                  *)

OnlyAnalyzer == UNCHANGED <<writer, exporter, reindexer, index, edits, commands>>
Subject == Home(analyzer.run)

(* Mutant: a bundle without a manifest is analyzed too.                     *)
ReadUnsealedBundle(r, allow) ==
  /\ analyzer = NoAnalysis /\ Launch
  /\ \A a \in Artifacts: disk[Home(r)][a] # Absent
  /\ analyzer' = [pc |-> "verify", run |-> r, allow_unsealed |-> allow, seen |-> Contents(Home(r))]
  /\ UNCHANGED <<exporter, reindexer, index>>

(* analyze_bundle reads the manifest, then every artifact.                  *)
ReadBundle(r, allow) ==
  /\ analyzer = NoAnalysis /\ Launch
  /\ IsWhole(Manifest(Home(r)))
  /\ analyzer' = [pc |-> "verify", run |-> r, allow_unsealed |-> allow, seen |-> Contents(Home(r))]
  /\ UNCHANGED <<exporter, reindexer, index>>

(* ... and verifies last of all, what it read being already in memory.      *)
Verify ==
  /\ analyzer.pc = "verify"
  /\ Verified(Subject) \/ analyzer.allow_unsealed
  /\ analyzer' = [pc |-> "findings", run |-> analyzer.run, seen |-> analyzer.seen,
                  verified |-> Verified(Subject)]
  /\ UNCHANGED disk /\ OnlyAnalyzer

RefuseFindings ==
  /\ analyzer.pc = "verify"
  /\ ~Verified(Subject) /\ ~analyzer.allow_unsealed
  /\ analyzer' = NoAnalysis
  /\ UNCHANGED disk /\ OnlyAnalyzer

Truncate(pc, name) ==
  /\ analyzer.pc = pc /\ disk[Subject][name] # Torn
  /\ Put(Subject, name, Torn)
  /\ UNCHANGED analyzer /\ OnlyAnalyzer

(* Mutant: the bundle is read again after it was verified.                  *)
WriteFindingsReread ==
  /\ analyzer.pc = "findings" /\ disk[Subject]["findings.json"] = Torn
  /\ Put(Subject, "findings.json",
         Whole([over |-> Contents(Subject), bundle_root_verified |-> analyzer.verified]))
  /\ analyzer' = [pc |-> "score", run |-> analyzer.run]
  /\ OnlyAnalyzer

WriteFindings ==
  /\ analyzer.pc = "findings" /\ disk[Subject]["findings.json"] = Torn
  /\ Put(Subject, "findings.json",
         Whole([over |-> analyzer.seen, bundle_root_verified |-> analyzer.verified]))
  /\ analyzer' = [pc |-> "score", run |-> analyzer.run]
  /\ OnlyAnalyzer

(* score_bundle reads the whole bundle again and looks at no verdict.       *)
ScoreBundle ==
  /\ analyzer.pc = "score"
  /\ analyzer' = [pc |-> "scores", run |-> analyzer.run, seen |-> Contents(Subject)]
  /\ UNCHANGED disk /\ OnlyAnalyzer

WriteScores ==
  /\ analyzer.pc = "scores" /\ disk[Subject]["scores.json"] = Torn
  /\ Put(Subject, "scores.json", Whole([over |-> analyzer.seen]))
  /\ analyzer' = NoAnalysis
  /\ OnlyAnalyzer

KillAnalysis ==
  /\ analyzer # NoAnalysis
  /\ analyzer' = NoAnalysis
  /\ UNCHANGED disk /\ OnlyAnalyzer

-----------------------------------------------------------------------------
(* evidence export --public                                                 *)

OnlyExporter == UNCHANGED <<writer, analyzer, reindexer, index, edits, commands>>
CopyName == PublicNames[exporter.next]
Source == disk[Home(exporter.run)][CopyName]

(* Refuses a bundle that does not verify.                                   *)
StartExport(r) ==
  /\ exporter = NoExport /\ Launch /\ Verified(Home(r))
  /\ exporter' = [pc |-> "next", run |-> r, next |-> 1]
  /\ UNCHANGED <<analyzer, reindexer, index>>

CopyDone == IF exporter.next = Len(PublicNames) THEN NoExport
            ELSE [pc |-> "next", run |-> exporter.run, next |-> exporter.next + 1]

SkipFile ==
  /\ exporter.pc = "next" /\ Source = Absent
  /\ exporter' = CopyDone
  /\ UNCHANGED disk /\ OnlyExporter

OpenCopy ==
  /\ exporter.pc = "next" /\ Source # Absent
  /\ exporter' = [pc |-> "copy", run |-> exporter.run, next |-> exporter.next, text |-> Scrubbed(CopyName, Source)]
  /\ Put(Public(exporter.run), CopyName, Torn)
  /\ OnlyExporter

FinishCopy ==
  /\ exporter.pc = "copy"
  /\ Put(Public(exporter.run), CopyName, exporter.text)
  /\ exporter' = CopyDone
  /\ OnlyExporter

KillExport ==
  /\ exporter # NoExport
  /\ exporter' = NoExport
  /\ UNCHANGED disk /\ OnlyExporter

-----------------------------------------------------------------------------
(* runs reindex                                                             *)

OnlyReindexer == UNCHANGED <<disk, writer, analyzer, exporter, edits, commands>>
Visited(d) == d \in reindexer.todo /\ \A e \in reindexer.todo \ {d}: Before(d, e)

(* The database is unlinked and created anew, then the directories listed.  *)
StartReindex ==
  /\ reindexer.pc = "idle" /\ Launch
  /\ index' = NoRows
  /\ reindexer' = [pc |-> "scan", todo |-> {d \in Dirs: Exists(d)}, rows |-> NoRows,
                   due |-> {r \in Runs: IsWhole(Manifest(Home(r)))},
                   spoilt |-> {r \in Runs: IsWhole(Manifest(Home(r))) /\ ~Verified(Home(r))}]
  /\ UNCHANGED <<analyzer, exporter>>

SkipDirectory(d) ==
  /\ Visited(d) /\ Manifest(d) = Absent
  /\ reindexer' = [reindexer EXCEPT !.todo = @ \ {d}]
  /\ UNCHANGED index /\ OnlyReindexer

(* INSERT ... ON CONFLICT(run_id) DO UPDATE: every column but bundle_path.  *)
Upsert(rows, r, d, verified) ==
  [x \in DOMAIN rows \union {r} |->
     IF x # r THEN rows[x]
     ELSE [bundle_path |-> IF r \in DOMAIN rows THEN rows[r].bundle_path ELSE d,
           root_verified |-> verified]]

Readable(d) == IsWhole(Manifest(d)) /\ disk[d]["findings.json"] # Torn

Indexed(d, verified) ==
  reindexer' = [reindexer EXCEPT !.todo = @ \ {d},
                  !.rows = Upsert(@, Manifest(d).of.run, d, verified)]

(* Mutant: a sealed bundle counts as verified.                              *)
IndexBundleUnverified(d) ==
  /\ Visited(d) /\ Readable(d)
  /\ Indexed(d, TRUE)
  /\ UNCHANGED index /\ OnlyReindexer

IndexBundle(d) ==
  /\ Visited(d) /\ Readable(d)
  /\ Indexed(d, Verified(d))
  /\ UNCHANGED index /\ OnlyReindexer

(* Mutant: the scan is left where it stopped.                               *)
UnreadableBundleResumed(d) ==
  /\ Visited(d)
  /\ Manifest(d) # Absent /\ ~Readable(d)
  /\ reindexer' = [reindexer EXCEPT !.pc = "idle"]
  /\ UNCHANGED index /\ OnlyReindexer

(* read_manifest or read_findings raises and the rows are rolled back.      *)
UnreadableBundle(d) ==
  /\ Visited(d)
  /\ Manifest(d) # Absent /\ ~Readable(d)
  /\ reindexer' = Idle({}, {})
  /\ UNCHANGED index /\ OnlyReindexer

CommitIndex ==
  /\ reindexer.pc = "scan" /\ reindexer.todo = {}
  /\ index' = reindexer.rows
  /\ reindexer' = Idle(reindexer.due, reindexer.spoilt)
  /\ OnlyReindexer

KillReindex ==
  /\ reindexer.pc = "scan"
  /\ reindexer' = Idle({}, {})
  /\ UNCHANGED index /\ OnlyReindexer

-----------------------------------------------------------------------------

RunStep(r) ==
  StartRun(r) \/ WriteDocument(r) \/ AppendRow(r) \/ CloseStreams(r) \/ Seal(r) \/ WriteManifest(r)
  \/ RunRaises(r) \/ KillRun(r)

AnalyzeStep ==
  \/ \E r \in Handled, allow \in BOOLEAN: ReadBundle(r, allow)
  \/ Verify \/ RefuseFindings
  \/ Truncate("findings", "findings.json") \/ WriteFindings
  \/ ScoreBundle
  \/ Truncate("scores", "scores.json") \/ WriteScores
  \/ KillAnalysis

ExportStep ==
  (\E r \in Handled: StartExport(r)) \/ SkipFile \/ OpenCopy \/ FinishCopy \/ KillExport

ReindexStep ==
  \/ StartReindex \/ CommitIndex \/ KillReindex
  \/ \E d \in reindexer.todo: SkipDirectory(d) \/ IndexBundle(d) \/ UnreadableBundle(d)

Next ==
  \/ \E r \in Runs: RunStep(r) \/ Edit(r)
  \/ AnalyzeStep \/ ExportStep \/ ReindexStep

Spec == Init /\ [][Next]_vars
-----------------------------------------------------------------------------
(* Properties                                                               *)

Snapshot(over) == \A a \in Artifacts: IsWhole(over[a]) /\ over[a].of \in Content

(* The type invariant: what each file may hold, and that a command which is *)
(* not running holds nothing.                                               *)
TypeOK ==
  /\ \A d \in Dirs:
       /\ \A a \in Artifacts: IsWhole(disk[d][a]) => disk[d][a].of \in Content
       /\ IsWhole(Manifest(d)) => Manifest(d).of.run = d.run /\ Snapshot(Manifest(d).of.hashes)
       /\ IsWhole(disk[d]["findings.json"]) =>
            IF d.public THEN disk[d]["findings.json"].of = "copied"
            ELSE disk[d]["findings.json"].of.bundle_root_verified \in BOOLEAN
  /\ \A r \in Runs: writer[r].counts \in [Streams -> 0 .. MaxRows[r]]
  /\ reindexer.pc \in {"idle", "scan"} /\ (reindexer.pc = "idle" => reindexer.todo = {})
  /\ exporter # NoExport => exporter.next \in DOMAIN PublicNames
  /\ DOMAIN index \subseteq Runs /\ edits \in 0 .. MaxEdits /\ commands \in 0 .. MaxCommands

Edited(r) == \E a \in Artifacts: IsWhole(disk[Home(r)][a]) /\ disk[Home(r)][a].of.edited

(* A snapshot that lacks nothing of what the run wrote.                     *)
Complete(r, over) ==
  /\ \A k \in DOMAIN Documents: IsWhole(over[Documents[k]])
  /\ \A s \in Streams: IsWhole(over[s]) /\ over[s].of.rows = writer[r].counts[s]

(* A manifest is found only beside the evidence of a run that came to its   *)
(* end: it hashes every document and every row the run had written, and it  *)
(* verifies until an artifact is changed (BundleWriter.finalize, seal).     *)
SealedIsComplete ==
  \A r \in Runs:
    IsWhole(Manifest(Home(r))) =>
      /\ At(r, "done") /\ ~writer[r].raised
      /\ Complete(r, Manifest(Home(r)).of.hashes)
      /\ Verified(Home(r)) \/ Edited(r)

(* Once sealed, no command touches an artifact, a manifest included         *)
(* (_append_jsonl after close, analyze writing beside the artifacts only).  *)
SealedIsFinal ==
  [][\A r \in Runs:
       IsWhole(Manifest(Home(r))) /\ edits' = edits =>
         /\ Manifest(Home(r))' = Manifest(Home(r))
         /\ Contents(Home(r))' = Contents(Home(r))]_vars

(* Findings that say the root verified were computed from the artifacts     *)
(* that were sealed, whatever changed while `analyze` was at work: it       *)
(* verifies after it has read (pipeline.py analyze_bundle).                 *)
VerifiedFindingsAreSealed ==
  \A r \in Runs:
    LET f == disk[Home(r)]["findings.json"] IN
    IsWhole(f) /\ f.of.bundle_root_verified => f.of.over = Manifest(Home(r)).of.hashes

(* Nothing is concluded from half a run: findings and scores, even those    *)
(* made with --allow-unsealed, rest on every row the run wrote.             *)
ConclusionsSeeTheWholeRun ==
  \A r \in Runs, name \in {"findings.json", "scores.json"}:
    IsWhole(disk[Home(r)][name]) => Complete(r, disk[Home(r)][name].of.over)

(* A public copy that other commands take for a bundle, for it has a        *)
(* manifest, has every artifact, wherever the export was killed             *)
(* (export_public copies the manifest after the artifacts).                 *)
CopyIsWhole ==
  \A r \in Runs:
    Manifest(Public(r)) # Absent => \A a \in Artifacts: disk[Public(r)][a] # Absent

(* The index is empty or whole, wherever the scan failed or was killed; for *)
(* a run without a public copy it calls the root verified only if the       *)
(* bundle was not already spoilt when the scan began, and never calls an    *)
(* untouched bundle unverified (reindex, upsert_run).                       *)
IndexVouchesTruly ==
  /\ DOMAIN index # {} => reindexer.due \subseteq DOMAIN index
  /\ \A r \in DOMAIN index:
       Manifest(Public(r)) = Absent =>
         /\ index[r].root_verified => r \notin reindexer.spoilt
         /\ ~index[r].root_verified => Edited(r)

=============================================================================
