------------------------ MODULE EvidenceStoreProofs -------------------------
(***************************************************************************)
(* Proofs about EvidenceStore, for every set of runs, streams and          *)
(* documents and every bound.  The invariant is stated by owner: what the  *)
(* run that writes a bundle keeps, what `analyze` may conclude from it,    *)
(* what `export` copies and what `reindex` may enter.                      *)
(***************************************************************************)
EXTENDS EvidenceStore, TLAPS

(***************************************************************************)
(* The inductive invariant.                                                *)
(***************************************************************************)

WholeFile == [is : {"whole"}, of : Content]
Manifests == [run : Runs, counts : [Streams -> Nat], hashes : [Artifacts -> WholeFile]]
Points == {"none", "documents", "rows", "seal", "manifest", "done", "ended"}
Done(r) == At(r, "done")

Shape ==
  /\ DOMAIN disk = Dirs /\ \A d \in Dirs: DOMAIN disk[d] = Names
  /\ writer \in [Runs -> [pc : Points, counts : [Streams -> Nat], built : {NoManifest} \union Manifests,
                          raised : BOOLEAN]]
  /\ edits \in 0 .. MaxEdits /\ commands \in 0 .. MaxCommands

(* An artifact of the home directory is what was hashed, or was edited     *)
(* since.                                                                  *)
SameOrEdited(r, over) ==
  \A a \in Artifacts: disk[Home(r)][a] = over[a] \/ (IsWhole(disk[Home(r)][a]) /\ disk[Home(r)][a].of.edited)

(* The run's own directory: its streams hold as many rows as were counted, *)
(* and nothing is torn, or edited before the manifest is whole.            *)
EvidenceInv(r) ==
  LET home == disk[Home(r)] counts == writer[r].counts IN
  /\ \A a \in Artifacts: home[a] \in {Absent} \union WholeFile
  /\ \A s \in Streams: counts[s] <= MaxRows[r]
  /\ \A s \in Streams: ~At(r, "none") => home[s] \in WholeFile /\ home[s].of.rows = counts[s]
  /\ At(r, "none") => \A s \in Streams: counts[s] = 0
  /\ Done(r) \/ ~Edited(r)

(* The manifest is where the writer's position says it is, and what it     *)
(* hashes is all of the run.                                               *)
SealInv(r) ==
  LET w == writer[r] IN
  /\ w.raised => At(r, "ended")
  /\ w.pc \in {"none", "documents", "rows", "seal"} => Manifest(Home(r)) = Absent
  /\ At(r, "manifest") => Manifest(Home(r)) = Torn
  /\ At(r, "ended") => Manifest(Home(r)) \in {Absent, Torn}
  /\ Done(r) => Manifest(Home(r)) = Whole(w.built)
  /\ w.pc \in {"manifest", "done"} =>
       /\ w.built \in Manifests /\ w.built.run = r
       /\ \A a \in Artifacts: ~w.built.hashes[a].of.edited
       /\ Complete(r, w.built.hashes)
       /\ SameOrEdited(r, w.built.hashes)

RunInv(r) == EvidenceInv(r) /\ SealInv(r)

(* The analyzer works on a sealed bundle and holds all of it; the          *)
(* conclusions it left were drawn from a whole run.                        *)
AnalyzerInv ==
  analyzer # NoAnalysis =>
    /\ analyzer.run \in Runs /\ Done(analyzer.run)
    /\ analyzer.pc \in {"verify", "findings", "score", "scores"}
    /\ analyzer.pc # "score" =>
         analyzer.seen \in [Artifacts -> WholeFile] /\ Complete(analyzer.run, analyzer.seen)
    /\ analyzer.pc = "verify" => SameOrEdited(analyzer.run, analyzer.seen)
    /\ analyzer.pc = "findings" =>
         /\ analyzer.verified \in BOOLEAN
         /\ analyzer.verified => analyzer.seen = writer[analyzer.run].built.hashes

ConclusionInv(r) ==
  LET findings == disk[Home(r)]["findings.json"] scores == disk[Home(r)]["scores.json"] IN
  /\ IsWhole(findings) =>
       /\ Done(r) /\ findings.of.bundle_root_verified \in BOOLEAN
       /\ Complete(r, findings.of.over)
       /\ findings.of.bundle_root_verified => findings.of.over = writer[r].built.hashes
  /\ IsWhole(scores) => Done(r) /\ Complete(r, scores.of.over)

(* The artifacts before the exporter's position are in the copy.           *)
ExporterInv ==
  exporter # NoExport =>
    LET r == exporter.run copy == disk[Public(exporter.run)] IN
    /\ r \in Runs /\ Done(r)
    /\ exporter.pc \in {"next", "copy"} /\ exporter.next \in DOMAIN PublicNames
    /\ \A j \in DOMAIN ArtifactNames: j < exporter.next => copy[ArtifactNames[j]] # Absent
    /\ exporter.pc = "copy" =>
         /\ exporter.text # Absent /\ copy[CopyName] # Absent
         /\ CopyName \in Artifacts => exporter.text \in WholeFile
         /\ CopyName = "manifest.json" => exporter.text = Whole(writer[r].built)
         /\ CopyName = "findings.json" /\ IsWhole(exporter.text) => exporter.text.of = "copied"

CopyInv(r) ==
  LET copy == disk[Public(r)] IN
  /\ \A a \in Artifacts: copy[a] \in {Absent, Torn} \union WholeFile
  /\ copy["manifest.json"] \in {Absent, Torn} \/ (Done(r) /\ copy["manifest.json"] = Whole(writer[r].built))
  /\ copy["manifest.json"] # Absent => \A a \in Artifacts: copy[a] # Absent
  /\ IsWhole(copy["findings.json"]) => copy["findings.json"].of = "copied"

Row == [bundle_path : Dirs, root_verified : BOOLEAN]
Tables == UNION {[X -> Row] : X \in SUBSET Runs}

(* What a row says of a run without a public copy.                         *)
TrueRows(rows) ==
  \A r \in DOMAIN rows:
    Manifest(Public(r)) = Absent =>
      /\ rows[r].root_verified => r \notin reindexer.spoilt
      /\ ~rows[r].root_verified => Edited(r)

(* A run that was sealed when the scan began has its row, or its directory *)
(* is yet to be visited; what was spoilt stays edited.                     *)
IndexInv ==
  /\ reindexer \in [pc : {"idle", "scan"}, todo : SUBSET Dirs, rows : Tables, due : SUBSET Runs,
                    spoilt : SUBSET Runs]
  /\ index \in Tables
  /\ \A r \in reindexer.due: Done(r)
  /\ \A r \in reindexer.spoilt: Edited(r)
  /\ TrueRows(index) /\ TrueRows(reindexer.rows)
  /\ reindexer.pc = "idle" => reindexer.todo = {} /\ (DOMAIN index # {} => reindexer.due \subseteq DOMAIN index)
  /\ reindexer.pc = "scan" =>
       /\ DOMAIN index = {}
       /\ \A r \in reindexer.due: r \in DOMAIN reindexer.rows \/ Home(r) \in reindexer.todo

BundleInv == Shape /\ \A r \in Runs: RunInv(r)
CommandInv ==
  AnalyzerInv /\ ExporterInv /\ IndexInv /\ \A r \in Runs: ConclusionInv(r) /\ CopyInv(r)
IInv == BundleInv /\ CommandInv

(***************************************************************************)
(* Directories and names.                                                  *)
(***************************************************************************)

(* A directory is the home or the copy of one run.                         *)
LEMMA Places ==
  /\ \A r \in Runs: Home(r) \in Dirs /\ Public(r) \in Dirs
  /\ \A r, s \in Runs: Home(r) # Public(s) /\ (r # s => Home(r) # Home(s) /\ Public(r) # Public(s))
  /\ \A d \in Dirs: d.run \in Runs /\ (d = Home(d.run) \/ d = Public(d.run))
BY DEF Dirs, Home, Public

(* The copy takes the artifacts first, the manifest next, the conclusions  *)
(* last.                                                                   *)
LEMMA CopyOrder ==
  /\ Len(ArtifactNames) \in Nat /\ DOMAIN ArtifactNames = 1 .. Len(ArtifactNames)
  /\ Len(PublicNames) = Len(ArtifactNames) + 3 /\ DOMAIN PublicNames = 1 .. Len(ArtifactNames) + 3
  /\ \A k \in DOMAIN ArtifactNames: PublicNames[k] = ArtifactNames[k] /\ PublicNames[k] \in Artifacts
  /\ PublicNames[Len(ArtifactNames) + 1] = "manifest.json"
  /\ PublicNames[Len(ArtifactNames) + 2] = "findings.json"
  /\ PublicNames[Len(ArtifactNames) + 3] = "scores.json"
<1>1. ArtifactNames \in Seq(STRING)
  BY StoreConstants
<1>2. \A k \in DOMAIN ArtifactNames: ArtifactNames[k] \in Artifacts
  BY DEF Artifacts, ToSet
<1>3. QED
  BY <1>1, <1>2 DEF PublicNames

\* Which files a bundle has, and of what kind they are.
LEMMA Files ==
  /\ Artifacts \subseteq Names /\ Streams \subseteq Artifacts
  /\ {"manifest.json", "findings.json", "scores.json"} \subseteq Names
  /\ {"manifest.json", "findings.json", "scores.json"} \intersect Artifacts = {}
  /\ \A k \in DOMAIN Documents: Documents[k] \in Artifacts /\ Documents[k] \notin Streams
  /\ \A a \in Artifacts: a \in Streams \/ \E k \in DOMAIN Documents: a = Documents[k]
  /\ \A a \in Artifacts: \E k \in DOMAIN ArtifactNames: a = ArtifactNames[k]
  /\ \A k \in DOMAIN PublicNames: PublicNames[k] \in Names
<1>1. \A k \in DOMAIN PublicNames: PublicNames[k] \in Names
  BY DEF Names, ToSet
<1>2. \A a \in Artifacts: \E k \in DOMAIN ArtifactNames: a = ArtifactNames[k]
  BY DEF Artifacts, ToSet
<1>3. Artifacts \subseteq Names
  BY <1>1, <1>2, CopyOrder
<1>4. {"manifest.json", "findings.json", "scores.json"} \subseteq Names
  BY <1>1, CopyOrder
<1>5. /\ \A k \in DOMAIN Documents: Documents[k] \in ToSet(Documents)
      /\ \A a \in ToSet(Documents): \E k \in DOMAIN Documents: a = Documents[k]
  BY DEF ToSet
<1>6. QED
  BY <1>1, <1>2, <1>3, <1>4, <1>5, StoreConstants

(* Putting a file touches that file alone.                                 *)
LEMMA PutFrame ==
  ASSUME Shape, NEW d \in Dirs, NEW name \in Names, NEW file, Put(d, name, file)
  PROVE  /\ DOMAIN disk' = Dirs /\ \A e \in Dirs: DOMAIN disk'[e] = Names
         /\ disk'[d][name] = file
         /\ \A n \in Names \ {name}: disk'[d][n] = disk[d][n]
         /\ \A e \in Dirs \ {d}: disk'[e] = disk[e]
BY DEF Shape, Put

(* A writer moves on, and changes nothing else of its own or of another's. *)
LEMMA GotoFrame ==
  ASSUME Shape, NEW r \in Runs, NEW pc \in Points, Goto(r, pc)
  PROVE  /\ writer' \in [Runs -> [pc : Points, counts : [Streams -> Nat], built : {NoManifest} \union Manifests,
                                 raised : BOOLEAN]]
         /\ \A q \in Runs \ {r}: writer'[q] = writer[q]
         /\ writer'[r] = [writer[r] EXCEPT !.pc = pc]
         /\ writer'[r].pc = pc /\ writer'[r].counts = writer[r].counts
         /\ writer'[r].built = writer[r].built /\ writer'[r].raised = writer[r].raised
<1> DEFINE W == [pc : Points, counts : [Streams -> Nat], built : {NoManifest} \union Manifests,
                 raised : BOOLEAN]
<1>1. writer \in [Runs -> W]
  BY DEF Shape
<1>2. [writer[r] EXCEPT !.pc = pc] \in W
  BY <1>1
<1>3. writer' = [writer EXCEPT ![r] = [writer[r] EXCEPT !.pc = pc]]
  BY DEF Goto
<1>4. QED
  BY <1>1, <1>2, <1>3

(* What a file is decides whether it is whole.                             *)
LEMMA Kinds ==
  /\ ~IsWhole(Absent) /\ ~IsWhole(Torn) /\ Absent # Torn
  /\ \A x: IsWhole(Whole(x)) /\ Whole(x).of = x /\ Whole(x) # Absent /\ Whole(x) # Torn
  /\ \A f \in WholeFile: IsWhole(f) /\ f.of \in Content /\ f # Absent /\ f # Torn /\ f = Whole(f.of)
  /\ \A c \in Content: Whole(c) \in WholeFile
BY DEF IsWhole, Absent, Torn, Whole, WholeFile

(* Writing over a field of a file that is whole leaves it whole.           *)
LEMMA Rewrites ==
  /\ \A m \in BOOLEAN: LET c == [Empty EXCEPT !.marked = m] IN c \in Content /\ ~c.edited
  /\ \A f \in WholeFile, b \in BOOLEAN:
       LET g == [f EXCEPT !.of = [f.of EXCEPT !.edited = b]] IN
       g \in WholeFile /\ (g.of.edited <=> b) /\ g.of.rows = f.of.rows
BY DEF Empty, Content, WholeFile

(***************************************************************************)
(* The run and its directory.                                              *)
(***************************************************************************)

\* The invariant holds of an empty store.
LEMMA InitInv == Init => IInv
<1> SUFFICES ASSUME Init PROVE IInv
  OBVIOUS
<1>1. Shape
  BY StoreConstants DEF Init, Shape, Points, NoManifest
<1>2. \A d \in Dirs, n \in Names: disk[d][n] = Absent
  BY DEF Init
<1>3. \A r \in Runs: RunInv(r)
  BY <1>2, Places, Files, Kinds, StoreConstants
     DEF Init, RunInv, EvidenceInv, SealInv, At, Done, Edited, Manifest
<1>4. AnalyzerInv /\ ExporterInv
  BY DEF Init, AnalyzerInv, ExporterInv
<1>5. \A r \in Runs: ConclusionInv(r) /\ CopyInv(r)
  BY <1>2, Places, Files, Kinds DEF ConclusionInv, CopyInv
<1>6. DOMAIN NoRows = {} /\ NoRows \in [{} -> Row]
  BY DEF NoRows
<1>7. NoRows \in Tables
  BY <1>6 DEF Tables
<1>8. IndexInv
  BY <1>6, <1>7 DEF Init, IndexInv, Idle, TrueRows
<1>9. QED
  BY <1>1, <1>3, <1>4, <1>5, <1>8 DEF IInv, BundleInv, CommandInv

(* What a run is concerned with: its writer, its artifacts, its manifest.  *)
LEMMA RunFrame ==
  ASSUME NEW r \in Runs, RunInv(r), writer'[r] = writer[r],
         \A n \in Artifacts \union {"manifest.json"}: disk'[Home(r)][n] = disk[Home(r)][n]
  PROVE  RunInv(r)'
<1> DEFINE home == disk[Home(r)]
<1>1. \A a \in Artifacts: home'[a] = home[a]
  OBVIOUS
<1>2. Manifest(Home(r))' = Manifest(Home(r))
  BY DEF Manifest
<1>3. (Edited(r)' <=> Edited(r)) /\ (Done(r)' <=> Done(r)) /\ \A pc: At(r, pc)' <=> At(r, pc)
  BY <1>1 DEF Edited, Done, At
<1>4. \A over: /\ Complete(r, over)' <=> Complete(r, over)
               /\ SameOrEdited(r, over)' <=> SameOrEdited(r, over)
  BY <1>1 DEF Complete, SameOrEdited
<1>5. QED
  BY <1>1, <1>2, <1>3, <1>4, Files DEF RunInv, EvidenceInv, SealInv

(* A step of one run leaves the others, every copy and every conclusion as *)
(* they were.                                                              *)
LEMMA OneRunMoves ==
  ASSUME Shape, \A q \in Runs: RunInv(q), NEW r \in Runs, RunStep(r) \/ Edit(r)
  PROVE  /\ Shape'
         /\ \A q \in Runs \ {r}: writer'[q] = writer[q] /\ disk'[Home(q)] = disk[Home(q)]
         /\ \A q \in Runs: disk'[Public(q)] = disk[Public(q)]
         /\ \A q \in Runs, n \in {"findings.json", "scores.json"}: disk'[Home(q)][n] = disk[Home(q)][n]
<1> USE Places, Files DEF OnlyWriter
<1> DEFINE Frame ==
      /\ \A q \in Runs \ {r}: disk'[Home(q)] = disk[Home(q)]
      /\ \A q \in Runs: disk'[Public(q)] = disk[Public(q)]
      /\ \A q \in Runs, n \in {"findings.json", "scores.json"}: disk'[Home(q)][n] = disk[Home(q)][n]
      /\ DOMAIN disk' = Dirs /\ \A d \in Dirs: DOMAIN disk'[d] = Names
<1> DEFINE W == [pc : Points, counts : [Streams -> Nat], built : {NoManifest} \union Manifests,
                 raised : BOOLEAN]
<1> DEFINE Writers == writer' \in [Runs -> W] /\ \A q \in Runs \ {r}: writer'[q] = writer[q]
<1>0. writer \in [Runs -> W]
  BY DEF Shape
<1>a. ASSUME UNCHANGED disk PROVE Frame
  BY <1>a DEF Shape
<1>b. ASSUME NEW n \in Artifacts \union {"manifest.json"}, NEW file, Put(Home(r), n, file) PROVE Frame
  BY <1>b, PutFrame
<1>c. \A pc \in Points: Goto(r, pc) => Writers
  BY GotoFrame
<1>1. CASE StartRun(r)
  <2>1. Frame
    BY <1>1 DEF StartRun, Shape
  <2>2. QED
    BY <1>1, <1>c, <2>1 DEF StartRun, Shape, Points
<1>2. CASE WriteDocument(r)
  <2>1. Frame
    BY <1>2, <1>b DEF WriteDocument
  <2>2. Writers
    BY <1>0, <1>2, <1>c DEF WriteDocument, Points
  <2>3. QED
    BY <1>2, <2>1, <2>2 DEF WriteDocument, Shape
<1>3. CASE AppendRow(r)
  <2>1. PICK s \in Streams: WriteLine(r, s)
    BY <1>3 DEF AppendRow
  <2>2. Frame
    BY <2>1, <1>b DEF WriteLine
  <2>3. [writer[r] EXCEPT !.counts[s] = @ + 1] \in W
    BY <1>0
  <2>4. writer' = [writer EXCEPT ![r] = [writer[r] EXCEPT !.counts[s] = @ + 1]]
    BY <2>1 DEF WriteLine
  <2>5. QED
    BY <1>0, <2>1, <2>2, <2>3, <2>4 DEF WriteLine, Shape
<1>4. CASE CloseStreams(r) \/ KillRun(r)
  BY <1>4, <1>a, <1>c DEF CloseStreams, KillRun, Shape, Points
<1>5. CASE RunRaises(r)
  <2>1. [writer[r] EXCEPT !.raised = TRUE, !.pc = "ended"] \in W
    <3>1. [writer[r] EXCEPT !.raised = TRUE] \in W
      <4>1. \A b \in BOOLEAN: [writer[r] EXCEPT !.raised = b] \in W
        BY <1>0
      <4>2. QED
        BY <4>1, Zenon
    <3>2. "ended" \in Points
      BY DEF Points
    <3>3. QED
      BY <3>1, <3>2
  <2>2. writer' = [writer EXCEPT ![r] = [writer[r] EXCEPT !.raised = TRUE, !.pc = "ended"]]
    BY <1>5, <1>0 DEF RunRaises
  <2>3. QED
    BY <1>0, <1>5, <1>a, <2>1, <2>2 DEF RunRaises, Shape
<1>6. CASE Seal(r)
  <2> DEFINE m == [run |-> r, counts |-> writer[r].counts, hashes |-> Contents(Home(r))]
  <2>1. Contents(Home(r)) \in [Artifacts -> WholeFile]
    BY <1>6, Kinds DEF Seal, RunInv, EvidenceInv, Contents
  <2>2. m \in Manifests
    BY <1>0, <2>1 DEF Manifests
  <2>3. [writer[r] EXCEPT !.pc = "manifest", !.built = m] \in W
    <3>1. [writer[r] EXCEPT !.built = m] \in W
      BY <1>0, <2>2
    <3>2. "manifest" \in Points
      BY DEF Points
    <3>3. QED
      BY <3>1, <3>2, <1>0, <2>2
  <2>4. writer' = [writer EXCEPT ![r] = [writer[r] EXCEPT !.pc = "manifest", !.built = m]]
    BY <1>6, <1>0 DEF Seal
  <2>5. QED
    BY <1>0, <1>6, <1>b, <2>3, <2>4 DEF Seal, Shape
<1>7. CASE WriteManifest(r)
  BY <1>7, <1>b, <1>c DEF WriteManifest, Shape, Points
<1>8. CASE Edit(r)
  BY <1>8, StoreConstants DEF Edit, Shape
<1>9. QED
  BY <1>1, <1>2, <1>3, <1>4, <1>5, <1>6, <1>7, <1>8 DEF RunStep

(* The steps of a run keep what it promises.                               *)
LEMMA RunKeepsInv ==
  ASSUME Shape, \A q \in Runs: RunInv(q), NEW r \in Runs, RunStep(r) \/ Edit(r)
  PROVE  RunInv(r)'
<1> DEFINE home == disk[Home(r)]
<1>0. /\ Shape' /\ EvidenceInv(r) /\ SealInv(r) /\ writer[r].pc \in Points
      /\ writer[r].counts \in [Streams -> Nat]
      /\ Home(r) \in Dirs /\ MaxRows[r] \in Nat /\ "manifest.json" \in Names
      /\ "manifest.json" \notin Artifacts
  BY OneRunMoves, Places, Files, StoreConstants DEF Shape, RunInv
<1> SUFFICES EvidenceInv(r)' /\ SealInv(r)'
  BY DEF RunInv
<1> USE <1>0, Kinds, Files DEF At, Done, OnlyWriter
<1>a. ~Done(r) => \A a \in Artifacts: IsWhole(home[a]) => ~home[a].of.edited
  BY DEF EvidenceInv, Edited
<1>b. ASSUME \A a \in Artifacts: IsWhole(home'[a]) => ~home'[a].of.edited PROVE ~Edited(r)'
  BY <1>b DEF Edited
<1>1. CASE StartRun(r)
  <2>1. /\ \A s \in Streams: home'[s] = Whole(Empty)
        /\ \A n \in Names \ Streams: home'[n] = home[n]
    BY <1>1 DEF StartRun, Shape
  <2>2. Empty \in Content /\ Empty.rows = 0 /\ ~Empty.edited
    BY DEF Empty, Content
  <2>3. writer'[r].pc = "documents" /\ writer'[r].counts = writer[r].counts /\ writer'[r].raised = writer[r].raised
    BY <1>1, GotoFrame DEF StartRun, Points
  <2>4. Manifest(Home(r))' = Manifest(Home(r))
    BY <2>1 DEF Manifest
  <2>5. ~Edited(r)'
    BY <1>1, <1>a, <1>b, <2>1, <2>2 DEF StartRun
  <2>6. EvidenceInv(r)'
    <3>1. Whole(Empty) \in WholeFile /\ Whole(Empty).of.rows = 0
      BY <2>2
    <3>2. \A s \in Streams: writer[r].counts[s] = 0
      BY <1>1 DEF StartRun, EvidenceInv
    <3>3. \A a \in Artifacts: home'[a] \in {Absent} \union WholeFile
      BY <2>1, <3>1 DEF EvidenceInv
    <3>4. QED
      BY <2>1, <2>3, <2>5, <3>1, <3>2, <3>3 DEF EvidenceInv
  <2>7. SealInv(r)'
    BY <1>1, <2>3, <2>4 DEF StartRun, SealInv
  <2>8. QED
    BY <2>6, <2>7
<1>2. CASE WriteDocument(r)
  <2>1. PICK k \in DOMAIN Documents, m \in BOOLEAN:
          /\ Put(Home(r), Documents[k], Whole([Empty EXCEPT !.marked = m]))
          /\ writer' = writer \/ Goto(r, "rows")
    BY <1>2 DEF WriteDocument
  <2> DEFINE c == [Empty EXCEPT !.marked = m]
  <2>2. c \in Content /\ ~c.edited
    BY Rewrites
  <2>3. home'[Documents[k]] = Whole(c) /\ \A n \in Names \ {Documents[k]}: home'[n] = home[n]
    BY <2>1, PutFrame
  <2>4. /\ writer'[r].pc \in {"documents", "rows"} /\ writer'[r].counts = writer[r].counts
        /\ writer'[r].raised = writer[r].raised /\ writer[r].pc = "documents"
    BY <1>2, <2>1, GotoFrame DEF WriteDocument, Points
  <2> HIDE DEF c
  <2>5. Manifest(Home(r))' = Manifest(Home(r))
    BY <2>3 DEF Manifest
  <2>6. ~Edited(r)'
    BY <1>a, <1>b, <2>2, <2>3, <2>4
  <2>7. EvidenceInv(r)'
    BY <2>2, <2>3, <2>4, <2>6 DEF EvidenceInv
  <2>8. SealInv(r)'
    BY <2>4, <2>5 DEF SealInv
  <2>9. QED
    BY <2>7, <2>8
<1>3. CASE AppendRow(r)
  <2>1. PICK s \in Streams: WriteLine(r, s)
    BY <1>3 DEF AppendRow
  <2> DEFINE c == [home[s].of EXCEPT !.rows = @ + 1]
  <2>2. home[s].of \in Content /\ home[s].of.rows = writer[r].counts[s] /\ ~home[s].of.edited
    BY <1>3, <1>a DEF AppendRow, EvidenceInv
  <2>3. c \in Content /\ c.rows = writer[r].counts[s] + 1 /\ ~c.edited
    BY <2>2 DEF Content
  <2>4. home'[s] = Whole(c) /\ \A n \in Names \ {s}: home'[n] = home[n]
    BY <2>1, PutFrame DEF WriteLine
  <2>5. /\ writer[r].pc = "rows" /\ writer'[r].pc = "rows" /\ writer'[r].raised = writer[r].raised
        /\ writer'[r].counts = [writer[r].counts EXCEPT ![s] = @ + 1]
    BY <1>3, <2>1 DEF AppendRow, WriteLine, Shape
  <2>6. Manifest(Home(r))' = Manifest(Home(r))
    BY <2>4 DEF Manifest
  <2>7. writer[r].counts[s] + 1 <= MaxRows[r]
    BY <2>1 DEF WriteLine
  <2> HIDE DEF c
  <2>8. ~Edited(r)'
    BY <1>a, <1>b, <2>3, <2>4, <2>5
  <2>9. EvidenceInv(r)'
    BY <2>3, <2>4, <2>5, <2>7, <2>8 DEF EvidenceInv
  <2>10. SealInv(r)'
    BY <2>5, <2>6 DEF SealInv
  <2>11. QED
    BY <2>9, <2>10
<1>4. CASE CloseStreams(r) \/ KillRun(r) \/ RunRaises(r)
  <2>1. /\ UNCHANGED disk /\ writer'[r].counts = writer[r].counts
        /\ writer[r].pc \in {"documents", "rows", "seal", "manifest"}
        /\ writer'[r].pc \in {"seal", "ended"} /\ (writer'[r].pc = "seal" => writer[r].pc = "rows")
        /\ writer'[r].raised => writer'[r].pc = "ended" \/ writer[r].raised
    BY <1>4 DEF CloseStreams, KillRun, RunRaises, Goto, Shape
  <2>2. Manifest(Home(r))' = Manifest(Home(r)) /\ (Edited(r)' <=> Edited(r))
    BY <2>1 DEF Manifest, Edited
  <2>3. EvidenceInv(r)'
    BY <2>1, <2>2 DEF EvidenceInv
  <2>4. SealInv(r)'
    BY <2>1, <2>2 DEF SealInv
  <2>5. QED
    BY <2>3, <2>4
<1>5. CASE Seal(r)
  <2> DEFINE hashes == Contents(Home(r))
  <2>1. /\ home'["manifest.json"] = Torn /\ \A a \in Artifacts: home'[a] = home[a]
    BY <1>5, PutFrame DEF Seal
  <2>2. /\ writer[r].pc = "seal" /\ writer'[r].pc = "manifest" /\ writer'[r].counts = writer[r].counts
        /\ writer'[r].raised = writer[r].raised
        /\ writer'[r].built = [run |-> r, counts |-> writer[r].counts, hashes |-> hashes]
    BY <1>5 DEF Seal, Shape
  <2>3. /\ DOMAIN hashes = Artifacts /\ \A a \in Artifacts: hashes[a] = home[a]
        /\ hashes = [a \in Artifacts |-> hashes[a]]
    BY DEF Contents
  <2>4. \A a \in Artifacts: home[a] \in WholeFile /\ ~home[a].of.edited
    BY <1>5, <1>a, <2>2 DEF Seal, EvidenceInv
  <2>5. hashes \in [Artifacts -> WholeFile]
    BY <2>3, <2>4
  <2>6. writer'[r].built \in Manifests /\ writer'[r].built.run = r /\ writer'[r].built.hashes = hashes
    BY <2>2, <2>5 DEF Manifests
  <2>7. \A s \in Streams: home[s].of.rows = writer[r].counts[s]
    BY <2>2 DEF EvidenceInv
  <2> HIDE DEF hashes
  <2>8. Complete(r, writer[r].built.hashes)'
    BY <2>2, <2>3, <2>4, <2>6, <2>7 DEF Complete
  <2>9. SameOrEdited(r, writer[r].built.hashes)' /\ Manifest(Home(r))' = Torn
    BY <2>1, <2>3, <2>6 DEF SameOrEdited, Manifest
  <2>10. EvidenceInv(r)'
    <3>1. ~Edited(r)'
      BY <1>b, <2>1, <2>4
    <3>2. QED
      BY <2>1, <2>2, <2>4, <2>7, <3>1 DEF EvidenceInv
  <2>11. SealInv(r)'
    BY <2>2, <2>3, <2>4, <2>6, <2>8, <2>9 DEF SealInv
  <2>12. QED
    BY <2>10, <2>11
<1>6. CASE WriteManifest(r)
  <2>1. /\ home'["manifest.json"] = Whole(writer[r].built) /\ \A a \in Artifacts: home'[a] = home[a]
    BY <1>6, PutFrame DEF WriteManifest
  <2>2. /\ writer[r].pc = "manifest" /\ writer'[r].pc = "done" /\ writer'[r].counts = writer[r].counts
        /\ writer'[r].raised = writer[r].raised /\ writer'[r].built = writer[r].built
    BY <1>6, GotoFrame DEF WriteManifest, Points
  <2>3. /\ Manifest(Home(r))' = Whole(writer[r].built) /\ (Edited(r)' <=> Edited(r))
        /\ \A over: Complete(r, over)' <=> Complete(r, over)
        /\ \A over: SameOrEdited(r, over)' <=> SameOrEdited(r, over)
    BY <2>1, <2>2 DEF Complete, SameOrEdited, Manifest, Edited
  <2>4. EvidenceInv(r)'
    BY <2>1, <2>2, <2>3 DEF EvidenceInv
  <2>5. SealInv(r)'
    BY <2>1, <2>2, <2>3 DEF SealInv
  <2>6. QED
    BY <2>4, <2>5
<1>7. CASE Edit(r)
  <2>1. PICK s \in Streams: disk' = [disk EXCEPT ![Home(r)][s].of.edited = TRUE]
    BY <1>7 DEF Edit
  <2>2. writer[r].pc = "done"
    BY <1>7 DEF Edit, SealInv, Points
  <2>3. home[s] \in WholeFile
    BY <2>2 DEF EvidenceInv
  <2> DEFINE g(b) == [home[s] EXCEPT !.of = [home[s].of EXCEPT !.edited = b]]
  <2>4. home'[s] = g(TRUE)
    BY <2>1 DEF Shape
  <2>5. \A b \in BOOLEAN: g(b) \in WholeFile /\ (g(b).of.edited <=> b) /\ g(b).of.rows = home[s].of.rows
    BY <2>3, Rewrites
  <2> HIDE DEF g
  <2>6. g(TRUE) \in WholeFile /\ g(TRUE).of.edited /\ g(TRUE).of.rows = home[s].of.rows
    BY <2>5
  <2>7. home'[s] \in WholeFile /\ home'[s].of.edited /\ home'[s].of.rows = home[s].of.rows
    BY <2>4, <2>6
  <2>8. \A n \in Names \ {s}: home'[n] = home[n]
    BY <2>1 DEF Shape
  <2>9. writer' = writer /\ Manifest(Home(r))' = Manifest(Home(r))
    BY <1>7, <2>8 DEF Edit, Manifest
  <2>10. \A over: /\ Complete(r, over)' <=> Complete(r, over)
                  /\ SameOrEdited(r, over) => SameOrEdited(r, over)'
    BY <2>7, <2>8, <2>9 DEF Complete, SameOrEdited
  <2>11. EvidenceInv(r)'
    BY <2>2, <2>7, <2>8, <2>9 DEF EvidenceInv
  <2>12. SealInv(r)'
    BY <2>2, <2>9, <2>10 DEF SealInv
  <2>13. QED
    BY <2>11, <2>12
<1>8. QED
  BY <1>1, <1>2, <1>3, <1>4, <1>5, <1>6, <1>7 DEF RunStep

CommandStep == AnalyzeStep \/ ExportStep \/ ReindexStep

(* No command writes over an artifact or a manifest of a run's own         *)
(* directory.                                                              *)
LEMMA CommandsLeaveRuns ==
  ASSUME Shape, AnalyzerInv, ExporterInv, CommandStep
  PROVE  /\ Shape' /\ writer' = writer /\ edits' = edits
         /\ \A r \in Runs, n \in Artifacts \union {"manifest.json"}: disk'[Home(r)][n] = disk[Home(r)][n]
<1> DEFINE Left == /\ DOMAIN disk' = Dirs /\ \A d \in Dirs: DOMAIN disk'[d] = Names
                   /\ \A r \in Runs, n \in Artifacts \union {"manifest.json"}: disk'[Home(r)][n] = disk[Home(r)][n]
<1>1. ASSUME UNCHANGED disk PROVE Left
  BY <1>1 DEF Shape
<1>2. ASSUME NEW r \in Runs, NEW n \in {"findings.json", "scores.json"}, NEW file, Put(Home(r), n, file)
      PROVE  Left
  BY <1>2, PutFrame, Places, Files
<1>3. ASSUME NEW r \in Runs, NEW n \in Names, NEW file, Put(Public(r), n, file) PROVE Left
  BY <1>3, PutFrame, Places, Files
<1> HIDE DEF Left
<1>4. analyzer.pc # "idle" => analyzer.run \in Runs
  BY DEF AnalyzerInv, NoAnalysis
<1>5. exporter # NoExport => exporter.run \in Runs /\ CopyName \in Names
  BY Files DEF ExporterInv, CopyName
<1>6. CASE AnalyzeStep
  <2>1. Left
    <3>1. \A name \in {"findings.json", "scores.json"}, pc \in {"findings", "scores"}: Truncate(pc, name) => Left
      BY <1>2, <1>4 DEF Truncate, Subject
    <3>2. WriteFindings \/ WriteScores => Left
      BY <1>2, <1>4 DEF WriteFindings, WriteScores, Subject
    <3>3. QED
      BY <1>6, <1>1, <3>1, <3>2
         DEF AnalyzeStep, ReadBundle, Launch, Verify, RefuseFindings, ScoreBundle, KillAnalysis
  <2>2. writer' = writer /\ edits' = edits /\ (commands' = commands \/ Launch)
    BY <1>6 DEF AnalyzeStep, ReadBundle, Launch, Verify, RefuseFindings, ScoreBundle, KillAnalysis, Truncate,
                WriteFindings, WriteScores, OnlyAnalyzer
  <2>3. QED
    BY <2>1, <2>2, StoreConstants DEF Launch, Left, Shape
<1>7. CASE ExportStep
  <2>1. Left
    BY <1>7, <1>1, <1>3, <1>5
       DEF ExportStep, StartExport, Launch, SkipFile, OpenCopy, FinishCopy, KillExport, NoExport
  <2>2. writer' = writer /\ edits' = edits /\ (commands' = commands \/ Launch)
    BY <1>7 DEF ExportStep, StartExport, Launch, SkipFile, OpenCopy, FinishCopy, KillExport, OnlyExporter
  <2>3. QED
    BY <2>1, <2>2, StoreConstants DEF Launch, Left, Shape
<1>8. CASE ReindexStep
  <2>1. UNCHANGED <<disk, writer, edits>> /\ (commands' = commands \/ Launch)
    BY <1>8 DEF ReindexStep, StartReindex, Launch, SkipDirectory, IndexBundle, UnreadableBundle, CommitIndex,
                KillReindex, OnlyReindexer
  <2>2. QED
    BY <1>1, <2>1, StoreConstants DEF Launch, Left, Shape
<1>9. QED
  BY <1>6, <1>7, <1>8 DEF CommandStep

\* Every step keeps the bundles: a seal is taken over everything it covers.
LEMMA BundleStep == BundleInv /\ AnalyzerInv /\ ExporterInv /\ [Next]_vars => BundleInv'
<1> SUFFICES ASSUME BundleInv, AnalyzerInv, ExporterInv, [Next]_vars PROVE BundleInv'
  OBVIOUS
<1> USE DEF BundleInv
<1>1. ASSUME NEW r \in Runs, RunStep(r) \/ Edit(r) PROVE BundleInv'
  <2>1. RunInv(r)'
    BY <1>1, RunKeepsInv
  <2>2. \A q \in Runs \ {r}: RunInv(q)'
    BY <1>1, OneRunMoves, RunFrame
  <2>3. QED
    BY <1>1, <2>1, <2>2, OneRunMoves
<1>2. CASE CommandStep
  BY <1>2, CommandsLeaveRuns, RunFrame
<1>3. CASE UNCHANGED vars
  <2>1. Shape'
    BY <1>3 DEF vars, Shape
  <2>2. \A q \in Runs: RunInv(q)'
    BY <1>3, RunFrame DEF vars
  <2>3. QED
    BY <2>1, <2>2
<1>4. QED
  BY <1>1, <1>2, <1>3 DEF Next, CommandStep

(* Once a run is done its writer stands still and its artifacts only       *)
(* change by being edited: what was read of them before is complete, and   *)
(* is what is there or what was there before an edit.                      *)
LEMMA Progress ==
  ASSUME BundleInv, AnalyzerInv, ExporterInv, [Next]_vars, NEW r \in Runs
  PROVE  /\ Edited(r) => Edited(r)'
         /\ Done(r) => /\ Done(r)' /\ writer'[r] = writer[r]
                       /\ Manifest(Home(r))' = Manifest(Home(r))
                       /\ \A over: /\ Complete(r, over) => Complete(r, over)'
                                   /\ SameOrEdited(r, over) => SameOrEdited(r, over)'
<1> DEFINE home == disk[Home(r)]
<1> DEFINE Kept == /\ writer'[r] = writer[r]
                   /\ \A n \in Artifacts \union {"manifest.json"}: home'[n] = home[n]
<1>1. CASE Kept
  <2>1. \A over: /\ Complete(r, over)' <=> Complete(r, over)
                 /\ SameOrEdited(r, over)' <=> SameOrEdited(r, over)
    BY <1>1 DEF Complete, SameOrEdited
  <2>2. QED
    BY <1>1, <2>1 DEF Edited, Done, At, Manifest
<1>2. CASE RunStep(r)
  <2>1. ~Done(r)
    BY <1>2 DEF RunStep, StartRun, WriteDocument, AppendRow, CloseStreams, Seal, WriteManifest, RunRaises,
                KillRun, At, Done
  <2>2. ~Edited(r)
    BY <2>1 DEF BundleInv, RunInv, EvidenceInv
  <2>3. QED
    BY <2>1, <2>2
<1>3. CASE Edit(r)
  <2>1. PICK s \in Streams: disk' = [disk EXCEPT ![Home(r)][s].of.edited = TRUE]
    BY <1>3 DEF Edit
  <2>2. Done(r) /\ home[s] \in WholeFile
    BY <1>3, Kinds DEF Edit, BundleInv, RunInv, EvidenceInv, SealInv, Shape, Points, Done, At
  <2> DEFINE g(b) == [home[s] EXCEPT !.of = [home[s].of EXCEPT !.edited = b]]
  <2>3. home'[s] = g(TRUE)
    BY <2>1, Places, Files DEF BundleInv, Shape
  <2>4. \A b \in BOOLEAN: g(b) \in WholeFile /\ (g(b).of.edited <=> b) /\ g(b).of.rows = home[s].of.rows
    BY <2>2, Rewrites
  <2> HIDE DEF g
  <2>5. g(TRUE) \in WholeFile /\ g(TRUE).of.edited /\ g(TRUE).of.rows = home[s].of.rows
    BY <2>4
  <2>6. home'[s] \in WholeFile /\ home'[s].of.edited /\ home'[s].of.rows = home[s].of.rows
    BY <2>3, <2>5
  <2>7. \A n \in Names \ {s}: home'[n] = home[n]
    BY <2>1, Places DEF BundleInv, Shape
  <2>8. writer' = writer /\ Manifest(Home(r))' = Manifest(Home(r))
    BY <1>3, <2>7, Files DEF Edit, Manifest
  <2>9. \A over: /\ Complete(r, over)' <=> Complete(r, over)
                 /\ SameOrEdited(r, over) => SameOrEdited(r, over)'
    BY <2>6, <2>7, <2>8, Files, Kinds DEF Complete, SameOrEdited
  <2>10. Edited(r)'
    BY <2>6, Files, Kinds DEF Edited
  <2>11. QED
    BY <2>2, <2>8, <2>9, <2>10 DEF Done, At
<1>4. ASSUME NEW q \in Runs \ {r}, RunStep(q) \/ Edit(q) PROVE Kept
  BY <1>4, OneRunMoves DEF BundleInv
<1>5. CASE CommandStep
  BY <1>1, <1>5, CommandsLeaveRuns DEF BundleInv
<1>6. CASE UNCHANGED vars
  BY <1>1, <1>6 DEF vars
<1>7. QED
  BY <1>1, <1>2, <1>3, <1>4, <1>5, <1>6 DEF Next, CommandStep

(* A bundle verifies exactly when it is sealed and unedited, and then what *)
(* is there is what was hashed.                                            *)
LEMMA Verification ==
  ASSUME BundleInv, NEW r \in Runs
  PROVE  /\ Verified(Home(r)) <=> Done(r) /\ ~Edited(r)
         /\ IsWhole(Manifest(Home(r))) <=> Done(r)
         /\ Done(r) => /\ Manifest(Home(r)) = Whole(writer[r].built) /\ Manifest(Home(r)).of = writer[r].built
                       /\ writer[r].built \in Manifests /\ writer[r].built.run = r
                       /\ SameOrEdited(r, writer[r].built.hashes)
                       /\ Contents(Home(r)) \in [Artifacts -> WholeFile]
                       /\ Complete(r, Contents(Home(r)))
<1> DEFINE home == disk[Home(r)] hashes == writer[r].built.hashes
<1>1. EvidenceInv(r) /\ SealInv(r) /\ writer[r].pc \in Points
  BY DEF BundleInv, RunInv, Shape
<1>2. IsWhole(Manifest(Home(r))) <=> Done(r)
  BY <1>1, Kinds DEF SealInv, Points, Done, At
<1>3. ASSUME Done(r)
      PROVE  /\ Manifest(Home(r)) = Whole(writer[r].built) /\ Manifest(Home(r)).of = writer[r].built
             /\ writer[r].built \in Manifests /\ writer[r].built.run = r
             /\ hashes \in [Artifacts -> WholeFile]
             /\ \A a \in Artifacts: ~hashes[a].of.edited
             /\ SameOrEdited(r, hashes)
  BY <1>1, <1>3, Kinds DEF SealInv, Done, At, Manifests
<1>4. ASSUME Done(r)
      PROVE  \A a \in Artifacts: home[a] \in WholeFile
  BY <1>1, <1>3, <1>4, Kinds DEF EvidenceInv, SameOrEdited
<1>5. ASSUME Done(r)
      PROVE  Contents(Home(r)) = hashes <=> ~Edited(r)
  <2>1. Contents(Home(r)) = hashes <=> \A a \in Artifacts: home[a] = hashes[a]
    BY <1>3, <1>5 DEF Contents
  <2>2. QED
    BY <1>3, <1>4, <1>5, <2>1, Kinds DEF Edited, SameOrEdited
<1>6. ASSUME Done(r)
      PROVE  Contents(Home(r)) \in [Artifacts -> WholeFile] /\ Complete(r, Contents(Home(r)))
  BY <1>1, <1>4, <1>6, Kinds, Files DEF EvidenceInv, Complete, Contents, Done, At
<1>7. QED
  BY <1>2, <1>3, <1>5, <1>6 DEF Verified

(***************************************************************************)
(* What `analyze` concludes.                                               *)
(***************************************************************************)

(* Whatever is at work besides the analyzer leaves it what it holds and    *)
(* the conclusions what they say.                                          *)
LEMMA ConclusionFrame ==
  ASSUME BundleInv, AnalyzerInv, ExporterInv, [Next]_vars, \A r \in Runs: ConclusionInv(r),
         \A r \in Runs, n \in {"findings.json", "scores.json"}: disk'[Home(r)][n] = disk[Home(r)][n]
  PROVE  /\ analyzer' = analyzer => AnalyzerInv'
         /\ \A r \in Runs: ConclusionInv(r)'
<1>1. analyzer' = analyzer => AnalyzerInv'
  BY Progress DEF AnalyzerInv
<1>2. \A r \in Runs: ConclusionInv(r)'
  BY Progress DEF ConclusionInv
<1>3. QED
  BY <1>1, <1>2

(* The export writes into copies only.                                     *)
LEMMA ExportLeavesHomes ==
  ASSUME Shape, ExporterInv, ExportStep
  PROVE  analyzer' = analyzer /\ reindexer' = reindexer /\ index' = index
         /\ \A r \in Runs: disk'[Home(r)] = disk[Home(r)]
<1>1. exporter # NoExport => exporter.run \in Runs /\ CopyName \in Names
  BY Files DEF ExporterInv, CopyName
<1>2. \A file : \A r \in Runs, n \in Names : Put(Public(r), n, file) => \A q \in Runs: disk'[Home(q)] = disk[Home(q)]
  BY PutFrame, Places
<1>3. QED
  BY <1>1, <1>2
     DEF ExportStep, StartExport, Launch, SkipFile, OpenCopy, FinishCopy, KillExport, OnlyExporter, NoExport

(* The steps of the analyzer.                                              *)
LEMMA AnalyzeKeepsConclusions ==
  ASSUME BundleInv, AnalyzerInv, ExporterInv, \A r \in Runs: ConclusionInv(r), AnalyzeStep
  PROVE  AnalyzerInv' /\ \A r \in Runs: ConclusionInv(r)'
<1> USE DEF OnlyAnalyzer
<1>0. [Next]_vars /\ Shape /\ Shape' /\ writer' = writer
  BY CommandsLeaveRuns DEF Next, CommandStep, BundleInv
<1>1. \A r \in Runs: Done(r) => /\ Done(r)' /\ writer'[r] = writer[r]
                                /\ \A over: /\ Complete(r, over) => Complete(r, over)'
                                            /\ SameOrEdited(r, over) => SameOrEdited(r, over)'
  BY <1>0, Progress
<1>2. ASSUME UNCHANGED disk PROVE \A r \in Runs: ConclusionInv(r)'
  BY <1>0, <1>2, ConclusionFrame
<1>3. NoAnalysis.pc = "idle"
  BY DEF NoAnalysis
<1>4. ASSUME analyzer' = NoAnalysis PROVE AnalyzerInv'
  BY <1>4 DEF AnalyzerInv
<1>5. ASSUME NEW r \in Handled, NEW allow \in BOOLEAN, ReadBundle(r, allow)
      PROVE  AnalyzerInv' /\ \A q \in Runs: ConclusionInv(q)'
  <2>1. r \in Runs /\ IsWhole(Manifest(Home(r)))
    BY <1>5, StoreConstants DEF ReadBundle
  <2>2. /\ Done(r) /\ Contents(Home(r)) \in [Artifacts -> WholeFile]
        /\ Complete(r, Contents(Home(r))) /\ SameOrEdited(r, Contents(Home(r)))
    BY <2>1, Verification DEF SameOrEdited, Contents
  <2>3. analyzer' = [pc |-> "verify", run |-> r, allow_unsealed |-> allow, seen |-> Contents(Home(r))]
    BY <1>5 DEF ReadBundle
  <2>4. AnalyzerInv'
    BY <1>1, <2>1, <2>2, <2>3 DEF AnalyzerInv
  <2>5. QED
    BY <1>2, <1>5, <2>4 DEF ReadBundle, Launch
<1>6. CASE Verify
  <2> DEFINE r == analyzer.run
  <2>1. /\ r \in Runs /\ Done(r) /\ SameOrEdited(r, analyzer.seen)
        /\ analyzer.seen \in [Artifacts -> WholeFile] /\ Complete(r, analyzer.seen)
    BY <1>3, <1>6 DEF Verify, AnalyzerInv
  <2>2. analyzer' = [pc |-> "findings", run |-> r, seen |-> analyzer.seen, verified |-> Verified(Home(r))]
    BY <1>6 DEF Verify, Subject
  <2>3. Verified(Home(r)) => analyzer.seen = writer[r].built.hashes
    <3>1. SUFFICES ASSUME Verified(Home(r)) PROVE analyzer.seen = writer[r].built.hashes
      OBVIOUS
    <3>2. Contents(Home(r)) = writer[r].built.hashes /\ ~Edited(r)
      BY <2>1, <3>1, Verification DEF Verified
    <3>3. \A a \in Artifacts: disk[Home(r)][a] = analyzer.seen[a]
      BY <2>1, <3>2 DEF Edited, SameOrEdited
    <3>4. Contents(Home(r)) = analyzer.seen
      BY <2>1, <3>3 DEF Contents
    <3>5. QED
      BY <3>2, <3>4
  <2>4. Verified(Home(r)) \in BOOLEAN
    BY DEF Verified, IsWhole
  <2>5. AnalyzerInv'
    BY <1>1, <2>1, <2>2, <2>3, <2>4 DEF AnalyzerInv
  <2>6. QED
    BY <1>2, <1>6, <2>5 DEF Verify
<1>7. CASE RefuseFindings \/ KillAnalysis
  BY <1>2, <1>4, <1>7 DEF RefuseFindings, KillAnalysis
<1>8. ASSUME NEW n \in {"findings.json", "scores.json"}, NEW pc \in {"findings", "scores"}, Truncate(pc, n)
      PROVE  AnalyzerInv' /\ \A q \in Runs: ConclusionInv(q)'
  <2>1. analyzer.run \in Runs /\ Put(Home(analyzer.run), n, Torn)
    BY <1>3, <1>8 DEF Truncate, AnalyzerInv, Subject
  <2>2. \A q \in Runs, m \in {"findings.json", "scores.json"}:
          IsWhole(disk'[Home(q)][m]) => disk'[Home(q)][m] = disk[Home(q)][m]
    BY <1>0, <2>1, PutFrame, Places, Files, Kinds
  <2>3. \A q \in Runs: ConclusionInv(q)'
    BY <1>0, <1>1, <2>2 DEF ConclusionInv
  <2>4. AnalyzerInv'
    BY <1>1, <1>8 DEF Truncate, AnalyzerInv
  <2>5. QED
    BY <2>3, <2>4
<1>9. CASE WriteFindings
  <2>0. PICK r \in Runs: r = analyzer.run
    BY <1>3, <1>9 DEF WriteFindings, AnalyzerInv
  <2> DEFINE f == [over |-> analyzer.seen, bundle_root_verified |-> analyzer.verified]
  <2>1. /\ Done(r) /\ Complete(r, analyzer.seen) /\ analyzer.verified \in BOOLEAN
        /\ analyzer.verified => analyzer.seen = writer[r].built.hashes
    BY <1>3, <1>9, <2>0 DEF WriteFindings, AnalyzerInv
  <2>2. Put(Home(r), "findings.json", Whole(f))
    BY <1>9, <2>0 DEF WriteFindings, Subject
  <2>3. /\ disk'[Home(r)]["findings.json"] = Whole(f)
        /\ disk'[Home(r)]["scores.json"] = disk[Home(r)]["scores.json"]
        /\ \A q \in Runs \ {r}: disk'[Home(q)] = disk[Home(q)]
    BY <1>0, <2>2, PutFrame, Places, Files
  <2>4. /\ Whole(f).of.over = analyzer.seen /\ Whole(f).of.bundle_root_verified = analyzer.verified
    BY Kinds
  <2>5. ConclusionInv(r)'
    BY <1>1, <2>1, <2>3, <2>4 DEF ConclusionInv
  <2>6. \A q \in Runs \ {r}: ConclusionInv(q)'
    BY <1>1, <2>3 DEF ConclusionInv
  <2>7. AnalyzerInv'
    BY <1>1, <1>9, <2>0, <2>1 DEF WriteFindings, AnalyzerInv
  <2>8. QED
    BY <2>5, <2>6, <2>7
<1>10. CASE ScoreBundle
  <2>1. analyzer.run \in Runs /\ Done(analyzer.run)
    BY <1>3, <1>10 DEF ScoreBundle, AnalyzerInv
  <2>2. AnalyzerInv'
    BY <1>1, <1>10, <2>1, Verification DEF ScoreBundle, AnalyzerInv, Subject
  <2>3. QED
    BY <1>2, <1>10, <2>2 DEF ScoreBundle
<1>11. CASE WriteScores
  <2>0. PICK r \in Runs: r = analyzer.run
    BY <1>3, <1>11 DEF WriteScores, AnalyzerInv
  <2> DEFINE f == [over |-> analyzer.seen]
  <2>1. Done(r) /\ Complete(r, analyzer.seen)
    BY <1>3, <1>11, <2>0 DEF WriteScores, AnalyzerInv
  <2>2. Put(Home(r), "scores.json", Whole(f))
    BY <1>11, <2>0 DEF WriteScores, Subject
  <2>3. /\ disk'[Home(r)]["scores.json"] = Whole(f)
        /\ disk'[Home(r)]["findings.json"] = disk[Home(r)]["findings.json"]
        /\ \A q \in Runs \ {r}: disk'[Home(q)] = disk[Home(q)]
    BY <1>0, <2>2, PutFrame, Places, Files
  <2>4. Whole(f).of.over = analyzer.seen
    BY Kinds
  <2>5. ConclusionInv(r)'
    BY <1>1, <2>1, <2>3, <2>4 DEF ConclusionInv
  <2>6. \A q \in Runs \ {r}: ConclusionInv(q)'
    BY <1>1, <2>3 DEF ConclusionInv
  <2>7. QED
    BY <1>4, <1>11, <2>5, <2>6 DEF WriteScores
<1>12. QED
  BY <1>5, <1>6, <1>7, <1>8, <1>9, <1>10, <1>11 DEF AnalyzeStep

\* Every step keeps the conclusions of a run those of the whole run.
LEMMA ConclusionStep ==
  BundleInv /\ AnalyzerInv /\ ExporterInv /\ (\A r \in Runs: ConclusionInv(r)) /\ [Next]_vars
    => AnalyzerInv' /\ \A r \in Runs: ConclusionInv(r)'
<1> SUFFICES ASSUME BundleInv, AnalyzerInv, ExporterInv, \A r \in Runs: ConclusionInv(r), [Next]_vars
             PROVE  AnalyzerInv' /\ \A r \in Runs: ConclusionInv(r)'
  OBVIOUS
<1> DEFINE Left == \A r \in Runs, n \in {"findings.json", "scores.json"}: disk'[Home(r)][n] = disk[Home(r)][n]
<1>1. ASSUME NEW r \in Runs, RunStep(r) \/ Edit(r) PROVE Left /\ analyzer' = analyzer
  <2>1. Left
    BY <1>1, OneRunMoves DEF BundleInv
  <2>2. analyzer' = analyzer
    BY <1>1 DEF RunStep, StartRun, WriteDocument, AppendRow, WriteLine, CloseStreams, Seal, WriteManifest,
                RunRaises, KillRun, Edit, OnlyWriter
  <2>3. QED
    BY <2>1, <2>2
<1>2. CASE AnalyzeStep
  BY <1>2, AnalyzeKeepsConclusions
<1>3. CASE ExportStep
  BY <1>3, ExportLeavesHomes, ConclusionFrame DEF BundleInv
<1>4. CASE ReindexStep
  <2>1. UNCHANGED <<disk, analyzer>>
    BY <1>4 DEF ReindexStep, StartReindex, Launch, SkipDirectory, IndexBundle, UnreadableBundle, CommitIndex,
                KillReindex, OnlyReindexer
  <2>2. QED
    BY <2>1, ConclusionFrame
<1>5. CASE UNCHANGED vars
  BY <1>5, ConclusionFrame DEF vars
<1>6. QED
  BY <1>1, <1>2, <1>3, <1>4, <1>5, ConclusionFrame DEF Next

(***************************************************************************)
(* What `evidence export` copies.                                          *)
(***************************************************************************)

(* Scrubbing keeps an artifact an artifact, a manifest the same manifest,  *)
(* and loses no file.                                                      *)
LEMMA Scrubbing ==
  /\ \A f \in WholeFile, name \in Artifacts: Scrubbed(name, f) \in WholeFile
  /\ \A m \in Manifests: Scrubbed("manifest.json", Whole(m)) = Whole(m)
  /\ \A f, name: f # Absent => Scrubbed(name, f) # Absent
  /\ \A f: IsWhole(Scrubbed("findings.json", f)) => Scrubbed("findings.json", f).of = "copied"
<1>1. \A f \in WholeFile: Scrub(f) \in WholeFile
  <2> SUFFICES ASSUME NEW f \in WholeFile PROVE Scrub(f) \in WholeFile
    OBVIOUS
  <2>1. \A b \in BOOLEAN: [f.of EXCEPT !.marked = b] \in Content
    BY Kinds DEF Content
  <2>2. [f.of EXCEPT !.marked = FALSE] \in Content
    BY <2>1, Zenon
  <2>3. Whole([f.of EXCEPT !.marked = FALSE]) \in WholeFile
    BY <2>2, Kinds
  <2>4. QED
    BY <2>3 DEF Scrub
<1>2. \A m \in Manifests: Scrub(Whole(m)) = Whole(m)
  <2>1. \A m \in Manifests: "marked" \notin DOMAIN m
    BY DEF Manifests
  <2>2. QED
    BY <2>1, Kinds DEF Scrub
<1>3. \A f: f # Absent => Scrub(f) # Absent
  BY Kinds DEF Scrub
<1>4. \A f: IsWhole(Scrub(f)) => IsWhole(f)
  BY DEF Scrub
<1>5. QED
  BY <1>1, <1>2, <1>3, <1>4, Kinds, Files DEF Scrubbed

\* A step that leaves the public copies alone keeps what is known of them.
LEMMA CopyFrame ==
  ASSUME BundleInv, AnalyzerInv, ExporterInv, [Next]_vars, \A r \in Runs: CopyInv(r),
         \A r \in Runs: disk'[Public(r)] = disk[Public(r)]
  PROVE  /\ exporter' = exporter => ExporterInv'
         /\ \A r \in Runs: CopyInv(r)'
<1>1. exporter' = exporter => ExporterInv'
  BY Progress DEF ExporterInv, CopyName
<1>2. \A r \in Runs: CopyInv(r)'
  BY Progress DEF CopyInv
<1>3. QED
  BY <1>1, <1>2

(* The position after this one, if there is one.                           *)
LEMMA NextCopy ==
  ASSUME NEW r \in Runs, Shape', Done(r)', exporter.run = r, exporter.next \in DOMAIN PublicNames,
         \A j \in DOMAIN ArtifactNames: j <= exporter.next => disk'[Public(r)][ArtifactNames[j]] # Absent,
         exporter' = CopyDone
  PROVE  ExporterInv'
<1>1. CASE exporter.next = Len(PublicNames)
  BY <1>1 DEF CopyDone, ExporterInv
<1>2. CASE exporter.next # Len(PublicNames)
  <2>1. exporter' = [pc |-> "next", run |-> r, next |-> exporter.next + 1]
    BY <1>2 DEF CopyDone
  <2>2. exporter.next + 1 \in DOMAIN PublicNames
    BY <1>2, CopyOrder
  <2>3. \A j \in DOMAIN ArtifactNames: j < exporter.next + 1 => j <= exporter.next
    BY CopyOrder
  <2>4. QED
    BY <2>1, <2>2, <2>3 DEF ExporterInv
<1>3. QED
  BY <1>1, <1>2

\* A step of the exporter keeps every public copy whole or unsealed.
LEMMA ExportKeepsCopies ==
  ASSUME BundleInv, AnalyzerInv, ExporterInv, \A r \in Runs: CopyInv(r), ExportStep
  PROVE  ExporterInv' /\ \A r \in Runs: CopyInv(r)'
<1>0. /\ [Next]_vars /\ Shape /\ Shape' /\ writer' = writer
      /\ \A r \in Runs: Done(r)' <=> Done(r)
  BY CommandsLeaveRuns DEF Next, CommandStep, BundleInv, Done, At
<1>1. ASSUME NEW r \in Handled, StartExport(r) PROVE ExporterInv' /\ \A q \in Runs: CopyInv(q)'
  <2>1. r \in Runs /\ Done(r)
    BY <1>1, StoreConstants, Verification DEF StartExport
  <2>2. exporter' = [pc |-> "next", run |-> r, next |-> 1]
    BY <1>1 DEF StartExport
  <2>3. ExporterInv'
    BY <1>0, <2>1, <2>2, CopyOrder DEF ExporterInv
  <2>4. QED
    BY <1>0, <1>1, <2>3, CopyFrame DEF StartExport, Launch
<1>2. CASE KillExport
  BY <1>0, <1>2, CopyFrame DEF KillExport, ExporterInv, OnlyExporter
<1>3. CASE SkipFile \/ OpenCopy \/ FinishCopy
  <2> DEFINE k == exporter.next
  <2>0. PICK r \in Runs: r = exporter.run
    BY <1>3 DEF SkipFile, OpenCopy, FinishCopy, NoExport, ExporterInv
  <2> DEFINE copy == disk[Public(r)] home == disk[Home(r)]
  <2>1. /\ Done(r) /\ k \in DOMAIN PublicNames
        /\ \A j \in DOMAIN ArtifactNames: j < k => copy[ArtifactNames[j]] # Absent
        /\ CopyName \in Names
    BY <1>3, <2>0, Files DEF SkipFile, OpenCopy, FinishCopy, NoExport, ExporterInv, CopyName
  <2>2. /\ \A a \in Artifacts: home[a] \in WholeFile
        /\ home["manifest.json"] = Whole(writer[r].built) /\ writer[r].built \in Manifests
    BY <2>1, Verification DEF Contents, Manifest
  <2>3. /\ k \in DOMAIN ArtifactNames => CopyName = ArtifactNames[k] /\ CopyName \in Artifacts
        /\ CopyName \in Artifacts => k \in DOMAIN ArtifactNames
        /\ CopyName = "manifest.json" => \A j \in DOMAIN ArtifactNames: j < k
    BY <2>1, CopyOrder, Files DEF CopyName
  <2>4. CopyName = "manifest.json" => \A a \in Artifacts: copy[a] # Absent
    BY <2>1, <2>3, Files
  <2>5. CASE SkipFile
    <3>1. CopyName \notin Artifacts /\ UNCHANGED disk /\ exporter' = CopyDone
      BY <2>0, <2>2, <2>5, Kinds DEF SkipFile, Source
    <3>2. \A j \in DOMAIN ArtifactNames: j <= k => disk'[Public(r)][ArtifactNames[j]] # Absent
      BY <2>1, <2>3, <3>1, CopyOrder
    <3>3. ExporterInv'
      BY <1>0, <2>0, <2>1, <3>1, <3>2, NextCopy
    <3>4. QED
      BY <1>0, <3>1, <3>3, CopyFrame
  <2>6. ASSUME NEW file, Put(Public(r), CopyName, file), file # Absent,
               CopyName \in Artifacts => file \in {Torn} \union WholeFile,
               CopyName = "manifest.json" => file \in {Torn, Whole(writer[r].built)},
               CopyName = "findings.json" /\ IsWhole(file) => file.of = "copied"
        PROVE  \A q \in Runs: CopyInv(q)'
    <3>1. /\ copy'[CopyName] = file /\ \A n \in Names \ {CopyName}: copy'[n] = copy[n]
          /\ \A q \in Runs \ {r}: disk'[Public(q)] = disk[Public(q)]
      BY <1>0, <2>1, <2>6, PutFrame, Places
    <3>2. \A q \in Runs \ {r}: CopyInv(q)'
      BY <1>0, <3>1 DEF CopyInv
    <3>3. CopyInv(r) /\ Done(r)'
      BY <1>0, <2>1
    <3>4. copy'["manifest.json"] # Absent => \A a \in Artifacts: copy'[a] # Absent
      BY <2>1, <2>4, <2>6, <3>1, <3>3, Files DEF CopyInv
    <3>5. CopyInv(r)'
      BY <1>0, <2>1, <2>6, <3>1, <3>3, <3>4, Files DEF CopyInv
    <3>6. QED
      BY <3>2, <3>5
  <2>7. CASE OpenCopy
    <3> DEFINE text == Scrubbed(CopyName, home[CopyName])
    <3>1. /\ home[CopyName] # Absent /\ Put(Public(r), CopyName, Torn)
          /\ exporter' = [pc |-> "copy", run |-> r, next |-> k, text |-> text]
      BY <2>0, <2>7 DEF OpenCopy, Source
    <3>2. \A q \in Runs: CopyInv(q)'
      BY <2>6, <3>1, Kinds
    <3>3. /\ text # Absent /\ (CopyName \in Artifacts => text \in WholeFile)
          /\ CopyName = "manifest.json" => text = Whole(writer[r].built)
          /\ CopyName = "findings.json" /\ IsWhole(text) => text.of = "copied"
      BY <2>2, <3>1, Scrubbing
    <3>4. copy'[CopyName] # Absent /\ \A n \in Names: copy[n] # Absent => copy'[n] # Absent
      BY <1>0, <2>1, <3>1, PutFrame, Places, Kinds
    <3>5. CopyName' = CopyName
      BY <3>1 DEF CopyName
    <3> HIDE DEF text
    <3>6. /\ exporter'.pc = "copy" /\ exporter'.run = r /\ exporter'.next = k /\ exporter'.text = text
      BY <3>1
    <3>7. \A j \in DOMAIN ArtifactNames: j < k => copy'[ArtifactNames[j]] # Absent
      BY <2>1, <3>4, Files, CopyOrder
    <3>8. ExporterInv'
      BY <1>0, <2>1, <3>3, <3>4, <3>5, <3>6, <3>7 DEF ExporterInv
    <3>9. QED
      BY <3>2, <3>8
  <2>8. CASE FinishCopy
    <3> DEFINE text == exporter.text
    <3>1. /\ Put(Public(r), CopyName, text) /\ exporter' = CopyDone
          /\ text # Absent /\ (CopyName \in Artifacts => text \in WholeFile)
          /\ CopyName = "manifest.json" => text = Whole(writer[r].built)
          /\ CopyName = "findings.json" /\ IsWhole(text) => text.of = "copied"
      BY <2>0, <2>8 DEF FinishCopy, ExporterInv, NoExport
    <3>2. \A q \in Runs: CopyInv(q)'
      BY <2>6, <3>1
    <3>3. copy'[CopyName] # Absent /\ \A n \in Names: copy[n] # Absent => copy'[n] # Absent
      BY <1>0, <2>1, <3>1, PutFrame, Places
    <3>4. \A j \in DOMAIN ArtifactNames: j <= k => copy'[ArtifactNames[j]] # Absent
      BY <2>1, <2>3, <3>3, Files, CopyOrder
    <3>5. ExporterInv'
      BY <1>0, <2>0, <2>1, <3>1, <3>4, NextCopy
    <3>6. QED
      BY <3>2, <3>5
  <2>9. QED
    BY <1>3, <2>5, <2>7, <2>8
<1>4. QED
  BY <1>1, <1>2, <1>3 DEF ExportStep

(* Nothing but the export writes in a copy.                                *)
LEMMA CopiesAreLeft ==
  ASSUME BundleInv, AnalyzerInv, [Next]_vars, ~ExportStep
  PROVE  exporter' = exporter /\ \A r \in Runs: disk'[Public(r)] = disk[Public(r)]
<1> DEFINE Left == \A r \in Runs: disk'[Public(r)] = disk[Public(r)]
<1>1. ASSUME NEW r \in Runs, RunStep(r) \/ Edit(r) PROVE Left /\ exporter' = exporter
  <2>1. Left
    BY <1>1, OneRunMoves DEF BundleInv
  <2>2. exporter' = exporter
    BY <1>1 DEF RunStep, StartRun, WriteDocument, AppendRow, WriteLine, CloseStreams, Seal, WriteManifest,
                RunRaises, KillRun, Edit, OnlyWriter
  <2>3. QED
    BY <2>1, <2>2
<1>2. CASE AnalyzeStep
  <2>1. analyzer.pc # "idle" => analyzer.run \in Runs
    BY DEF AnalyzerInv, NoAnalysis
  <2>2. \A file : \A r \in Runs, n \in {"findings.json", "scores.json"} : Put(Home(r), n, file) => Left
    BY PutFrame, Places, Files DEF BundleInv
  <2>3. exporter' = exporter
    BY <1>2 DEF AnalyzeStep, ReadBundle, Launch, Verify, RefuseFindings, ScoreBundle, KillAnalysis, Truncate,
                WriteFindings, WriteScores, OnlyAnalyzer
  <2>4. \A name \in {"findings.json", "scores.json"}, pc \in {"findings", "scores"}: Truncate(pc, name) => Left
    BY <2>1, <2>2 DEF Truncate, Subject
  <2>5. WriteFindings \/ WriteScores => Left
    BY <2>1, <2>2 DEF WriteFindings, WriteScores, Subject
  <2>6. QED
    BY <1>2, <2>3, <2>4, <2>5
       DEF AnalyzeStep, ReadBundle, Launch, Verify, RefuseFindings, ScoreBundle, KillAnalysis
<1>3. CASE ReindexStep
  BY <1>3 DEF ReindexStep, StartReindex, Launch, SkipDirectory, IndexBundle, UnreadableBundle, CommitIndex,
              KillReindex, OnlyReindexer
<1>4. CASE UNCHANGED vars
  BY <1>4 DEF vars
<1>5. QED
  BY <1>1, <1>2, <1>3, <1>4 DEF Next

\* Every step keeps the public copies.
LEMMA CopyStep ==
  BundleInv /\ AnalyzerInv /\ ExporterInv /\ (\A r \in Runs: CopyInv(r)) /\ [Next]_vars
    => ExporterInv' /\ \A r \in Runs: CopyInv(r)'
BY ExportKeepsCopies, CopiesAreLeft, CopyFrame

(***************************************************************************)
(* What `runs reindex` enters.                                             *)
(***************************************************************************)

(* A copy's manifest does not go away.                                     *)
LEMMA CopiesStay ==
  ASSUME BundleInv, AnalyzerInv, ExporterInv, [Next]_vars, NEW r \in Runs, Manifest(Public(r)) # Absent
  PROVE  Manifest(Public(r))' # Absent
<1>1. CASE ~ExportStep
  BY <1>1, CopiesAreLeft DEF Manifest
<1>2. CASE ExportStep
  <2>1. \A file : \A q \in Runs, n \in Names : Put(Public(q), n, file) /\ file # Absent => Manifest(Public(r))' # Absent
    BY PutFrame, Places, Files DEF BundleInv, Manifest
  <2>2. exporter # NoExport => /\ exporter.run \in Runs /\ CopyName \in Names
                               /\ exporter.pc = "copy" => exporter.text # Absent
    BY Files DEF ExporterInv, CopyName
  <2>3. QED
    BY <1>2, <2>1, <2>2, Kinds
       DEF ExportStep, StartExport, Launch, SkipFile, OpenCopy, FinishCopy, KillExport, NoExport, Manifest
<1>3. QED
  BY <1>1, <1>2

(* What has no row says nothing.                                           *)
LEMMA NoTable == DOMAIN NoRows = {} /\ NoRows \in Tables
<1>1. DOMAIN NoRows = {} /\ NoRows \in [{} -> Row]
  BY DEF NoRows
<1>2. QED
  BY <1>1 DEF Tables

\* A step that leaves the index alone keeps what it vouches for.
LEMMA IndexFrame ==
  ASSUME BundleInv, AnalyzerInv, ExporterInv, IndexInv, [Next]_vars, reindexer' = reindexer, index' = index
  PROVE  IndexInv'
<1>1. \A r \in Runs: /\ Done(r) => Done(r)'
                     /\ Edited(r) => Edited(r)'
                     /\ Manifest(Public(r))' = Absent => Manifest(Public(r)) = Absent
  BY Progress, CopiesStay
<1>2. \A rows \in Tables: DOMAIN rows \subseteq Runs
  BY DEF Tables
<1>3. \A rows \in Tables: TrueRows(rows) => TrueRows(rows)'
  BY <1>1, <1>2 DEF TrueRows
<1>4. QED
  BY <1>1, <1>3 DEF IndexInv

\* A step of the indexer adds no row it has not verified.
LEMMA ReindexKeepsRows ==
  ASSUME BundleInv, IndexInv, \A r \in Runs: CopyInv(r), ReindexStep
  PROVE  IndexInv'
<1> USE DEF OnlyReindexer
<1>0. /\ reindexer.pc \in {"idle", "scan"} /\ reindexer.todo \subseteq Dirs /\ reindexer.rows \in Tables
      /\ reindexer.due \subseteq Runs /\ reindexer.spoilt \subseteq Runs /\ index \in Tables
      /\ reindexer = [pc |-> reindexer.pc, todo |-> reindexer.todo, rows |-> reindexer.rows,
                      due |-> reindexer.due, spoilt |-> reindexer.spoilt]
  BY DEF IndexInv
<1>1. UNCHANGED <<disk, writer>>
  BY DEF ReindexStep, StartReindex, Launch, SkipDirectory, IndexBundle, UnreadableBundle, CommitIndex, KillReindex
<1>2. \A r \in Runs: /\ Done(r)' <=> Done(r)
                     /\ Edited(r)' <=> Edited(r)
                     /\ Manifest(Public(r))' = Manifest(Public(r))
  BY <1>1 DEF Done, At, Edited, Manifest
<1>3. \A rows: DOMAIN rows = {} => TrueRows(rows)'
  BY DEF TrueRows
<1>4. \A rows \in Tables: DOMAIN rows \subseteq Runs
  BY DEF Tables
<1>5. \A rows \in Tables: TrueRows(rows) /\ reindexer'.spoilt = reindexer.spoilt => TrueRows(rows)'
  BY <1>2, <1>4 DEF TrueRows
<1>6. ASSUME reindexer' = Idle({}, {}), DOMAIN index = {}, index' = index PROVE IndexInv'
  BY <1>0, <1>3, <1>6, NoTable DEF IndexInv, Idle
<1>7. CASE StartReindex
  <2> DEFINE found == {d \in Dirs: Exists(d)} sealed == {r \in Runs: IsWhole(Manifest(Home(r)))}
             spoilt == {r \in Runs: IsWhole(Manifest(Home(r))) /\ ~Verified(Home(r))}
  <2>1. reindexer' = [pc |-> "scan", todo |-> found, rows |-> NoRows, due |-> sealed, spoilt |-> spoilt]
        /\ index' = NoRows
    BY <1>7 DEF StartReindex
  <2>2. \A r \in sealed: Done(r)' /\ Home(r) \in found
    BY <1>2, Verification, Places, Files, Kinds DEF Exists, Manifest
  <2>3. \A r \in spoilt: Edited(r)'
    BY <1>2, Verification
  <2> HIDE DEF found, sealed, spoilt
  <2>4. found \subseteq Dirs /\ sealed \subseteq Runs /\ spoilt \subseteq Runs
    BY DEF found, sealed, spoilt
  <2>5. QED
    BY <1>3, <2>1, <2>2, <2>3, <2>4, NoTable DEF IndexInv
<1>8. ASSUME NEW d \in reindexer.todo, SkipDirectory(d) PROVE IndexInv'
  <2>1. /\ reindexer' = [reindexer EXCEPT !.todo = @ \ {d}] /\ index' = index /\ Manifest(d) = Absent
    BY <1>8 DEF SkipDirectory
  <2>2. \A r \in reindexer.due: d # Home(r)
    BY <1>0, <2>1, Verification, Kinds DEF IndexInv
  <2>3. /\ reindexer'.pc = reindexer.pc /\ reindexer'.todo = reindexer.todo \ {d}
        /\ reindexer'.rows = reindexer.rows /\ reindexer'.due = reindexer.due /\ reindexer'.spoilt = reindexer.spoilt
        /\ reindexer' \in [pc : {"idle", "scan"}, todo : SUBSET Dirs, rows : Tables, due : SUBSET Runs,
                           spoilt : SUBSET Runs]
    BY <1>0, <2>1
  <2>4. QED
    BY <1>0, <1>2, <1>5, <2>1, <2>2, <2>3 DEF IndexInv
<1>9. ASSUME NEW d \in reindexer.todo, IndexBundle(d) PROVE IndexInv'
  <2>1. PICK r \in Runs: r = d.run /\ (d = Home(r) \/ d = Public(r))
    BY <1>0, Places
  <2>2. Done(r) /\ Manifest(d).of.run = r /\ Manifest(d) # Absent
    BY <1>9, <2>1, Verification, Kinds DEF IndexBundle, Readable, CopyInv, Manifest
  <2>3. Verified(d) \in BOOLEAN
    BY DEF Verified, IsWhole
  <2>4. Upsert(reindexer.rows, r, d, Verified(d)) \in Tables
    <3>1. PICK X \in SUBSET Runs: reindexer.rows \in [X -> Row]
      BY <1>0 DEF Tables
    <3>2. Upsert(reindexer.rows, r, d, Verified(d)) \in [X \union {r} -> Row]
      BY <1>0, <2>3, <3>1 DEF Upsert, Row
    <3>3. QED
      BY <3>2 DEF Tables
  <2>5. PICK rows \in Tables: rows = Upsert(reindexer.rows, r, d, Verified(d))
    BY <2>4
  <2>6. /\ DOMAIN rows = DOMAIN reindexer.rows \union {r}
        /\ \A x \in DOMAIN rows \ {r}: rows[x] = reindexer.rows[x]
        /\ rows[r].root_verified = Verified(d)
        /\ reindexer' = [reindexer EXCEPT !.todo = @ \ {d}, !.rows = rows] /\ index' = index
    BY <1>9, <2>2, <2>5 DEF IndexBundle, Indexed, Upsert
  <2>7. /\ reindexer'.pc = reindexer.pc /\ reindexer'.todo = reindexer.todo \ {d}
        /\ reindexer'.rows = rows /\ reindexer'.due = reindexer.due /\ reindexer'.spoilt = reindexer.spoilt
        /\ reindexer' \in [pc : {"idle", "scan"}, todo : SUBSET Dirs, rows : Tables, due : SUBSET Runs,
                           spoilt : SUBSET Runs]
    BY <1>0, <2>6
  <2>8. Manifest(Public(r)) = Absent => /\ Verified(d) => r \notin reindexer.spoilt
                                        /\ ~Verified(d) => Edited(r)
    BY <2>1, <2>2, Verification DEF IndexInv
  <2>9. TrueRows(rows)'
    BY <1>2, <1>4, <2>6, <2>7, <2>8 DEF TrueRows, IndexInv
  <2>10. \A q \in reindexer.due: q \in DOMAIN rows \/ Home(q) \in reindexer.todo \ {d} \/ reindexer.pc = "idle"
    BY <1>0, <2>1, <2>6, Places DEF IndexInv
  <2>11. QED
    BY <1>0, <1>2, <1>5, <2>6, <2>7, <2>9, <2>10 DEF IndexInv
<1>10. ASSUME NEW d \in reindexer.todo, UnreadableBundle(d) PROVE IndexInv'
  BY <1>0, <1>6, <1>10 DEF UnreadableBundle, IndexInv
<1>11. CASE CommitIndex
  <2>1. reindexer' = Idle(reindexer.due, reindexer.spoilt) /\ index' = reindexer.rows
        /\ reindexer.pc = "scan" /\ reindexer.todo = {}
    BY <1>11 DEF CommitIndex
  <2>2. /\ reindexer'.pc = "idle" /\ reindexer'.todo = {} /\ reindexer'.rows = NoRows
        /\ reindexer'.due = reindexer.due /\ reindexer'.spoilt = reindexer.spoilt
        /\ reindexer' \in [pc : {"idle", "scan"}, todo : SUBSET Dirs, rows : Tables, due : SUBSET Runs,
                           spoilt : SUBSET Runs]
    BY <1>0, <2>1, NoTable DEF Idle
  <2>3. reindexer.due \subseteq DOMAIN reindexer.rows
    BY <2>1 DEF IndexInv
  <2>4. TrueRows(reindexer.rows)' /\ TrueRows(index)'
    <3>1. TrueRows(NoRows)'
      BY <1>3, NoTable
    <3>2. ASSUME NEW rows \in Tables, TrueRows(rows) PROVE TrueRows(rows)'
      BY <1>5, <2>2, <3>2
    <3>3. QED
      BY <1>0, <2>1, <2>2, <3>1, <3>2 DEF IndexInv, TrueRows
  <2>5. QED
    BY <1>0, <1>2, <2>1, <2>2, <2>3, <2>4 DEF IndexInv
<1>12. CASE KillReindex
  BY <1>6, <1>12 DEF KillReindex, IndexInv
<1>13. QED
  BY <1>7, <1>8, <1>9, <1>10, <1>11, <1>12 DEF ReindexStep

\* Every step keeps the index.
LEMMA IndexStep ==
  BundleInv /\ AnalyzerInv /\ ExporterInv /\ IndexInv /\ (\A r \in Runs: CopyInv(r)) /\ [Next]_vars => IndexInv'
<1> SUFFICES ASSUME BundleInv, AnalyzerInv, ExporterInv, IndexInv, \A r \in Runs: CopyInv(r), [Next]_vars
             PROVE  IndexInv'
  OBVIOUS
<1>1. CASE ReindexStep
  BY <1>1, ReindexKeepsRows
<1>2. CASE ~ReindexStep
  <2>1. UNCHANGED <<reindexer, index>>
    BY <1>2, ExportLeavesHomes
       DEF Next, vars, RunStep, StartRun, WriteDocument, AppendRow, WriteLine, CloseStreams, Seal, WriteManifest,
           RunRaises, KillRun, Edit, OnlyWriter, AnalyzeStep, ReadBundle, Verify, RefuseFindings, ScoreBundle,
           KillAnalysis, Truncate, WriteFindings, WriteScores, OnlyAnalyzer, BundleInv
  <2>2. QED
    BY <2>1, IndexFrame
<1>3. QED
  BY <1>1, <1>2

(***************************************************************************)
(* The theorems.                                                           *)
(***************************************************************************)

\* Every step keeps the whole invariant.
LEMMA InvStep == IInv /\ [Next]_vars => IInv'
BY BundleStep, ConclusionStep, CopyStep, IndexStep DEF IInv, CommandInv

(* Every reachable state of the runs directory satisfies the invariant.    *)
THEOREM Invariance == Spec => []IInv
BY InitInv, InvStep, PTL DEF Spec

(* Type correctness: every file is of the kind its name and directory call *)
(* for, and an idle command holds nothing.                                 *)
THEOREM TypeCorrect == Spec => []TypeOK
<1>1. IInv => TypeOK
  <2> SUFFICES ASSUME IInv PROVE TypeOK
    OBVIOUS
  <2> USE DEF IInv, BundleInv, CommandInv
  <2>1. ASSUME NEW d \in Dirs
        PROVE  /\ \A a \in Artifacts: IsWhole(disk[d][a]) => disk[d][a].of \in Content
               /\ IsWhole(Manifest(d)) => Manifest(d).of.run = d.run /\ Snapshot(Manifest(d).of.hashes)
               /\ IsWhole(disk[d]["findings.json"]) =>
                    IF d.public THEN disk[d]["findings.json"].of = "copied"
                    ELSE disk[d]["findings.json"].of.bundle_root_verified \in BOOLEAN
    <3>1. PICK r \in Runs: r = d.run /\ (d = Home(r) \/ d = Public(r))
      BY Places
    <3>2. (d = Home(r) => ~d.public) /\ (d = Public(r) => d.public)
      BY DEF Home, Public
    <3>3. \A m \in Manifests: Snapshot(m.hashes)
      BY Kinds DEF Manifests, Snapshot
    <3>4. CASE d = Home(r)
      BY <3>1, <3>2, <3>3, <3>4, Kinds, Verification DEF RunInv, EvidenceInv, ConclusionInv
    <3>5. CASE d = Public(r)
      BY <3>1, <3>2, <3>3, <3>5, Kinds, Verification DEF CopyInv, Manifest
    <3>6. QED
      BY <3>1, <3>4, <3>5
  <2>2. \A r \in Runs: writer[r].counts \in [Streams -> 0 .. MaxRows[r]]
    BY StoreConstants DEF Shape, RunInv, EvidenceInv
  <2>3. \A rows \in Tables: DOMAIN rows \subseteq Runs
    BY DEF Tables
  <2>4. QED
    BY <2>1, <2>2, <2>3 DEF TypeOK, Shape, ExporterInv, IndexInv
<1>2. QED
  BY <1>1, Invariance, PTL

(* A manifest is found only beside the evidence of a run that came to its  *)
(* end, complete, and verifies until an artifact is changed                *)
(* (BundleWriter.finalize, seal).                                          *)
THEOREM SealedCompletely == Spec => []SealedIsComplete
<1>1. IInv => SealedIsComplete
  <2> SUFFICES ASSUME IInv, NEW r \in Runs, IsWhole(Manifest(Home(r)))
               PROVE  /\ At(r, "done") /\ ~writer[r].raised
                      /\ Complete(r, Manifest(Home(r)).of.hashes)
                      /\ Verified(Home(r)) \/ Edited(r)
    BY DEF SealedIsComplete
  <2>1. Done(r) /\ Manifest(Home(r)).of = writer[r].built
    BY Verification DEF IInv
  <2>2. SealInv(r)
    BY DEF IInv, BundleInv, RunInv
  <2>3. QED
    BY <2>1, <2>2, Verification DEF IInv, SealInv, Done, At
<1>2. QED
  BY <1>1, Invariance, PTL

(* Once sealed, no command touches an artifact or the manifest.            *)
THEOREM SealedForGood == Spec => SealedIsFinal
<1> DEFINE Final == \A r \in Runs:
                      IsWhole(Manifest(Home(r))) /\ edits' = edits =>
                        /\ Manifest(Home(r))' = Manifest(Home(r))
                        /\ Contents(Home(r))' = Contents(Home(r))
<1>1. ASSUME IInv, [Next]_vars PROVE Final
  <2> SUFFICES ASSUME NEW r \in Runs, IsWhole(Manifest(Home(r))), edits' = edits
               PROVE  \A n \in Artifacts \union {"manifest.json"}: disk'[Home(r)][n] = disk[Home(r)][n]
    BY DEF Manifest, Contents
  <2>1. Done(r)
    BY <1>1, Verification DEF IInv
  <2>2. \A q \in Runs: ~Edit(q)
    BY <1>1 DEF Edit, IInv, BundleInv, Shape
  <2>3. ~RunStep(r)
    BY <2>1 DEF RunStep, StartRun, WriteDocument, AppendRow, CloseStreams, Seal, WriteManifest, RunRaises,
                KillRun, At, Done
  <2>4. ASSUME NEW q \in Runs \ {r}, RunStep(q) PROVE disk'[Home(r)] = disk[Home(r)]
    BY <1>1, <2>4, OneRunMoves DEF IInv, BundleInv
  <2>5. CASE CommandStep
    BY <1>1, <2>5, CommandsLeaveRuns DEF IInv, BundleInv, CommandInv
  <2>6. QED
    BY <1>1, <2>2, <2>3, <2>4, <2>5 DEF Next, CommandStep, vars
<1>2. QED
  BY <1>1, Invariance, PTL DEF Spec, SealedIsFinal

(* Findings that say the root verified were computed from the artifacts    *)
(* that were sealed, whatever changed while `analyze` was at work          *)
(* (pipeline.py analyze_bundle).                                           *)
THEOREM VerifiedAreSealed == Spec => []VerifiedFindingsAreSealed
<1>1. IInv => VerifiedFindingsAreSealed
  BY Verification DEF IInv, CommandInv, ConclusionInv, VerifiedFindingsAreSealed
<1>2. QED
  BY <1>1, Invariance, PTL

(* Findings and scores, with --allow-unsealed too, rest on every document  *)
(* and every row the run wrote.                                            *)
THEOREM ConclusionsAreWhole == Spec => []ConclusionsSeeTheWholeRun
<1>1. IInv => ConclusionsSeeTheWholeRun
  BY DEF IInv, CommandInv, ConclusionInv, ConclusionsSeeTheWholeRun
<1>2. QED
  BY <1>1, Invariance, PTL

(* A copy that has a manifest has every artifact, wherever the export was  *)
(* killed (export_public).                                                 *)
THEOREM CopiesAreWhole == Spec => []CopyIsWhole
<1>1. IInv => CopyIsWhole
  BY DEF IInv, CommandInv, CopyInv, CopyIsWhole, Manifest
<1>2. QED
  BY <1>1, Invariance, PTL

(* The index is empty or has every run that was sealed when the scan       *)
(* began; of a run without a public copy it says verified only if the      *)
(* bundle was not spoilt when the scan began, and unverified only if the   *)
(* bundle was edited (reindex, upsert_run).                                *)
THEOREM IndexIsTrue == Spec => []IndexVouchesTruly
<1>1. IInv => IndexVouchesTruly
  BY DEF IInv, CommandInv, IndexInv, TrueRows, IndexVouchesTruly
<1>2. QED
  BY <1>1, Invariance, PTL

=============================================================================
