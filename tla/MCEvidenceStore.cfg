SPECIFICATION Spec
CHECK_DEADLOCK FALSE
CONSTANTS
  Runs <- MCRuns
  Streams <- MCStreams
  Documents <- MCDocuments
  ArtifactNames <- MCArtifactNames
  MaxRows <- MCMaxRows
  MaxEdits = 1
  MaxCommands = 3
  Handled <- MCOneRun
INVARIANTS
  TypeOK
  SealedIsComplete
  VerifiedFindingsAreSealed
  ConclusionsSeeTheWholeRun
  CopyIsWhole
  IndexVouchesTruly
PROPERTY SealedIsFinal
