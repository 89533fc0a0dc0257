\* Every worker over nine shapes of up to three steps; two phases name the task, so
\* that the second one meets the marker of the first.
SPECIFICATION Spec
CONSTANTS
    Plans <- MCPlans
    Providers = {"fake", "aws"}
    Checkable = {"objectstore.write", "keyvalue.write"}
    MaxExecutions = 2
INVARIANTS
    TypeOK
    HonestIsNotAccused
    MissingOutputIsReported
    SubstitutionIsJudged
