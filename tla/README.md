# chainbreak: a TLA+ model of the benchmark run

chainbreak materialises a chain of delegated identities, probes what each may
do, disturbs a policy, watches the authority change, and computes from the
evidence it wrote how authority drifted, how long a revocation took and whether
a deferred action ran on stale authority. It is a measuring instrument, so the
two things that must not go wrong are: it leaves the measured account as it
found it, or says it did not; and what the evidence says happened is what
happened. This directory models the parts of the program that decide those two.

Source paths below are relative to `src/src/chainbreak/`.

## 1. Inventory

| Part | State it keeps | Operations | Interacts with |
|---|---|---|---|
| **Run orchestration** `execution/orchestrator.py`, `execution/chain.py`, `core/clock.py` | current phase, `pending_reverts`, sequence counter, deadline | environment gate, materialise, one branch per phase kind, the `finally` block, finalize | calls everything below; writes every record to the evidence sink |
| **Plan ordering** `scenarios/plan.py` | none | `build_plan` | gives the orchestrator its steps |
| **Mutation and reversion** `execution/mutation.py`, `execution/revert.py` | revert plans | log, apply, judge the receipt, restore | provider adapter, sink |
| **Delegation** `execution/delegation.py`, `execution/credential_store.py` | `materialized.refs/credentials`, credential by (phase, identity) | materialise a graph, refresh an ageing credential, pin, resolve | provider adapter |
| **Probe matrices** `execution/matrix.py`, `control.py`, `preconditions.py` | rows of the matrix in progress | precondition check, calibration, rows, discard | provider adapter, sink |
| **Polling** `execution/polling.py` | streak, nominal elapsed time | advance or sleep, probe, judge stability | provider adapter, run clock |
| **Deferred execution** `execution/deferred.py` | none of its own | WAIT, pinned leg, fresh leg | credential store, provider adapter |
| **Task execution** `execution/task_runner.py`, `side_effects.py`, `workers/` | transcript of steps, redelegation requests | run a worker, verify side effects | provider adapter |
| **Fake provider** `providers/fake/` | virtual clock, sessions, policies, pending transition per identity, snapshots, trust blocks | delegate, probe, mutate, restore, advance | answers every call in the laboratory runs |
| **AWS provider** `providers/aws/` | sessions and service clients by role, the bootstrap session and its clients | the same calls with read-after-write confirmation and retry | STS, IAM, CloudTrail |
| **Evidence bundle** `evidence/` | open streams, hashes, manifest, SQLite index | append, finalize, seal, verify, export, reindex, migrate, archive | read by analysis and the CLI |
| **Revocation and staleness analysis** `analysis/timing.py`, `stale.py`, `pipeline.py` | none | revocation window, six-row stale-authority table | reads observations, events, credentials |
| **Authority analysis and scoring** `analysis/rules.py`, `drift.py`, `divergence.py`, `scoring/` | none | drift classes along a chain, scores | reads observations and the graph |
| **Graph construction** `graph/` | none | build, check, enumerate paths | scenario compiler, analysis |
| **Scenario schema and compiler** `scenarios/` | none | validate, synthesise policies, compile | CLI |
| **Safety gate** `core/safety.py`, `capabilities/guard.py` | budgets, recorded operations | ordered refusal checks, operation allowlist | orchestrator, adapters |
| **Catalog, settings, core data model, reporting, CLI** | static documents, values, process exit | load, render, dispatch | around all of the above |

**Interaction.** Within a run there is one thread. `orchestrate()` walks the compiled plan
and calls the adapter and the sink synchronously. There are no callbacks, no
worker threads and no locks. The concurrency is between that thread and what it
cannot see: the provider, where a write lands although its answer is lost and
becomes visible to probes later, sessions that run out by themselves, the
deadline, and the operator's `SIGKILL`. Between commands there is concurrency of another
kind: `run`, `analyze`, `evidence export` and `runs reindex` are processes that
share the runs directory and lock nothing. A third kind of distance is in time
inside the run: a credential is pinned in one phase and used phases later; a
transition that began in one phase is observed in another; and analysis reads
records long after the state they describe has gone.

**What is hard, and what makes each part correct.**

* *Reversion.* A raise or a kill can fall between any two calls. The revert log
  must name a disturbed policy before it is disturbed; reverts go newest first
  (F8/F9); a mutation on record is undone or the bundle says it was not.
* *Credentials.* The run has its own idea of "the identity's credential" while
  the fake provider answers from the identity's newest session. Every row must
  name the session that answered; an expiring credential must be replaced
  before, not in the middle of, a matrix (F6); a revoked one must not be mistaken
  for a policy denial (C-1).
* *Deferred execution.* The pinned and the fresh leg must differ only in
  credential age, and the verdict computed from the two rows must be true.
* *Polling and timing.* A transition is sampled at intervals while it may still
  oscillate; the window must bracket the true instant or say non-monotonic.
* *Evidence.* A sealed bundle verifies exactly as long as nothing was changed; a
  crash leaves a bundle that is not sealed; what is concluded from a bundle rests
  on the bytes that were sealed; a copy or an index is whole or not there.
* *Task contract.* A worker's own account is not believed: side effects decide.
* *AWS control plane.* IAM is eventually consistent, throttles, and loses answers:
  a "confirmed" receipt must mean that the write was seen, a denial must not be
  retried away, and no call may be signed by a session that has run out.
* *Authority analysis.* Cells may be unmeasured, mixed or failed, phases measure
  different identities, and drift is attributed along a path: what is concluded
  must follow from what was measured, and a gap must not pass for agreement.
* *Scenario compiler.* Expected authority is derived by a walk over delegations
  nobody has yet checked to be a tree.

Every hazard found while reading is in `PROJECT.json` under `hazards`, at its
line, with the properties that guard it or why there is none.

## 2. Modules

| Module | Models | State and actions |
|---|---|---|
| `UndoLog` | nothing in particular: the abstract promise | sites logged, disturbed, disclosed; a site is disturbed only after it is logged, put back only while winding down, and the evidence is sealed only when all remaining disturbance is disclosed |
| `ScenarioPlan` | `scenarios/plan.py` | `BuildPlan`: document order, a SNAPSHOT on either side of each MUTATE |
| `RunLifecycle` | the control of `orchestrate()`, `execution/mutation.py`, `execution/revert.py` | one action per call that can fail, and one per way it can end |
| `RunLifecycleProofs` | | the theorems about `RunLifecycle` |
| `FakeProviderProofs` | | what the fake provider's operations keep: lemmas of the two modules that compose it |
| `CredentialFlowProofs` | | the theorems about `CredentialFlow`, and the truth of the verdicts of `StaleAuthority` |
| `RevocationWindowProofs` | | the theorems about `PollWindow` and the windows of `RevocationWindow` |
| `EvidenceStoreProofs`, `AwsControlPlaneProofs`, `TaskContractProofs`, `AnalysisPipelineProofs` | | the theorems about the module each is named after (the last: and about the compiler, rules and categories it is made of) |
| `FakeProvider` | `providers/fake/`: sessions, policies, delayed and oscillating visibility, snapshots, trust blocks | operators the composing modules use as actions: `Issue`, `Mutate`, `EnableCaching`, `AdvanceClock`, `Answer` |
| `CredentialFlow` | PROBE, MUTATE, WAIT and DEFERRED_EXECUTION branches with `delegation.py`, `matrix.py`, `control.py`, `credential_store.py`, `deferred.py` | composes the run with `FakeProvider`; writes observations, events, credentials |
| `StaleAuthority` | `analysis/stale.py`, the table of `analysis/timing.py` | operators over the bundle a `CredentialFlow` run left |
| `PollWindow` | POLL, MUTATE and WAIT branches with `polling.py` and the run clock | composes the run with `FakeProvider`, once with its virtual clock and once paced by real time |
| `RevocationWindow` | `analysis/pipeline.py` `revocation_measurements`, `analysis/timing.py` `compute_revocation_window` | operators over the bundle a `PollWindow` run left |
| `EvidenceStore` | `evidence/writer.py`, `manifest.py`, `export.py`, `index.py`, `cli/analyze.py` | the files of the runs directory, and where each of `run`, `analyze`, `export`, `reindex` stands |
| `AwsPolicies` | `providers/aws/mutation.py` over IAM | the inline and trust policies of each agent role, the documents a read may still return, and the operation under way, one IAM call per action |
| `AwsControlPlane` | `providers/aws/adapter.py`, `session.py`, `retry.py`, `probes.py`, `disambiguation.py` | extends `AwsPolicies` with sessions, client caches, the bootstrap session, delegation and probes with their retries |
| `TaskContract` | `execution/task_runner.py`, `side_effects.py`, `workers/`, `analysis/task_contract.py` and the three rules of `analysis/rules.py` it applies | one task phase after another: a worker's steps, the runner's log and verdict, the analysis |
| `AuthorityRules` | `graph/divergence.py`, `graph/paths.py`, `analysis/authority.py`, `divergence.py`, `confidence.py` and the authority rules of `analysis/rules.py` | pure operators over a graph whose nodes carry the trials of one phase |
| `CategoryScores` | `scoring/categories.py`, `coverage.py`, `confidence.py`, `aggregate.py`, `analysis/detector.py`, `compare.py` | pure operators over the analysis of one or two runs |
| `ScenarioCompiler` | `scenarios/compiler.py`, `loader.py`, the cross-field validators of `schema.py`, `graph/builder.py` | the depth-first walk of `_build_nodes_and_edges` as a machine, and every way a document is rejected |
| `AnalysisPipeline` | `analysis/pipeline.py` between the compiler and `compare` | composes the three: a document is compiled, its matrices are measured or discarded, the evidence is analyzed, scored and compared |
| `MC*` | | finite instances for TLC |

### RunLifecycle and the code

`pc` names where the thread stands: `authorize`, `materialize` (setup),
`phase` (top of the loop), `send`/`receipt`/`record` (inside a MUTATE branch),
`unwind`/`restoring` (the `finally` block) and the three ends. `plan` and `at`
are `compiled.plan` and the loop index; `pending` is `pending_reverts` as plan
indices and `left` the part of it `reversed(...)` has not visited; `expired` is
the `RunClock`; `raised` says an exception is propagating. `drift` is the
provider: the (identity, policy layer) sites that may differ from the declared
state. `logged`, `applied`, `reverted`, `doubtful` are the four kinds of event
in the bundle, each as the plan indices it was written for.

Every call that may raise has an action that raises. A policy write lands or
does not, independently of whether its answer arrives, so a mutation can raise
after landing and a restore can raise after restoring. A *confirmed* receipt is
taken to be true (`ReceiptConfirmed` needs the site to be disturbed): this is
the provider contract, which the fake provider keeps; what a receipt of the AWS
adapter is worth is examined in `AwsControlPlane`. `DELETE_SESSION_POLICY_SCOPE`
changes nothing at either provider and is not undoable, as in
`build_revert_plan`. All phases but MUTATE
leave policies alone and are one step here.

### CredentialFlow, FakeProvider and the code

A credential id is an index in `issued`, the sequence of sessions ever issued;
`Latest(i)` is the last id of `_credentials_by_identity`. `creds` is
`materialized.credentials`, `store` the `CredentialStore`, `rows` the list
`run_probe_matrix` accumulates before the orchestrator writes it. Probing is one
step per identity row: nothing the rows of one identity depend on changes
between its cells, and the code's shuffle within an identity permutes them only.
Preconditions fail nondeterministically; a transient fault may hit any cell, up
to `MaxFaults` per row. An observation carries three fields the code does not
write (`session`, `alive`, `current`): what really answered it, whether that
session was alive, and what the policy in force says. They are read only by
properties.

Left out of `CredentialFlow`: POLL (in `PollWindow`), TASK (in `TaskContract`), the `finally` block (in `RunLifecycle`), trials, PROBE_ORDER_SHUFFLED.
Left out of `FakeProvider`: throttling after n calls, scratch markers, policy
snapshots (read-only). Time is in ticks; the real-time sleep of WAIT is not
modelled because the fake provider's clock is virtual.

### PollWindow, RevocationWindow and the code

One turn of the `while True` loop is three steps, as the clock may move between
them: *pace* (advance the virtual clock, or check the run clock), *poll* (probe,
extend or reset the streak, count one nominal interval) and *judge* (stable,
timed out, or again). The polls of a phase stay in `polls` until it ends: a run
that raises inside the loop writes none of them. With `pacing = "virtual"` the
run's deadline is unrelated to the fake provider's clock, so it may raise at any
check; with `"real"` both are one clock, a probe takes some ticks of it, and the
checks are exact. What a real provider answers is taken to be what the fake one
would: a transition that becomes visible, perhaps after flipping a few times.
`pending[i].shown` holds the instants before settling at which an odd number of
flips has passed. An observation carries one field the code does not write,
`alive`, for the preconditions of properties.

`RevocationWindow` speaks of samples by their positions in the bundle. The
code sorts the samples of a cell by time first; the run's clock never goes back, so
that the order of the bundle is the order of time (`TimesInv`, proved).

Left out: PROBE phases between polls (their re-delegation is in
`CredentialFlow`), the stray `poll_interval_ms=500` constant of `pipeline.py`,
which only reaches the wording of a finding.

### EvidenceStore and the code

`disk` maps a directory (a run's own, or its public copy beside it) and a file
name to the file: absent, torn, or whole with what went into it. `write_text`
truncates before it writes, so every document that another command may read is
written in two steps; the documents of a run still being written are one step,
as nothing reads a directory without a manifest. A SHA-256 is the contents.
`writer`, `analyzer`, `exporter` and `reindexer` say where each command stands
and what it holds in memory; `index` is the committed `runs` table, `rows` those
of the open transaction. `reindexer.todo` is the set of directories the scan has
not visited, and `Before` the order of the listing it takes them in. `Kill*` drops the command's memory and leaves the
files; for the reading commands it also stands for a reader that raises.
`due` and `spoilt` are what was sealed, and what no longer verified, when a scan
began: they are read only by properties.

`Edit` is the file system's part: an artifact of a sealed bundle changes between
two steps of anything. Some bytes of a document are `marked`: something `export`
has to scrub.

Left out: two commands of the same kind at once; `analyze` or `export` of a
public copy; a torn last line of a stream (the run is then never sealed);
`--dry-run`; `archive`, which stages in a temporary directory; `migrate`, for
which no migration is registered; the findings tables of the index; edits that
come before the seal.

### AwsPolicies, AwsControlPlane and the code

A policy document is the set of its statements; `{}` is "no such policy". `iam`
is what IAM holds, `views` what a read may still return: every document written
since the role last settled. IAM guarantees no more. `call` is the operation of
`mutation.py` in progress; each `put`, `delete` and read is an action, can be
throttled (any `ClientError`, which `_try_get_role_policy` reads as absence and a
delete suppresses) and can take effect although its answer is lost. The poll loop
ends when the document it wants is read or the time is up. `lossy`, `read` and
the document written are remembered for the properties only.

`sessions` and `clients` are `_identity_sessions` and `_clients_cache`: the second
keeps, per role, the session its clients were built from. `boot` and
`bootClients` are the bootstrap pair. IAM decides a probe from any combination
of statements in view. `Exchange` is one turn of `call_with_retry`; a retry
repeats the probe from its first call. The adapter is called by one thread, so
one operation or probe is under way; time passes between any two calls.

Left out: preflight, cleanup, CloudTrail lookups (nothing here reads them), the
principal's own policies, the `delegation` graph beyond the fixed agent chain.

### TaskContract and the code

`work` holds the worker's locals and the runner's invocation log. `InvokeStep`
is one call through the invoker, which the provider grants or denies; a
redelegation request is refused before it reaches the provider and is not
logged. `Conclude` folds each repeat into the slot of the call before it (`Place`), compares
slots with the declared steps, and asks the provider for the output marker; on AWS the answer may be
"absent" for reasons of its own (outputs other than the two scratch writes
cannot be looked up, any `ClientError` reads as absent). Two phases may name one
task and then share its marker.

Properties speak of *tidy* plans, because the runner's comparison is positional:
two equal consecutive steps fold into one slot and shift the rest, and a declared
`identity.delegate` never enters the log.

### AuthorityRules, CategoryScores, ScenarioCompiler, AnalysisPipeline and the code

A graph is a record of parents, expected and intended authority, and, for each
identity, the trials of each capability in one phase; an identity that was not
probed has an empty row. Every rule is an operator from a graph to the findings it
emits. A finding is a record of its type, identity, gained and lost
capabilities, confidence and references; `Id` is `_deterministic_finding_id`,
`Content` is `_content_fingerprint` with the wording reduced to the one thing in
it that differs between runs, the id it cites. `background` counts capabilities
that behave as expected everywhere: they matter to coverage only.

The compiler's walk has a stack of frames, `todo`, because the second parent, the
cycle and the unreachable identity are rejected at different times, and a
delegation back to the root is not noticed before the walk is over its depth
(`MaxFrames`, the interpreter's recursion limit).

`MeasureMatrix` records, for each cell of a matrix, any allowed row of trials;
two matrices of one phase add to the same rows. What the other axes contribute
to scoring (windows, deferrals, tasks) is chosen freely in `MeasureOtherAxes`
within what the plan can produce: those axes have modules of their own. A
transition window is a set of instants, so that overlap is intersection. Only a
completed run is analyzed, as an aborted one has no manifest. `Compare` sets the
run against the same bundle, a replay, a run of another version or
infrastructure, and every run that differs in one cell or one window
(`OtherRuns`). `MeasuredIn` and `Accumulated` speak of phases by their positions in
`PhaseOrder`, the order in which `sorted(phases_present)` folds them.

Left out: depth sweeps (`drift.py`), the quartiles of aggregation, remediation
text, the capability catalog.

## 3. Runs

| Run | Question | Bounds | Result |
|---|---|---|---|
| `run_lifecycle` | does any interleaving of failures, deadline and kill break the log, the order, the undoing or the disclosure; does the run end; does it implement `UndoLog` | every plan of one probe and up to 2 mutations over 2 identities, 3 mutation kinds, receipt required or not | holds, 67,088 states |
| `run_revert_claim` | "reverted regardless of how the run ended" | the same | violated: a mutation that landed but was not confirmed is never reverted |
| `credential_flow` | attribution, liveness of matrices, F6 and the truth of the stale verdict | every plan of up to 4 phases of PROBE, MUTATE, WAIT, DEFERRED_EXECUTION over a two-hop chain | holds, 215,776 states |
| `deferred_pin_claim` | "exactly the credential minted at `credential_source`" | the same | violated: the newest session answers |
| `revocation_window` | when polling stops, and whether the measured window is true of what the provider did | a warm-up, any two phases (POLL of either identity, MUTATE of either, WAIT), perhaps a last poll; 2 transient faults; both pacings | holds, 869,626 states |
| `evidence_store` | what a seal, a verdict, a copy and an index row vouch for while other commands run or die | two runs, one of them analyzed, exported and edited; one stream, one document; 1 edit, 3 commands | holds, 2,951,480 states |
| `aws_control_plane` | what a confirmed receipt means, whether an IAM operation outlasts its clients, whether a denial survives the retries | two agent roles, one of them the stale control; seven mutations; 3 operations, clock to 4 | holds, 1,965,206 states |
| `aws_fresh_leg_claim` | "unconditionally mints a brand-new credential" for the fresh leg | the same, 4 operations | violated: cached clients sign with the session before |
| `task_contract` | is the honest worker ever accused, a missing output ever missed, a substitution ever misjudged | 4 workers, 3 `on_failure`, 9 shapes of up to 3 steps, 2 phases, both providers | holds, 432,576 states |
| `authority_analysis` | does the compiler accept only trees, and do findings, paths, scores and comparisons follow from the measurements | a root and two agents, 2 capabilities that may surprise, 4 kinds of trial row; 8 documents to run and some 150 more for the compiler | holds, 145,469 states |
| `replay_claim` | "measured the identical thing" compares equal | one document | violated: a cited finding id is part of the content |
| `survival_claim` | "DIVERGENT when any edge has survived_incorrectly" | one document | violated: the edge's ends are measured in different phases |

**Why the bounds are enough.** Two mutations are the smallest number with an
order to get wrong, with an older plan skipped behind a failing newer one, and
with two disturbances of one site; two identities give two sites per layer; the
three kinds are the three classes `build_revert_plan` and `revert_mutation` tell
apart (inline, trust, nothing to revert); the other kinds take the same path.
The proofs of section 4 remove the bounds for every safety property that is
checked here. In `credential_flow`, a lifetime of 5
ticks with waits of 1 and 4 lets a credential be fresh, inside the re-delegation margin (2 x estimate), expired, and expired
exactly at the probe; delays 0 and 2 with a wait of 1 put a probe inside the
propagation window; four phases hold probe - mutate - wait - deferred, a
re-delegation between pinning and deferral, and two deferrals of one cell. The
deferral sources 1 and 3 are a phase that always recorded a credential and one
that may not have. In `revocation_window` the interval is 2 ticks, a transition
takes 0 or 5 and flips 0 or 3 times in between, so polls fall before, between and
after the flips and every order of up to three allow/deny changes is sampled;
streaks are of length 2, and 2 faults are what it takes to imitate one; a
duration of 5 is not a multiple of the interval while 8 and 4 are; lifetime 15
runs out in the longest plans; a real deadline of 12 falls inside a poll phase.
In `evidence_store` a second run lets an index be half built, a document beside
a stream lets a copy be half made and lets only part of a bundle be spoilt, and
three commands are an export, an analysis and a reindex, or one of them again
after it was killed.
In `aws_control_plane` three operations are a mutation, a second one under the
same policy name and a restore, or a delegation, a re-delegation and a probe;
with a poll timeout of 1, a skew of 2, a bootstrap lifetime of 3 and a clock to 4
the bootstrap session is fresh, within its skew, and expired when an operation
begins, and an operation can span the instant; three attempts hold a retry, a
retry of the second call of a probe, and the last attempt. In `task_contract`
three steps hold a repeat that is not adjacent, a redelegation in the middle and
an output that is not first; two phases are what sharing a marker takes. In
`authority_analysis` a chain of two hops has an origin, a propagated and an
amplified drift, and a gap in the middle; the rows are all allowed, all denied,
split, and failed; documents probe the identities in separate phases, in one,
and one identity twice; four more have the timing and task phases, with one or
two deferrals, or with every poll before the mutation; the rest are every pair of delegations over three identities and
single faults, for the compiler.
`CHECK_DEADLOCK FALSE`: a run stops when it ends, and so do the operator and
the bounded number of AWS operations. `TaskContract` and `AnalysisPipeline` rest by an
explicit stuttering action when they are done, and are checked for deadlock.

**Fairness.** `RunLifecycle!Spec` has `WF_vars(Step)`: the run is one thread of
synchronous calls, each of which returns or raises (adapter calls have their own
timeouts, the sink is a local file), so while the process lives it takes its next
step. Nothing is assumed of `Kill` and `DeadlinePasses`. `RunEnds` rests on it,
and no other property does. The other specifications are safety only.

## 4. Proofs

Every theorem holds for all values of the constants that satisfy the assumptions
named with it, which say no more than what the code validates or the compiler
returns. TLC evaluates each assumption on the run of its module. The proofs share
one plan: an invariant `IInv` that is inductive, in named parts, with one lemma for
each part that says the step keeps it; then each property from `IInv`.

### RunLifecycleProofs

Assumes `PlansAreSequences` (a plan is a finite sequence of well-formed steps).

* `TypeCorrect` - `TypeOK`, with `Control`: which flags and counters go with
  which program point (a mutation being sent is already logged; a restore is out
  only for an actionable plan; nothing has failed while the try block runs).
* `WriteAheadRevertLog` - `DriftIsLogged`. Inductive given `Control`: the one
  step that disturbs a site is `SendMutation`, at the logged index.
* `RevertsNewestFirst` - `NewestFirst`. Not inductive: it needs that recorded
  mutations are exactly the remembered ones in increasing order, and that
  everything recorded and *above* `left` has been attempted, while everything
  attempted is above it.
* `RecordedMutationsAreUndone` - `AppliedIsUndone`. Needs that, with no failed
  restore, the site of every visited plan is clear: a later restore only removes
  disturbance, and no mutation is sent while unwinding.
* `SealedBundleDiscloses` - `SealedDiscloses`. Needs an accounting of drift on
  the way to a *normal* end: until an exception is raised each disturbed site is
  that of the mutation in flight or of a remembered plan still to be visited,
  and afterwards of one reported as unconfirmed.
* `RunImplementsUndoLog` - every behaviour of `RunLifecycle` is one of `UndoLog`
  under `Intents`, `drift`, `Disclosed`, `Stage`; step by step, with sealing
  justified by the disclosure invariant.

### CredentialFlowProofs

Assumes `ProviderConstants` (the chain is a sequence of identities without
repetition, authority only narrows, a lifetime above zero), `FlowConstants` (a row
takes time, there is a control capability) and `PlansAreCompiled`.

* `TypeCorrect`, `RowsAttributed`, `MatricesLive`, `NoExpiryLoss` - the four
  properties, from `Invariance`. `CredsInv` is the heart of it: the credential the run
  holds of an identity is the newest session of that identity. It is what makes a
  row that the *newest* session answered carry the right name, although the
  provider never looks at the credential it is handed. `MatrixInv` says that, while
  a matrix is prepared, the credentials already checked outlive it; a
  re-delegation in the middle takes no time, so it cannot spoil an earlier check.
* `StaleVerdictTrue` - `StaleVerdictIsTrue`, from `DeferralInvariance`: what was
  allowed was allowed by a session alive at the time (`AllowedInv`), a phase's rows
  are its own (`PhaseInv`), between the two legs neither the policy in force nor the
  clock moves and the fresh session carries that policy (`LegsInv`), so the fresh leg
  says what the pinned row noted of the policy (`PairsInv`). `VerdictTable` then
  goes through the six rows of the code's table.

### RevocationWindowProofs

Assumes `ProviderConstants`, `PollConstants` (round trips take time) and
`PlansAreCompiled`.

* `TypeCorrect`, `StableStops` - `TypeOK` and `StableStopsAreStreaks`. `StreakInv`
  gives the counter its meaning (the last `streak` polls match and the one before
  does not), and that no streak was long enough before. Without the second half
  the property is not inductive: a stop says what was *not* passed over.
* `NoCauselessTransition` - `NoTransitionWithoutCause`. `UntouchedInv`: an identity no
  mutation names keeps what it was granted, and every sample of it says so unless
  its session had run out.
* `WindowTrue` - `WindowIsTrue`. `SoleInv`: the samples of the identity the only
  mutation names say what was granted until that mutation was sent, and afterwards
  what the transition shows at their time. With `TimesInv` (times strictly increase
  along the bundle) the last allowed sample lies before the instant of settling and the
  first denied one after it not before.
* `FlipFlop` - `FlipFlopDisclosed`. Pure counting on the bundle: between a denial and
  a later allow, and between that allow or a later one and the first denial after it, lie
  two changes (`ChangeBetween`), each found as the least position at which it can lie.

### EvidenceStoreProofs

Assumes `StoreConstants` (the artifacts are the streams and the documents, which
are distinct, and none has the name of the manifest, findings or scores).

* `TypeCorrect`, `SealedCompletely`, `SealedForGood` (an action property),
  `VerifiedAreSealed`, `ConclusionsAreWhole`, `CopiesAreWhole`, `IndexIsTrue`. The
  invariant is stated by owner: `EvidenceInv` and `SealInv` for the run that writes a
  bundle, `AnalyzerInv` and `ConclusionInv`, `ExporterInv` and `CopyInv`, `IndexInv`.
  What each command holds in memory is tied to what is on disk *or was edited since*
  (`SameOrEdited`), which is how far another process can get between its steps.
  `IndexInv` needs, for a scan, that each run sealed when it began has its row or is
  still to be visited, and that an edit is never taken back.

### AwsControlPlaneProofs

Assumes `PolicyConstants`, `Bounds` and `Timing` (the poll timeout is shorter than the
skew with which a session is renewed, and that shorter than its lifetime: the
defaults of the code).

* `TypeCorrect`, `RemovalsHold`, `StrictReceipts`, `IamClientsOutlive`, `DenialsFinal`.
  `CallEffect` says, for each point of each operation, what the calls made so far
  have done to the role unless an answer was lost; `SigningInv`, that an operation
  began with clients of the cached bootstrap session that outlive its polling, which
  rests on `Timing` (that IAM is called with no other clients is how the model and
  `mutation.py` are written, and nothing is claimed of it); `ProbeInv`,
  that no answer to a probe still under way was a denial.

### TaskContractProofs

Assumes `PlansHaveSteps` (a plan has a known worker and at least one step) and
`ProvidersKnown` (no adapter but the fake and the AWS one).

* `TypeCorrect`, `MissingReported`. A call that was allowed wrote, a marker and a
  verification speak of a write, and what was written stays written.
* `HonestNotAccused`, `SubstitutionJudged`. `LogInv`: every logged call asked for what the
  step of its slot wants, and the log has reached the step before the worker's, or the
  worker's own while it is retried; `PlaceAppends` says which slot one more call takes,
  and neighbouring steps of a tidy plan want different things (`FollowableSteps`).
  `JudgedInv`: with such a log an outcome names a substitution exactly when the worker
  stands in for its output, and an honest worker's claims on the fake are verified.

### AnalysisPipelineProofs

Assumes `RootIsNoAgent`, `CompilerConstants`, `DocumentsAreFinite` (a document lists
finitely many delegations and phases, over a finite catalog) and `RunConstants` (a
cell has at least one trial, a window at least one poll).

* `TreeCompiled` - `CompiledIsATree`. `WalkInv`: every frame on the stack and every
  node built descends from its parent by a delegation of the document. A node that is
  visited again is rebuilt as it was, because its delegation is its only one
  (`TargetedOnce`); where a delegation leads back to the root nothing is claimed of
  the walk, and `GraphIsValid` keeps such a document from being compiled.
* Everything defined along the tree (`PathTo`, `Origin`) is a recursive function whose
  existence is not free: `TreeRecursion` builds it depth by depth from the hops of the
  nodes, and what holds along it is shown for a counterexample of least depth.
* `FindingsSupported`, `OriginsThreaded`, `CleanPathsMeasured` - the three properties
  of the findings. `RowsInv`: whatever matrices ran, every cell has trials and nothing
  but outcomes in them. `VerdictInv`: the result is what `AnalyzeBundle` makes of the
  completed run. One lemma per rule says what its findings report (`ExpansionSays`,
  `DriftSays` and so on), and `OriginReached` follows a gain upwards to the expansion it
  came from, with a gain at every identity between.
* `TypeCorrect`, `VerdictsEarned` - `TypeOK` and `VerdictsAreEarned`. `AxesInv`: what the
  other analyses hand over is plain, and a window without a transition is among it.
  `FinalizeSays` is the 70% rule, the failed control and the least confidence for any
  evaluation; one lemma per category then says what its evaluation counts.
* `ChangesReported` - `ChangesAreReported`, with `ReportInv` (what is compared is the
  result and another run of the scenario, which the later steps leave alone). The
  findings of one content are few (`FewFindings`), so that their count is a number.
  Every measured identity has a finding that tells what it held, and either its phase
  or, for a drift carried down, the run in the id it cites (`EveryoneTells`); no finding
  of a run that observed otherwise has that content (`Foreign`), so the counts differ.

### What is only model-checked

`RunEnds` is liveness and outside the prover. The five claims of section 5 are
violated, and a counterexample is their proof. Every other property of the runs is a
theorem. No module uses a RECURSIVE operator.

## 5. Findings

Places where a docstring promises what the code does not do, each shown by a
violation run and quoted in `PROJECT.json`:

1. an unconfirmed or raising mutation is not reverted (`run_revert_claim`);
2. a deferred probe is answered by the newest session and only *labelled* with
   the pinned credential (`deferred_pin_claim`);
3. at the AWS provider the fresh leg is signed by the session the role's clients
   were first built from (`aws_fresh_leg_claim`);
4. two runs that measured the same propagated drift compare as DIVERGENT
   (`replay_claim`);
5. authority that survived an edge whose ends were measured in different phases
   leaves DELEGATION_INTEGRITY consistent (`survival_claim`).

Met while reading and not given a run, by part:

* *Run and credentials.* A credential minted by re-delegation names observations
  but is never written (`orchestrator.py:246`, against its docstring at `:163`),
  and `stale.py:75-79` then skips its rows. A deferral whose fresh leg failed with a
  transient error is reported as stale (`timing.py:161`, against `:140-142`). With two
  deferrals of one cell the later fresh leg overwrites the earlier one
  (`stale.py:54-57`). On the fake provider a second mutation of an identity whose
  first is still settling makes the first visible at once (`fake/adapter.py:556`). A
  restore that raises leaves the older mutations unreverted (`orchestrator.py:477-481`):
  the run is then aborted, and the revert log names what is left. The
  real-provider poll loop does not sleep while more than an interval is left
  before the deadline (`polling.py:96-100`, against `:18-19`).
  `AUTHORIZATION_MODEL.md` (5.1) ends polling at credential expiry, the loop does
  not look at it, and a denial by expiry then reads as the end of the window. A run
  of allow, deny, allow that times out is reported as
  `NO_TRANSITION_OBSERVED_WITHIN_WINDOW` without a note of the flip.
* *Evidence.* The verdict on a public copy overwrites the verdict on the run in the
  index (`index.py:180`). A manifest or a `findings.json` caught half-written makes
  every `reindex` raise and leaves the index empty until it is mended.
  `scores.json` is computed from a reading of its own that nobody verifies.
  `analyze --aggregate` takes a public copy for one more run. A finding's id
  leaves out capability, phase and run, and the index inserts by it with
  `INSERT OR REPLACE` (`index.py:215-245`).
* *AWS.* A delete that fails is suppressed (`mutation.py:199-201`, `:343-344`), and a
  read that fails counts as absence (`:407-413`), so a restore can be confirmed
  that removed nothing. `REPLACE_INLINE_POLICY` is confirmed by any document.
* *Tasks.* "Always agree" (`deterministic.py:47`) does not hold on AWS, where an
  output other than a scratch write cannot be verified and any `ClientError`
  reads as absent (`adapter.py:533-550`): the honest worker is then accused of
  silent narrowing. A marker left by an earlier phase of the task vouches for a
  later one. With `[whoami, write]` the substituting worker is not caught
  (against `deterministic.py:136-141`).
* *Compiler.* A delegation back to the root makes `visit` (`compiler.py:144`)
  recurse without end, before the graph checks could reject it.
* *Analysis.* `rule_execution_error` (`rules.py:612`) and the aborted statuses are
  never reached: `orchestrate` finalizes only completed runs. A cell whose trials
  all failed yields AUTHORITY_NARROWING of MEDIUM confidence at coverage 0.9 and
  above (against `models.py:706-708`). An ORIGINATED drift cites the parent's
  expansion even when it is of another capability; the capability an AMPLIFIED
  hop adds has no expansion finding, so its child cites the wrong origin. Phases
  are folded in the order of their names, so POST_DELEGATION overwrites FINAL.
  Polls that all precede the mutation are measured against it and found to have no
  transition (`pipeline.py:168-178`), although none counts as applicable
  (`categories.py:253-272`). `coverage_ratio` raises when a warm-up poll of another cell makes more windows
  measured than applicable. A PROBE phase whose name maps to no plan phase fails
  only at run time.

Properties that hold are stated with the preconditions the findings force
(`StaleVerdictIsTrue` speaks of rows answered by the session they name,
`WindowIsTrue` of cells whose credential lived through every poll).

## 6. Plan

* `SafetyGate`: the order of the refusals, the operation allowlist, the budgets,
  and the preflight checks before a run on AWS.
* Cleanup after a killed AWS run: what `cleanup.py` finds with the revert log.
* Proofs next: that `FakeProvider` and `AwsControlPlane` keep one promise of a provider,
  as an abstract specification of receipts.

## 7. Not modelled

The safety gate and budgets (planned); AWS preflight and cleanup; redaction
patterns, canonical JSON, identifiers, HTML and CLI rendering, figures,
Terraform output parsing, catalog and settings loading, validators of single
fields: text and value processing with no interleaving. Depth sweeps
(`analysis/drift.py`) and the quartiles of aggregation are arithmetic on results the
modules do have. Seeds, shuffles and the number of trials are left out because no
property tells the orders apart.

## 8. Running

    tlc -config MCRunLifecycle.cfg MCRunLifecycle.tla
    tlc -config MCCredentialFlow.cfg MCCredentialFlow.tla
    tlc -config MCRevocationWindow.cfg MCRevocationWindow.tla
    tlc -config MCEvidenceStore.cfg MCEvidenceStore.tla
    tlc -config MCAwsControlPlane.cfg MCAwsControlPlane.tla
    tlc -config MCTaskContract.cfg MCTaskContract.tla
    tlc -config MCAnalysisPipeline.cfg MCAnalysisPipeline.tla
    tlapm RunLifecycleProofs.tla
    tlapm FakeProviderProofs.tla
    tlapm CredentialFlowProofs.tla
    tlapm RevocationWindowProofs.tla
    tlapm EvidenceStoreProofs.tla
    tlapm AwsControlPlaneProofs.tla
    tlapm TaskContractProofs.tla
    tlapm AnalysisPipelineProofs.tla

`MCEvidenceStore` and `MCAnalysisPipeline` take a minute or two each. A `*Claim.cfg` is expected to report a violation.
