--------------------------- MODULE CredentialFlow ---------------------------
(***************************************************************************)
(* Which session answers a probe and which credential the evidence says    *)
(* answered it: the PROBE, MUTATE, WAIT and DEFERRED_EXECUTION branches of *)
(* orchestrate() with delegation.py, credential_store.py, matrix.py,       *)
(* control.py and deferred.py, run against the fake provider.              *)
(*                                                                         *)
(* The run keeps its own idea of each identity's credential (creds) beside *)
(* the provider's (the identity's newest session), pins credentials by     *)
(* phase (store) and buffers a matrix's rows until the matrix is complete. *)
(* An observation here also carries, for the properties only, the session  *)
(* that answered, whether that session was alive, and what a fresh session *)
(* would have been told.                                                   *)
(***************************************************************************)
EXTENDS FakeProvider

CONSTANTS
  Plans,     (* compiled plans, without their policy snapshots              *)
  Controls,  (* control capabilities (C-1)                                  *)
  PerRow,    (* estimated duration of one identity's row of a matrix        *)
  MaxFaults  (* bound: transient errors injected into one identity's row    *)

VARIABLES
  pc,            (* where the run stands                                    *)
  plan,          (* compiled.plan                                           *)
  at,            (* index of the current phase, which also names it         *)
  row,           (* position in the current phase's list of identities      *)
  creds,         (* materialized.credentials                                *)
  store,         (* CredentialStore: <<phase, identity>> -> credential      *)
  rows,          (* observations of the phase, not yet written              *)
  observations,  (* observations.jsonl                                      *)
  events,        (* events.jsonl                                            *)
  credentials    (* credentials.jsonl                                       *)

bundle == <<observations, events, credentials>>
run == <<pc, plan, at, row, creds, store, rows, bundle>>
vars == <<provider, run>>

ASSUME FlowConstants ==
  /\ PerRow \in Nat \ {0} /\ MaxFaults \in Nat
  /\ Controls \subseteq Capabilities /\ Controls # {}

(* A matrix has at least one identity (ProbeMatrix.identities).             *)
PlanPhase ==
  [kind : {"PROBE"}, targets : Seq(Identities) \ {<<>>}]
  \union [kind : {"MUTATE"}, target : Identities,
          mutation : [kind : STRING, denies : SUBSET Capabilities, grants : SUBSET Capabilities]]
  \union [kind : {"WAIT"}, ticks : Nat]
  \union [kind : {"DEFERRED_EXECUTION"}, target : Identities, source : Nat]

ASSUME PlansAreCompiled == \A p \in Plans : p \in Seq(PlanPhase)

Phase == plan[at]
Target == Phase.targets[row]
Running(kind) == at \in DOMAIN plan /\ Phase.kind = kind

Init ==
  /\ ProviderInit
  /\ plan \in Plans
  /\ pc = "materialize" /\ at = 1 /\ row = 1
  /\ creds = <<>> /\ store = <<>>
  /\ rows = {} /\ observations = {} /\ events = {} /\ credentials = {}

(* materialize_graph walks the edges in hop order; the root keeps no        *)
(* credential.                                                              *)
Materialize ==
  /\ pc = "materialize"
  /\ issued' = [k \in DOMAIN Edges |-> Session(Edges[k])]
  /\ creds' = [i \in Identities |-> CHOOSE k \in DOMAIN Edges : Edges[k] = i]
  /\ credentials' = DOMAIN Edges
  /\ pc' = "phase"
  /\ UNCHANGED <<clock, policy, revoked, pending, caching, blocked>>
  /\ UNCHANGED <<plan, at, row, store, rows, observations, events>>

EndPhase == pc' = "phase" /\ at' = at + 1 /\ row' = 1 /\ rows' = {}

-----------------------------------------------------------------------------

(* One cell: the provider answers, or injects a transient error.           *)
Cell(phase, i, label, c, fault) ==
  [phase |-> phase, at |-> at, identity |-> i, capability |-> c,
   credential |-> label, time |-> clock,
   outcome |-> IF fault THEN "ERROR_TRANSIENT" ELSE Answer(i, c),
   session |-> Latest(i), alive |-> Live(Latest(i)),
   current |-> Evaluate(policy[i], i, c)]

Cells(phase, i, label, faults) ==
  {Cell(phase, i, label, c, c \in faults) : c \in Capabilities}

Faults == {cells \in SUBSET Capabilities : Cardinality(cells) <= MaxFaults}

Estimate == Len(Phase.targets) * PerRow

(* Mutant: redelegate only once the credential has already run out.        *)
NeedsRedelegationLate(c) == issued[c].expires - clock < 0

NeedsRedelegation(c) == issued[c].expires - clock < 2 * Estimate

StartMatrix ==
  /\ pc = "phase" /\ Running("PROBE")
  /\ pc' = "ensure"
  /\ UNCHANGED <<provider, plan, at, row, creds, store, rows, bundle>>

(* CredentialStore.record: a later credential overwrites an earlier one.    *)
Recorded(c) ==
  [key \in DOMAIN store \union {<<at, Target>>} |-> IF key = <<at, Target>> THEN c ELSE store[key]]

(* Mutant: the second pass over the identities starts where the first ended*)
RememberWithoutReset(c) ==
  /\ store' = Recorded(c)
  /\ row' = row + 1
  /\ pc' = IF row < Len(Phase.targets) THEN "ensure" ELSE "probe"
  /\ UNCHANGED <<plan, at, rows, observations, credentials>>

(* The credential an identity holds as a phase begins is the one that       *)
(* credential_source: phase:<name> will mean.                               *)
Remember(c) ==
  /\ store' = Recorded(c)
  /\ IF row < Len(Phase.targets)
     THEN row' = row + 1 /\ pc' = "ensure"
     ELSE row' = 1 /\ pc' = "probe"
  /\ UNCHANGED <<plan, at, rows, observations, credentials>>

KeepCredential ==
  /\ pc = "ensure"
  /\ ~NeedsRedelegation(creds[Target])
  /\ Remember(creds[Target])
  /\ UNCHANGED <<provider, creds, events>>

(* Mutant: the new credential is issued but not kept.                      *)
RedelegateUnkept ==
  /\ pc = "ensure"
  /\ NeedsRedelegation(creds[Target])
  /\ Issue(Target)
  /\ events' = events \union {[kind |-> "CREDENTIAL_REDELEGATED", at |-> at,
                               identity |-> Target, new |-> NextId]}
  /\ creds' = creds
  /\ Remember(NextId)

Redelegate ==
  /\ pc = "ensure"
  /\ NeedsRedelegation(creds[Target])
  /\ Issue(Target)
  /\ creds' = [creds EXCEPT ![Target] = NextId]
  /\ events' = events \union {[kind |-> "CREDENTIAL_REDELEGATED", at |-> at,
                               identity |-> Target, new |-> NextId]}
  /\ Remember(NextId)

(* DelegationError is not among the exceptions that only discard a matrix. *)
RedelegationRefused ==
  /\ pc = "ensure"
  /\ NeedsRedelegation(creds[Target]) /\ ~CanIssue(Target)
  /\ pc' = "aborted"
  /\ UNCHANGED <<provider, plan, at, row, creds, store, rows, bundle>>

Discard(cause) ==
  /\ events' = events \union {[kind |-> "MATRIX_DISCARDED", at |-> at, cause |-> cause]}
  /\ EndPhase
  /\ UNCHANGED <<provider, plan, creds, store, observations, credentials>>

(* C-2: some capability of the matrix has a precondition that fails.        *)
PreconditionFails ==
  /\ pc = "probe" /\ row = 1
  /\ Discard("precondition")

(* Mutant: the row is probed without calibrating the identity first.       *)
ProbeRowUncalibrated ==
  /\ pc = "probe"
  /\ \E faults \in Faults :
       rows' = rows \union Cells("PROBE", Target, creds[Target], faults)
  /\ IF row < Len(Phase.targets) THEN row' = row + 1 /\ pc' = pc ELSE row' = row /\ pc' = "write"
  /\ UNCHANGED <<provider, plan, at, creds, store, bundle>>

(* C-1 first, then the other capabilities of the identity's row.            *)
ProbeRow ==
  /\ pc = "probe"
  /\ \E faults \in Faults :
       /\ \A c \in Controls : c \notin faults /\ Answer(Target, c) = "ALLOWED"
       /\ rows' = rows \union Cells("PROBE", Target, creds[Target], faults)
  /\ IF row < Len(Phase.targets) THEN row' = row + 1 /\ pc' = pc ELSE row' = row /\ pc' = "write"
  /\ UNCHANGED <<provider, plan, at, creds, store, bundle>>

ControlFails ==
  /\ pc = "probe"
  /\ \E faults \in Faults :
       \E c \in Controls : c \in faults \/ Answer(Target, c) # "ALLOWED"
  /\ Discard(IF clock < issued[Latest(Target)].expires THEN "control" ELSE "expiry")

WriteMatrix ==
  /\ pc = "write"
  /\ observations' = observations \union rows
  /\ EndPhase
  /\ UNCHANGED <<provider, plan, creds, store, events, credentials>>

-----------------------------------------------------------------------------

MutatePhase ==
  /\ pc = "phase" /\ Running("MUTATE")
  /\ Mutate(Phase.target, Phase.mutation)
  /\ events' = events \union {[kind |-> "POLICY_MUTATION_APPLIED", at |-> at,
                               identity |-> Phase.target, mutation |-> Phase.mutation.kind]}
  /\ EndPhase
  /\ UNCHANGED <<plan, creds, store, observations, credentials>>

WaitPhase ==
  /\ pc = "phase" /\ Running("WAIT")
  /\ AdvanceClock(Phase.ticks)
  /\ EndPhase
  /\ UNCHANGED <<plan, creds, store, bundle>>

-----------------------------------------------------------------------------

Source == <<Phase.source, Phase.target>>

(* The named phase never recorded a credential for this identity.           *)
ResolveFails ==
  /\ pc = "phase" /\ Running("DEFERRED_EXECUTION")
  /\ Source \notin DOMAIN store
  /\ pc' = "aborted"
  /\ UNCHANGED <<provider, plan, at, row, creds, store, rows, bundle>>

(* The pinned leg: no redelegation, and the rows are attributed to the      *)
(* credential of the source phase.                                          *)
PinnedLeg ==
  /\ pc = "phase" /\ Running("DEFERRED_EXECUTION")
  /\ Source \in DOMAIN store
  /\ pc' = "pinned"
  /\ EnableCaching(Phase.target)
  /\ UNCHANGED <<plan, at, row, creds, store, rows, bundle>>

ProbePinned ==
  /\ pc = "pinned"
  /\ \E faults \in Faults :
       rows' = rows \union Cells("DEFERRED_EXECUTION", Phase.target, store[Source], faults)
  /\ pc' = "mint"
  /\ UNCHANGED <<provider, plan, at, row, creds, store, bundle>>

Mint ==
  /\ pc = "mint"
  /\ Issue(Phase.target)
  /\ creds' = [creds EXCEPT ![Phase.target] = NextId]
  /\ pc' = "fresh"
  /\ UNCHANGED <<plan, at, row, store, rows, bundle>>

(* Everything the phase produced is written at its end, and with it the     *)
(* credential the identity now holds.                                       *)
WriteDeferred(cells, event) ==
  /\ observations' = observations \union cells
  /\ events' = events \union {event}
  /\ credentials' = credentials \union {creds[Phase.target]}
  /\ EndPhase
  /\ UNCHANGED <<provider, plan, creds, store>>

MintRefused ==
  /\ pc = "mint" /\ ~CanIssue(Phase.target)
  /\ WriteDeferred(rows, [kind |-> "PAIRED_FRESH_CREDENTIAL_MINT_FAILED", at |-> at,
                          identity |-> Phase.target])

FreshLeg ==
  /\ pc = "fresh"
  /\ \E faults \in Faults :
       WriteDeferred(
         rows \union Cells("PAIRED_FRESH_CREDENTIAL", Phase.target, creds[Phase.target], faults),
         [kind |-> "PAIRED_FRESH_CREDENTIAL_MINTED", at |-> at, identity |-> Phase.target])

Complete ==
  /\ pc = "phase" /\ at = Len(plan) + 1
  /\ pc' = "completed"
  /\ UNCHANGED <<provider, plan, at, row, creds, store, rows, bundle>>

Next ==
  \/ Materialize
  \/ StartMatrix \/ KeepCredential \/ Redelegate \/ RedelegationRefused
  \/ PreconditionFails \/ ProbeRow \/ ControlFails \/ WriteMatrix
  \/ MutatePhase \/ WaitPhase
  \/ ResolveFails \/ PinnedLeg \/ ProbePinned \/ Mint \/ MintRefused \/ FreshLeg
  \/ Complete

Spec == Init /\ [][Next]_vars

-----------------------------------------------------------------------------

Outcomes == {"ALLOWED", "DENIED_EXPLICIT", "DENIED_IMPLICIT", "ERROR_TRANSIENT"}

Observation ==
  [phase : {"PROBE", "DEFERRED_EXECUTION", "PAIRED_FRESH_CREDENTIAL"}, at : Nat,
   identity : Identities, capability : Capabilities, credential : DOMAIN issued, time : Nat,
   outcome : Outcomes, session : DOMAIN issued, alive : BOOLEAN, current : Outcomes]

TypeOK ==
  /\ ProviderTypeOK
  /\ plan \in Plans
  /\ at \in 1 .. Len(plan) + 1
  /\ pc \in {"materialize", "phase", "ensure", "probe", "write", "pinned", "mint", "fresh",
             "completed", "aborted"}
  /\ pc \in {"ensure", "probe", "write"} => row \in DOMAIN Phase.targets
  /\ pc # "materialize" => creds \in [Identities -> DOMAIN issued]
  /\ \A key \in DOMAIN store : store[key] \in DOMAIN issued
  /\ rows \union observations \subseteq Observation
  /\ credentials \subseteq DOMAIN issued

Of(phases) == {o \in observations : o.phase \in phases}

(* The credential named by an observation of a probe matrix or of a fresh   *)
(* leg is the session the provider answered from, however often the         *)
(* identity was redelegated or paired before (matrix.py, deferred.py).      *)
RowsAreAttributed ==
  \A o \in Of({"PROBE", "PAIRED_FRESH_CREDENTIAL"}) : o.credential = o.session

(* No written cell of a probe matrix was answered by a dead session: a      *)
(* session that expired is replaced before the matrix (F6) and one that was *)
(* revoked fails its control capability and takes the matrix with it (C-1). *)
MatricesAreAlive == \A o \in Of({"PROBE"}) : o.alive

(* No matrix is ever discarded because a credential ran out: F6 redelegates *)
(* first (EXPERIMENT_PROTOCOL.md, Family B, invalidating conditions).       *)
NoMatrixLostToExpiry ==
  \A e \in events : e.kind = "MATRIX_DISCARDED" => e.cause # "expiry"

(* deferred.py: "F1 requires the deferred probe to use exactly the          *)
(* credential minted at credential_source".                                 *)
DeferredUsesPinned ==
  \A d \in Of({"DEFERRED_EXECUTION"}) : d.session = d.credential

=============================================================================
