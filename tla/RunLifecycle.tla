---------------------------- MODULE RunLifecycle ----------------------------
(***************************************************************************)
(* The control of one benchmark run: orchestrate() in                      *)
(* execution/orchestrator.py with the mutation and revert modules it       *)
(* calls.  The run is one thread; what makes it hard is that every call of *)
(* the provider adapter or of the evidence sink may raise, that a request  *)
(* can land although its answer is lost, that the deadline can pass and    *)
(* the process can be killed between any two calls.                        *)
(*                                                                         *)
(* Every phase kind but MUTATE leaves the provider's policies alone: such  *)
(* a phase is one step here.  A MUTATE phase is the steps its code takes:  *)
(* write the revert log, send the request, judge the receipt, remember the *)
(* revert plan and write the outcome.  The finally block is one step per   *)
(* call, newest plan first.                                                *)
(***************************************************************************)
EXTENDS Integers, Sequences

CONSTANTS
  Identities,  (* identities of the compiled graph a MUTATE phase may name *)
  Plans        (* the compiled plans a run may be given                    *)

PhaseKind ==
  {"PROBE", "SNAPSHOT", "MUTATE", "POLL", "WAIT", "DEFERRED_EXECUTION", "TASK"}

LiveStateKinds ==
  {"ATTACH_INLINE_DENY", "REMOVE_INLINE_POLICY", "REPLACE_INLINE_POLICY"}

MutationKind ==
  LiveStateKinds \union
  {"REVOKE_OLDER_SESSIONS", "UPDATE_TRUST_POLICY", "DELETE_SESSION_POLICY_SCOPE"}

MeasureStep == [kind : PhaseKind \ {"MUTATE"}]
MutateStep ==
  [kind : {"MUTATE"}, target : Identities, mutation : MutationKind, record_receipt : BOOLEAN]

ASSUME PlansAreSequences == Plans \subseteq Seq(MeasureStep \union MutateStep)

VARIABLES
  pc,            (* where the run stands                                   *)
  plan,          (* compiled.plan                                          *)
  at,            (* index of the phase the loop is at                      *)
  expired,       (* the run clock's deadline has passed                    *)
  raised,        (* an exception is propagating through the finally block  *)
  pending,       (* pending_reverts, as plan indices                       *)
  left,          (* how many of them the finally block has still to visit  *)
  revertFailed,  (* some restore call raised, or was not confirmed         *)
  drift,         (* provider: sites that may differ from the declared state*)
  logged,        (* REVERT_LOG_WRITTEN events in the bundle                *)
  applied,       (* POLICY_MUTATION_APPLIED events                         *)
  reverted,      (* MUTATION_REVERTED events, receipt confirmed            *)
  doubtful       (* MUTATION_REVERTED events, receipt not confirmed        *)

evidence == <<logged, applied, reverted, doubtful>>
vars == <<pc, plan, at, expired, raised, pending, left, revertFailed, drift, evidence>>

Setup == {"authorize", "materialize"}
Ended == {"completed", "aborted", "killed"}
Points ==
  Setup \union {"phase", "send", "receipt", "record", "unwind", "restoring"} \union Ended

(* build_revert_plan: what the finally block can undo by a call.           *)
Actionable(k) ==
  k \in LiveStateKinds \union {"REVOKE_OLDER_SESSIONS", "UPDATE_TRUST_POLICY"}

(* restore_trust_policy puts the trust policy back; every other actionable *)
(* plan goes to restore_declared_policy, which removes all the inline      *)
(* policies a run may have written.                                        *)
Layer(k) == IF k = "UPDATE_TRUST_POLICY" THEN "trust" ELSE "inline"

Sites == Identities \X {"inline", "trust"}

Mutates(n) == n \in DOMAIN plan /\ plan[n].kind = "MUTATE"
Site(n) == <<plan[n].target, Layer(plan[n].mutation)>>
Undoable(n) == Mutates(n) /\ Actionable(plan[n].mutation)

-----------------------------------------------------------------------------

Init ==
  /\ pc = "authorize"
  /\ plan \in Plans
  /\ at = 1
  /\ expired = FALSE
  /\ raised = FALSE
  /\ pending = <<>>
  /\ left = 0
  /\ revertFailed = FALSE
  /\ drift = {}
  /\ logged = {} /\ applied = {} /\ reverted = {} /\ doubtful = {}

Goto(from, to) == pc = from /\ pc' = to

(* Mutant: the finally block reverts only after a clean loop.              *)
RaiseSkipsReverts(from, plans) ==
  /\ Goto(from, "unwind")
  /\ raised' = TRUE
  /\ pending' = plans
  /\ left' = 0

(* An exception leaves the try block: the finally block takes over with    *)
(* the revert plans remembered so far.                                     *)
Raise(from, plans) ==
  /\ Goto(from, "unwind")
  /\ raised' = TRUE
  /\ pending' = plans
  /\ left' = Len(plans)

InTry == UNCHANGED <<plan, expired, raised, left, revertFailed>>

(* Environment, SafetyGate, deadline, preflight, bundle header.            *)
Authorize ==
  /\ ~expired
  /\ Goto("authorize", "materialize")
  /\ InTry
  /\ UNCHANGED <<at, pending, drift, evidence>>

(* materialize_chain, the credential records and the bootstrap identity.   *)
Materialize ==
  /\ ~expired
  /\ Goto("materialize", "phase")
  /\ InTry
  /\ UNCHANGED <<at, pending, drift, evidence>>

(* Gate, preflight, delegation or the sink refuses, or the deadline passed.*)
SetupRaises ==
  /\ \E p \in Setup : Raise(p, pending)
  /\ UNCHANGED <<plan, at, expired, revertFailed, drift, evidence>>

(* Mutant: the loop does not stop at the end of the plan.                  *)
MeasureOverruns ==
  /\ ~expired
  /\ ~Mutates(at)
  /\ Goto("phase", "phase")
  /\ at' = at + 1
  /\ InTry
  /\ UNCHANGED <<pending, drift, evidence>>

(* A phase that does not touch policies, run to its end.                   *)
Measure ==
  /\ ~expired
  /\ at \in DOMAIN plan /\ ~Mutates(at)
  /\ Goto("phase", "phase")
  /\ at' = at + 1
  /\ InTry
  /\ UNCHANGED <<pending, drift, evidence>>

(* clock.check at the phase boundary, or anything in the phase before a    *)
(* policy is touched, raises; so does a sink that cannot write the log.    *)
PhaseRaises ==
  /\ at \in DOMAIN plan
  /\ Raise("phase", pending)
  /\ UNCHANGED <<plan, at, expired, revertFailed, drift, evidence>>

(* Mutant: only the kinds that touch a live session are logged.            *)
LogRevertLiveOnly ==
  /\ ~expired
  /\ Mutates(at)
  /\ Goto("phase", "send")
  /\ logged' = IF plan[at].mutation \in LiveStateKinds THEN logged \union {at} ELSE logged
  /\ InTry
  /\ UNCHANGED <<at, pending, drift, applied, reverted, doubtful>>

LogRevert ==
  /\ ~expired
  /\ Mutates(at)
  /\ Goto("phase", "send")
  /\ logged' = logged \union {at}
  /\ InTry
  /\ UNCHANGED <<at, pending, drift, applied, reverted, doubtful>>

(* adapter.apply_policy_mutation: the write lands or it does not; a        *)
(* protected target is refused, and DELETE_SESSION_POLICY_SCOPE changes    *)
(* nothing at either provider.                                             *)
SendMutation ==
  /\ Goto("send", "receipt")
  /\ \/ drift' = drift
     \/ Undoable(at) /\ drift' = drift \union {Site(at)}
  /\ InTry
  /\ UNCHANGED <<at, pending, evidence>>

ReceiptConfirmed ==
  /\ Goto("receipt", "record")
  /\ Undoable(at) => Site(at) \in drift
  /\ InTry
  /\ UNCHANGED <<at, pending, drift, evidence>>

(* The read-after-write loop timed out and the plan does not need a receipt*)
ReceiptTolerated ==
  /\ Goto("receipt", "record")
  /\ Undoable(at)
  /\ ~plan[at].record_receipt
  /\ InTry
  /\ UNCHANGED <<at, pending, drift, evidence>>

(* MutationNotConfirmedError.                                              *)
ReceiptRefused ==
  /\ Undoable(at)
  /\ plan[at].record_receipt
  /\ Raise("receipt", pending)
  /\ UNCHANGED <<plan, at, expired, revertFailed, drift, evidence>>

(* The adapter raised, before or after the write landed.                   *)
MutationRaises ==
  /\ Raise("receipt", pending)
  /\ UNCHANGED <<plan, at, expired, revertFailed, drift, evidence>>

RecordMutation ==
  /\ Goto("record", "phase")
  /\ pending' = Append(pending, at)
  /\ applied' = applied \union {at}
  /\ at' = at + 1
  /\ InTry
  /\ UNCHANGED <<drift, logged, reverted, doubtful>>

(* The plan is remembered, then the sink cannot write the outcome.         *)
RecordRaises ==
  /\ Raise("record", Append(pending, at))
  /\ UNCHANGED <<plan, at, expired, revertFailed, drift, evidence>>

LoopEnds ==
  /\ Goto("phase", "unwind")
  /\ at \notin DOMAIN plan
  /\ left' = Len(pending)
  /\ UNCHANGED <<plan, at, expired, raised, pending, revertFailed, drift, evidence>>

-----------------------------------------------------------------------------

InFinally == UNCHANGED <<plan, at, expired, raised, pending>>

(* Mutant: the list is walked in the order the mutations were applied.     *)
CurrentOldestFirst == pending[Len(pending) - left + 1]

(* The plan the finally block is at: the list is walked from its end.      *)
Current == pending[left]

SkipRevert ==
  /\ pc = "unwind" /\ left > 0
  /\ ~Undoable(Current)
  /\ left' = left - 1
  /\ InFinally
  /\ UNCHANGED <<pc, revertFailed, drift, evidence>>

(* restore_declared_policy or restore_trust_policy: the write lands or not.*)
SendRestore ==
  /\ left > 0 /\ Undoable(Current)
  /\ Goto("unwind", "restoring")
  /\ drift' \in {drift, drift \ {Site(Current)}}
  /\ InFinally
  /\ UNCHANGED <<left, revertFailed, evidence>>

RestoreConfirmed ==
  /\ Goto("restoring", "unwind")
  /\ Site(Current) \notin drift
  /\ reverted' = reverted \union {Current}
  /\ left' = left - 1
  /\ InFinally
  /\ UNCHANGED <<revertFailed, drift, logged, applied, doubtful>>

(* Mutant: an unconfirmed receipt is reported as a confirmed one.          *)
RestoreUnconfirmedHidden ==
  /\ Goto("restoring", "unwind")
  /\ reverted' = reverted \union {Current}
  /\ revertFailed' = TRUE
  /\ left' = left - 1
  /\ InFinally
  /\ UNCHANGED <<drift, logged, applied, doubtful>>

(* Mutant: an unconfirmed restore is tried again, without a limit.         *)
RestoreUnconfirmedRetries ==
  /\ Goto("restoring", "unwind")
  /\ doubtful' = doubtful \union {Current}
  /\ revertFailed' = TRUE
  /\ InFinally
  /\ UNCHANGED <<left, drift, logged, applied, reverted>>

(* Nothing looks at an unconfirmed restore receipt but the event itself.   *)
RestoreUnconfirmed ==
  /\ Goto("restoring", "unwind")
  /\ doubtful' = doubtful \union {Current}
  /\ revertFailed' = TRUE
  /\ left' = left - 1
  /\ InFinally
  /\ UNCHANGED <<drift, logged, applied, reverted>>

(* The restore call or the write of its event raises out of the finally    *)
(* block; the plans not yet visited are skipped.                           *)
RestoreRaises ==
  /\ Goto("restoring", "aborted")
  /\ revertFailed' = TRUE
  /\ InFinally
  /\ UNCHANGED <<left, drift, evidence>>

(* The exception goes on to the caller, which closes the bundle unsealed.  *)
Abort ==
  /\ Goto("unwind", "aborted")
  /\ left = 0 /\ raised
  /\ InFinally
  /\ UNCHANGED <<left, revertFailed, drift, evidence>>

(* Mutant: the bundle is sealed before the reverts are done.               *)
FinalizeEarly ==
  /\ Goto("unwind", "completed")
  /\ ~raised
  /\ InFinally
  /\ UNCHANGED <<left, revertFailed, drift, evidence>>

Finalize ==
  /\ Goto("unwind", "completed")
  /\ left = 0 /\ ~raised
  /\ InFinally
  /\ UNCHANGED <<left, revertFailed, drift, evidence>>

FinalizeRaises ==
  /\ Goto("unwind", "aborted")
  /\ left = 0 /\ ~raised
  /\ InFinally
  /\ UNCHANGED <<left, revertFailed, drift, evidence>>

-----------------------------------------------------------------------------

(* SIGKILL: no finally block runs.                                         *)
Kill ==
  /\ pc \notin Ended
  /\ pc' = "killed"
  /\ UNCHANGED <<plan, at, expired, raised, pending, left, revertFailed, drift, evidence>>

DeadlinePasses ==
  /\ ~expired /\ pc \notin Ended
  /\ expired' = TRUE
  /\ UNCHANGED <<pc, plan, at, raised, pending, left, revertFailed, drift, evidence>>

Step ==
  \/ Authorize \/ Materialize \/ SetupRaises
  \/ Measure \/ PhaseRaises \/ LogRevert
  \/ SendMutation \/ ReceiptConfirmed \/ ReceiptTolerated \/ ReceiptRefused
  \/ MutationRaises \/ RecordMutation \/ RecordRaises \/ LoopEnds
  \/ SkipRevert \/ SendRestore \/ RestoreConfirmed \/ RestoreUnconfirmed
  \/ RestoreRaises \/ Abort \/ Finalize \/ FinalizeRaises

Next == Step \/ Kill \/ DeadlinePasses

(* One thread of synchronous calls, each of which returns or raises: while *)
(* the process lives it keeps taking steps.                                *)
Spec == Init /\ [][Next]_vars /\ WF_vars(Step)

-----------------------------------------------------------------------------

TypeOK ==
  /\ pc \in Points
  /\ plan \in Plans
  /\ at \in 1 .. Len(plan) + 1
  /\ expired \in BOOLEAN /\ raised \in BOOLEAN /\ revertFailed \in BOOLEAN
  /\ pending \in Seq(DOMAIN plan)
  /\ left \in 0 .. Len(pending)
  /\ drift \subseteq Sites
  /\ logged \subseteq DOMAIN plan /\ applied \subseteq DOMAIN plan
  /\ reverted \subseteq DOMAIN plan /\ doubtful \subseteq DOMAIN plan

(* Whatever happens to the run, even SIGKILL between two calls, each site  *)
(* that differs from its declared state is named by a revert-log entry     *)
(* already in the bundle (revert.py, "so a killed run still leaves         *)
(* complete recovery information").                                        *)
DriftIsLogged ==
  \A s \in drift : \E n \in logged : Undoable(n) /\ Site(n) = s

(* A sealed bundle never hides drift: what a completed run left disturbed  *)
(* has a MUTATION_REVERTED event that says confirmed = false.              *)
SealedDiscloses ==
  pc = "completed" => \A s \in drift : \E n \in doubtful : Site(n) = s

(* A mutation whose outcome event is in the bundle is undone when the run  *)
(* ends, normally or by an exception, unless a restore call itself failed. *)
AppliedIsUndone ==
  pc \in {"completed", "aborted"} /\ ~revertFailed =>
    \A n \in applied : Undoable(n) => Site(n) \notin drift

(* Reversion goes newest first (F8/F9): once an older mutation has been    *)
(* reverted, every newer one this run recorded has been attempted.         *)
NewestFirst ==
  \A m, n \in applied :
    m < n /\ Undoable(n) /\ m \in reverted \union doubtful => n \in reverted \union doubtful

(* Every run comes to an end: it completes, raises or is killed.           *)
RunEnds == <>(pc \in Ended)

(* The undo log this run keeps: what the revert log can undo, what the     *)
(* evidence owns up to, and how far the run has got.                       *)
Intents == {Site(n) : n \in {m \in logged : Undoable(m)}}
Disclosed == {Site(n) : n \in doubtful}
Stage ==
  CASE pc = "completed" -> "sealed"
    [] pc \in {"aborted", "killed"} -> "abandoned"
    [] pc \in {"unwind", "restoring"} -> "winding"
    [] OTHER -> "open"

Undo == INSTANCE UndoLog WITH
  intents <- Intents, effects <- drift, disclosed <- Disclosed, stage <- Stage

(* The run implements the undo log: nothing is disturbed before it is      *)
(* logged or after winding down has begun, and sealing waits for           *)
(* disclosure.                                                             *)
ImplementsUndoLog == Undo!Spec

(* What orchestrator.py says of its finally block: "the mutation itself is *)
(* reverted from the finally block below regardless of how the run ended". *)
RevertedHoweverEnded ==
  pc \in {"completed", "aborted"} /\ ~revertFailed => drift = {}

=============================================================================
