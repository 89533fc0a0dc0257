--------------------------- MODULE StaleAuthority ---------------------------
(***************************************************************************)
(* analysis/stale.py and the six-row table of analysis/timing.py, read off *)
(* the bundle a CredentialFlow run leaves behind.                          *)
(***************************************************************************)
EXTENDS CredentialFlow

Denials == {"DENIED_EXPLICIT", "DENIED_IMPLICIT"}

(* Mutant: the deferred leg is classified alone.                           *)
ClassifyUnpaired(deferred, expired, scopeRemoved, fresh) ==
  CASE deferred \in Denials /\ expired -> "CREDENTIAL_EXPIRED"
    [] deferred = "ALLOWED" /\ expired -> "EXPIRED_CREDENTIAL_HONORED"
    [] deferred \in Denials /\ ~expired -> "CURRENT_AUTHORITY"
    [] deferred = "ALLOWED" /\ ~expired ->
         IF scopeRemoved THEN "SESSION_SCOPE_CACHED" ELSE "STALE_AUTHORITY_LIVE_CREDENTIAL"
    [] OTHER -> fresh

(* classify_stale_authority; fresh is "NONE" when no fresh leg was recorded *)
Classify(deferred, expired, scopeRemoved, fresh) ==
  CASE deferred \in Denials /\ expired -> "CREDENTIAL_EXPIRED"
    [] deferred = "ALLOWED" /\ expired -> "EXPIRED_CREDENTIAL_HONORED"
    [] deferred \in Denials /\ ~expired -> "CURRENT_AUTHORITY"
    [] deferred = "ALLOWED" /\ ~expired ->
         CASE scopeRemoved -> "SESSION_SCOPE_CACHED"
           [] ~scopeRemoved /\ fresh = "ALLOWED" -> "INDETERMINATE"
           [] OTHER -> "STALE_AUTHORITY_LIVE_CREDENTIAL"
    [] OTHER -> "INDETERMINATE"

FreshLegs(o) ==
  {f \in Of({"PAIRED_FRESH_CREDENTIAL"}) : f.identity = o.identity /\ f.capability = o.capability}

(* fresh_by_cell: later legs of the same cell overwrite earlier ones.       *)
FreshOutcome(o) ==
  IF FreshLegs(o) = {} THEN "NONE"
  ELSE (CHOOSE f \in FreshLegs(o) : \A g \in FreshLegs(o) : g.at <= f.at).outcome

ScopeRemoved(i) ==
  \E e \in events : /\ e.kind = "POLICY_MUTATION_APPLIED" /\ e.identity = i
                    /\ e.mutation = "DELETE_SESSION_POLICY_SCOPE"

(* A deferred row whose credential has no record is skipped.                *)
Measured == {o \in Of({"DEFERRED_EXECUTION"}) : o.credential \in credentials}

Verdict(o) ==
  Classify(o.outcome, o.time >= issued[o.credential].expires, ScopeRemoved(o.identity),
           FreshOutcome(o))

-----------------------------------------------------------------------------

(* The fresh leg of the deferral itself: the row minted and probed right    *)
(* after the pinned one, if it was minted.                                  *)
OwnFresh(o) == {f \in FreshLegs(o) : f.at = o.at}

Deferrals(i) == {o.at : o \in {d \in Of({"DEFERRED_EXECUTION"}) : d.identity = i}}

(* End to end, for an identity deferred once whose session scope was not    *)
(* removed, and a row answered from the session it names, without a         *)
(* transient error in either leg: staleness is reported exactly when a live *)
(* session is still allowed what the policy in force denies, or what no new *)
(* session could be issued for. A row answered from the session it names is *)
(* never reported as an expired one honoured.                               *)
StaleVerdictIsTrue ==
  \A o \in {d \in Measured : d.session = d.credential} :
    /\ Verdict(o) # "EXPIRED_CREDENTIAL_HONORED"
    /\ /\ Deferrals(o.identity) = {o.at}
       /\ \A f \in OwnFresh(o) \union {o} : f.outcome # "ERROR_TRANSIENT"
       /\ ~ScopeRemoved(o.identity)
       => (Verdict(o) = "STALE_AUTHORITY_LIVE_CREDENTIAL"
             <=> o.alive /\ o.outcome = "ALLOWED" /\ (o.current # "ALLOWED" \/ OwnFresh(o) = {}))

=============================================================================
