-------------------------- MODULE RevocationWindow --------------------------
(***************************************************************************)
(* revocation_measurements of analysis/pipeline.py and                     *)
(* compute_revocation_window of analysis/timing.py, read off the bundle a  *)
(* PollWindow run leaves behind, and what the measured windows are worth.  *)
(***************************************************************************)
EXTENDS PollWindow

(* Mutant: the samples of all polled cells are taken together.              *)
SamplesOfAll(cell) == DOMAIN observations

(* polls_by_cell, as positions of the bundle.  The run's clock never goes   *)
(* back, so the bundle's order is the order of time already.                *)
Samples(cell) ==
  {k \in DOMAIN observations : /\ observations[k].identity = cell.identity
                               /\ observations[k].capability = cell.capability}

(* No measurement without a mutation; every polled cell is measured against *)
(* the first one.                                                           *)
MeasuredCells ==
  IF mutations = <<>> THEN {}
  ELSE {[identity |-> observations[k].identity, capability |-> observations[k].capability] :
          k \in DOMAIN observations}

MutationSent == mutations[1].sent

With(rows, outcomes) == {k \in rows : observations[k].outcome \in outcomes}
Times(rows, outcomes) == {observations[k].time : k \in With(rows, outcomes)}

LastAllow(rows) == Max(Times(rows, {"ALLOWED"}))
LaterDenials(rows) == {t \in Times(rows, Denials) : t > LastAllow(rows)}

FirstDeny(rows) == Min(LaterDenials(rows))

(* Mutant: what timing.py warns of, a check no sample can meet.             *)
AllowAfterFirstDeny(rows) == \E t \in Times(rows, {"ALLOWED"}) : t > FirstDeny(rows)

(* Where an allowed sample follows a denied one, or a denied one an allowed: *)
(* errors carry no state and are passed over.                               *)
Changes(rows) ==
  LET definite == With(rows, Denials \union {"ALLOWED"})
  IN  {k \in definite :
         \E j \in definite :
           /\ j < k /\ \A n \in definite : n <= j \/ k <= n
           /\ (observations[j].outcome = "ALLOWED") # (observations[k].outcome = "ALLOWED")}

NonMonotonic(rows) == Cardinality(Changes(rows)) > 1

Observed(rows) == Times(rows, {"ALLOWED"}) # {} /\ LaterDenials(rows) # {}

(* compute_revocation_window.                                               *)
Measurement(rows) ==
  CASE Times(rows, {"ALLOWED"}) = {} -> [transition_observed |-> FALSE, note |-> "NEVER_ALLOWED"]
    [] Observed(rows) ->
         [transition_observed |-> TRUE,
          low |-> LastAllow(rows) - MutationSent, high |-> FirstDeny(rows) - MutationSent,
          note |-> IF NonMonotonic(rows) THEN "NON_MONOTONIC_TRANSITION" ELSE "CLEAN"]
    [] OTHER -> [transition_observed |-> FALSE, note |-> "NO_TRANSITION_OBSERVED_WITHIN_WINDOW"]

-----------------------------------------------------------------------------

TypeOK ==
  /\ ProviderTypeOK
  /\ pc \in {"materialize", "phase", "pace", "probe", "judge", "completed", "aborted"}
  /\ plan \in Plans /\ pacing \in Pacings
  /\ at \in 1 .. Len(plan) + 1
  /\ pc \in {"pace", "probe", "judge"} =>
       /\ Running("POLL")
       /\ elapsed \in 0 .. Phase.max_duration + Phase.interval - 1
       /\ streak \in 0 .. Phase.stability_count
  /\ \A k \in DOMAIN observations : observations[k].time <= clock

Mutations == {n \in DOMAIN plan : plan[n].kind = "MUTATE"}

(* The run was made to measure this cell: its one mutation denies the cell  *)
(* and does not oscillate, and the credential was alive at every poll.      *)
Clean(cell) ==
  /\ Mutations = {mutations[1].at}
  /\ mutations[1].target = cell.identity
  /\ cell.capability \in plan[mutations[1].at].mutation.denies
  /\ pending[cell.identity].shown = {}
  /\ \A k \in Samples(cell) : observations[k].alive

(* F5: the reported window brackets the instant the mutation took effect    *)
(* (the last allow may be the warm-up's, before the mutation was sent), and *)
(* a transition that fell between an allowed poll and a later definite one  *)
(* is reported.                                                             *)
WindowIsTrue ==
  \A cell \in {c \in MeasuredCells : Clean(c)} :
    LET m == Measurement(Samples(cell))
        settled == pending[cell.identity].settle
    IN  /\ m.transition_observed =>
             /\ m.low <= 0 \/ MutationSent + m.low < settled
             /\ settled <= MutationSent + m.high
        /\ /\ Times(Samples(cell), {"ALLOWED"}) # {}
           /\ \E t \in Times(Samples(cell), Denials) : t >= settled
           => m.transition_observed

(* An oscillation the polls saw is never smoothed away from a reported      *)
(* transition: an allow after a denial marks it as non-monotonic.           *)
FlipFlopDisclosed ==
  \A cell \in MeasuredCells :
    LET rows == Samples(cell)
    IN  /\ Observed(rows)
        /\ \E j \in With(rows, Denials), k \in With(rows, {"ALLOWED"}) : j < k
        => Measurement(rows).note = "NON_MONOTONIC_TRANSITION"

(* nc-no-revocation.yaml: a cell polled while only other identities were    *)
(* mutated is never reported as revoked while its credential lasts.         *)
NoTransitionWithoutCause ==
  \A cell \in MeasuredCells :
    /\ \A k \in DOMAIN mutations : mutations[k].target # cell.identity
    /\ \A t \in Times(Samples(cell), Denials) : t < issued[Latest(cell.identity)].expires
    => ~Measurement(Samples(cell)).transition_observed

InPhase(n) == {k \in DOMAIN observations : observations[k].at = n}

Sought(stop_on) == IF stop_on = "STABLE_ALLOW" THEN {"ALLOWED"} ELSE Denials

(* F2/F3: a poll phase stops as stable exactly when its last                *)
(* stability_count polls in a row gave the outcome sought, and no sooner    *)
(* streak of that length was passed over.                                   *)
StableStopsAreStreaks ==
  \A s \in stops :
    LET p == plan[s.at]
        rows == InPhase(s.at)
        streaks == {n \in rows : \A k \in n - p.stability_count + 1 .. n :
                                  k \in With(rows, Sought(p.stop_on))}
    IN  /\ s.stop_reason \in {"STABLE_ALLOW", "STABLE_DENIAL"} =>
             \E last \in rows : streaks = {last} /\ \A k \in rows : k <= last
        /\ s.stop_reason = "TIMEOUT" /\ p.stop_on # "TIMEOUT" => streaks = {}

=============================================================================
