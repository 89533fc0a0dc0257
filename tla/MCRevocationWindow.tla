------------------------- MODULE MCRevocationWindow -------------------------
(***************************************************************************)
(* TLC instance of RevocationWindow (and with it PollWindow and            *)
(* FakeProvider): two identities, one polled capability, transitions that  *)
(* are immediate, delayed or oscillating.                                  *)
(***************************************************************************)
EXTENDS RevocationWindow

CONSTANTS MaxPhases, a, b, read

MCEdges == <<a, b>>
MCIntended == [i \in {a, b} |-> {read}]

PollPhase(who, goals, durations) ==
  [kind : {"POLL"}, target : {who}, capability : {read}, interval : {2},
   max_duration : durations, stop_on : goals, stability_count : {2}]

MutatePlan ==
  [kind : {"MUTATE"}, target : {a, b},
   mutation : {[kind |-> "ATTACH_INLINE_DENY", denies |-> {read}, grants |-> {}],
               [kind |-> "REVOKE_OLDER_SESSIONS", denies |-> {}, grants |-> {}]}]

Phases ==
  PollPhase(b, {"STABLE_ALLOW"}, {5})
  \union PollPhase(b, {"STABLE_DENIAL", "TIMEOUT"}, {8})
  \union PollPhase(a, {"TIMEOUT"}, {4})
  \union MutatePlan
  \union [kind : {"WAIT"}, ticks : {3}]

(* A warm-up, at most MaxPhases phases of any kind, and a last poll or not. *)
MCPlans ==
  {<<warm>> \o middle \o last :
     warm \in PollPhase(b, {"STABLE_ALLOW"}, {5}),
     middle \in UNION {[1 .. n -> Phases] : n \in 0 .. MaxPhases},
     last \in {<<>>} \union {<<p>> : p \in PollPhase(b, {"STABLE_DENIAL"}, {8})}}

=============================================================================
