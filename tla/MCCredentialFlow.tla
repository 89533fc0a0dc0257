-------------------------- MODULE MCCredentialFlow --------------------------
(***************************************************************************)
(* TLC instance of StaleAuthority (and with it CredentialFlow and          *)
(* FakeProvider): a two-hop chain, one control and one measured capability,*)
(* every plan of at most MaxPhases phases that begins by probing the       *)
(* measured identity.                                                      *)
(***************************************************************************)
EXTENDS StaleAuthority

CONSTANTS MaxPhases, a, b, whoami, read

MCEdges == <<a, b>>
MCCapabilities == {whoami, read}
MCIntended == [i \in {a, b} |-> MCCapabilities]
MCScoped == {b}
MCDelays == {0, 2}
MCControls == {whoami}

Mutations ==
  {[kind |-> "ATTACH_INLINE_DENY", denies |-> {read}, grants |-> {}],
   [kind |-> "REPLACE_INLINE_POLICY", denies |-> {}, grants |-> {whoami, read}],
   [kind |-> "REVOKE_OLDER_SESSIONS", denies |-> {}, grants |-> {}],
   [kind |-> "UPDATE_TRUST_POLICY", denies |-> {}, grants |-> {}]}

Phases ==
  [kind : {"PROBE"}, targets : {<<a, b>>}]
  \union [kind : {"MUTATE"}, target : {b}, mutation : Mutations]
  \union [kind : {"WAIT"}, ticks : {1, 4}]
  \union [kind : {"DEFERRED_EXECUTION"}, target : {b}, source : {1, 3}]

MCPlans ==
  {<<[kind |-> "PROBE", targets |-> <<b>>]>> \o rest :
     rest \in UNION {[1 .. n -> Phases] : n \in 0 .. MaxPhases - 1}}

=============================================================================
