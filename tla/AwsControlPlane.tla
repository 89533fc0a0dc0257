-------------------------- MODULE AwsControlPlane --------------------------
(***************************************************************************)
(* The AWS adapter of one run: the sessions it obtains from STS, the       *)
(* service clients it caches per role, the bootstrap session that signs    *)
(* every IAM call, and probes with their retries, over the policies of     *)
(* AwsPolicies.  The adapter is called by one thread: at most one          *)
(* operation or probe is under way.                                        *)
(***************************************************************************)
EXTENDS AwsPolicies

CONSTANTS
    Roots,          \* the identities registered from the operator's session
    AgentChain,     \* _AGENT_CHAIN: "principal" and then the agent roles in order
    Caps,           \* capabilities probed, "identity.delegate" and "whoami" among them
    TwoCalls,       \* capabilities whose probe makes a second call to confirm a write
    Verified,       \* capabilities whose probe checks the content of the response
    Requested,      \* requested_duration_s of every edge, in ticks
    ChainCap,       \* CHAINED_ROLE_DURATION_CAP_S, in ticks
    BootLifetime,   \* DurationSeconds of the bootstrap session, in ticks
    Skew,           \* _bootstrap_refresh_skew_s, in ticks
    MaxAttempts,    \* _MAX_ATTEMPTS
    MaxClock,       \* bound on the clock
    MaxOperations   \* bound on mutations, restores, delegations and probes

ASSUME Bounds == {Requested, ChainCap, BootLifetime, Skew, MaxOperations} \subseteq Nat /\ MaxClock \in Nat \ {0}
ASSUME Timing == PollTimeout < Skew /\ Skew < BootLifetime

VARIABLES
    sessions,       \* _identity_sessions: the newest session of each role
    clients,        \* _clients_cache: the session that signs its cached clients
    boot,           \* _bootstrap_session_cache
    bootClients,    \* the session that signs the cached bootstrap clients
    probe,          \* the probe under way, or the last one's outcome
    closed,         \* _closed
    operations      \* operations so far

sessionVars == <<sessions, clients, closed>>
bootVars == <<boot, bootClients>>
vars == <<policyVars, clock, sessionVars, bootVars, probe, operations>>

Roles == Agents \cup {"principal"}
None == [issued |-> 0, expires |-> 0]     \* no session: every real one ends later
Session(lifetime) == [issued |-> clock, expires |-> clock + lifetime]
Live(s) == clock < s.expires
Idle == ~Running /\ probe.pc # "call"

Position(r) == CHOOSE i \in DOMAIN AgentChain : AgentChain[i] = r
Predecessor(r) == AgentChain[Position(r) - 1]

Init ==
    /\ PolicyInit
    /\ clock = 1
    /\ sessions = [r \in Roles |-> None]
    /\ clients = [r \in Roles |-> None]
    /\ boot = None
    /\ bootClients = None
    /\ probe = [pc |-> "idle"]
    /\ closed = FALSE
    /\ operations = 0

\* Every operation the orchestrator asks for, while the adapter is open.  The
\* outcome of the previous probe is not the adapter's to remember.
Operate ==
    /\ Idle
    /\ ~closed
    /\ operations < MaxOperations
    /\ clock + PollTimeout <= MaxClock
    /\ operations' = operations + 1

NoProbe == probe' = [pc |-> "idle"]
NoCall == call' = [pc |-> "idle"]

---------------------------------------------------------------------------
\* AWS's side: what a call is judged by, each policy at any version still served.
\* The principal role carries no benchmark policy.
Statements(r) ==
    IF r \in Agents
    THEN {d \cup g \cup o : d \in views[r]["deny"], g \in views[r]["grant"], o \in views[r]["revoke"]}
    ELSE {{}}

Holds(r, c) == r \in Agents => (c \in Declared[r] \/ c = "whoami")

Decision(s, r, c, statements) ==
    CASE ~Live(s) -> "ExpiredToken"
      [] \/ c # "whoami" /\ <<"Deny", c>> \in statements
         \/ c # "whoami" /\ \E t \in 1..MaxClock :
                <<"DenyOlder", t>> \in statements /\ s.issued < t -> "AccessDenied"
      [] Holds(r, c) \/ <<"Allow", c>> \in statements -> "ok"
      [] OTHER -> "AccessDenied"

Decisions(s, r, c) == {Decision(s, r, c, st) : st \in Statements(r)}

\* Whether the trust policy of a role admits its predecessor.
Trusts(r) == r \in Agents => \E doc \in views[r]["trust"] : RevokeAssumeRole \notin doc
Distrusts(r) == r \in Agents /\ \E doc \in views[r]["trust"] : RevokeAssumeRole \in doc

\* _next_hop_role_arn: the role the identity.delegate probe tries to assume.
LastHop(r) == Position(r) = Len(AgentChain)
NextHop(r) == AgentChain[Position(r) + 1]

Codes(s, r, c) ==
    IF c # "identity.delegate" THEN Decisions(s, r, c)
    ELSE (IF Trusts(NextHop(r)) THEN Decisions(s, r, c) ELSE Decisions(s, r, c) \ {"ok"})
         \cup (IF Distrusts(NextHop(r)) THEN {"AccessDenied"} ELSE {})

---------------------------------------------------------------------------
\* register_identity: the operator walks the chain down to the identity.
Register(r) ==
    /\ Idle /\ ~closed
    /\ operations = 0
    /\ sessions[r] = None
    /\ \A i \in 1..Position(r) : Trusts(AgentChain[i])
    /\ sessions' = [sessions EXCEPT ![r] = Session(BootLifetime)]
    /\ UNCHANGED <<policyVars, clock, clients, closed, bootVars, probe, operations>>

\* delegate, signed by the source's newest session.  Every edge of the chain is
\* a ROLE_CHAIN edge, capped before STS is asked.
Granted == IF Requested < ChainCap THEN Requested ELSE ChainCap

Delegate(r) ==
    /\ Operate
    /\ r # "principal"
    /\ sessions[Predecessor(r)] # None
    /\ "ok" \in Codes(sessions[Predecessor(r)], Predecessor(r), "identity.delegate")
    /\ sessions' = [sessions EXCEPT ![r] = Session(Granted)]
    /\ NoProbe /\ NoCall
    /\ UNCHANGED <<iam, views, clock, clients, closed, bootVars>>

\* STS refuses, or cannot be reached: DelegationError, nothing is cached.
DelegateRefused(r) ==
    /\ Operate
    /\ r # "principal"
    /\ NoProbe /\ NoCall
    /\ UNCHANGED <<iam, views, clock, sessionVars, bootVars>>

---------------------------------------------------------------------------
\* _bootstrap_session: reuse it unless it ends within the skew; a new one takes
\* the cached bootstrap clients with it.
BootFresh == clock + Skew < boot.expires

\* mutant: the clients of the old session stay cached
UseBootstrapKeepsClients ==
    /\ boot' = IF BootFresh THEN boot ELSE Session(BootLifetime)
    /\ bootClients' = IF bootClients # None THEN bootClients ELSE boot'

UseBootstrap ==
    /\ boot' = IF BootFresh THEN boot ELSE Session(BootLifetime)
    /\ bootClients' = IF BootFresh /\ bootClients # None THEN bootClients ELSE boot'

\* assume_role raised: the stale session and its clients are gone already.
BootstrapRefused ==
    /\ Operate
    /\ ~BootFresh
    /\ boot' = None
    /\ bootClients' = None
    /\ NoProbe /\ NoCall
    /\ UNCHANGED <<iam, views, clock, sessionVars>>

ApplyMutation(m) ==
    /\ Operate
    /\ UseBootstrap
    /\ RefuseProtected(m) \/ BeginMutation(m)
    /\ NoProbe
    /\ UNCHANGED <<clock, sessionVars>>

Restore(r) ==
    /\ Operate
    /\ UseBootstrap
    /\ BeginRestoreDeclared(r) \/ BeginRestoreTrust(r)
    /\ NoProbe
    /\ UNCHANGED <<clock, sessionVars>>

\* verify_output_marker, the marker preconditions and snapshot_policy_state:
\* reads by the bootstrap session, which change nothing else.
BootstrapRead ==
    /\ Operate
    /\ UseBootstrap
    /\ NoProbe /\ NoCall
    /\ UNCHANGED <<iam, views, clock, sessionVars>>

IamCall ==
    /\ PolicyStep
    /\ UNCHANGED <<clock, sessionVars, bootVars, probe, operations>>

---------------------------------------------------------------------------
\* A response to one API call of a probe: its error code and HTTP status.
Ok == [code |-> "ok", status |-> 200]
Unreachable == [code |-> "Unreachable", status |-> 0]
Faults == {Unreachable,
           [code |-> "Throttling", status |-> 400],
           [code |-> "Other", status |-> 503],
           [code |-> "Other", status |-> 400]}
TransientCodes == {"Throttling"}
NeverRetryCodes == {"AccessDenied", "ExpiredToken"}

\* A response with 200 whose content is not the expected one, and the outcome the
\* identity.delegate probe of the last role in the chain returns without a call.
Unverified == [code |-> "Unverified", status |-> 200]

\* AWS denies with a 403; the code is prepared for a service that says 503.
Responses(s, r, c) ==
    IF c = "identity.delegate" /\ LastHop(r) THEN {Unverified}
    ELSE Faults
         \cup (IF c \in Verified THEN {Unverified} ELSE {})
         \cup UNION {IF d = "ok" THEN {Ok} ELSE {[code |-> d, status |-> h] : h \in {403, 503}} :
                     d \in Codes(s, r, c)}

\* mutant: the status is looked at before the code
IsTransientByStatus(response) ==
    response = Unreachable \/ response.code \in TransientCodes \/ response.status \in {500, 503}

IsTransient(response) ==
    \/ response = Unreachable
    \/ /\ response.code \notin NeverRetryCodes
       /\ response.code \in TransientCodes \/ response.status \in {500, 503}

\* classify_denial, and which exceptions leave probe() instead of becoming an
\* outcome: the run aborts on a whoami fault and on a lost connection.
Outcome(c, response) ==
    CASE response = Ok -> "ALLOWED"
      [] c = "whoami" /\ response.code # "ExpiredToken" -> "raised"
      [] response = Unreachable -> "raised"
      [] response.code \in NeverRetryCodes -> "DENIED"
      [] OTHER -> "ERROR_INFRASTRUCTURE"

StartProbe(r, c) ==
    /\ Operate
    /\ sessions[r] # None
    /\ clients' = [clients EXCEPT ![r] = IF @ = None THEN sessions[r] ELSE @]
    /\ probe' = [pc |-> "call", role |-> r, cap |-> c, part |-> 1, attempt |-> 1,
                 answers |-> <<>>, outcome |-> "none"]
    /\ NoCall
    /\ UNCHANGED <<iam, views, clock, sessions, closed, bootVars>>

Answered(response) == [probe EXCEPT !.answers = Append(@, response.code)]

Finish(response) ==
    [Answered(response) EXCEPT !.pc = "done", !.outcome = Outcome(probe.cap, response)]

\* One API call: the write probes confirm with a second one, and a retry starts
\* the probe's calls again.
Exchange(response) ==
    probe' =
      IF response = Ok
      THEN IF probe.cap \in TwoCalls /\ probe.part = 1
           THEN [Answered(response) EXCEPT !.part = 2]
           ELSE Finish(response)
      ELSE IF IsTransient(response) /\ probe.attempt < MaxAttempts
           THEN [Answered(response) EXCEPT !.part = 1, !.attempt = @ + 1]
           ELSE Finish(response)

ProbeCall ==
    /\ probe.pc = "call"
    /\ \E response \in Responses(clients[probe.role], probe.role, probe.cap) : Exchange(response)
    /\ UNCHANGED <<policyVars, clock, sessionVars, bootVars, operations>>

---------------------------------------------------------------------------
\* Time.  An operation of mutation.py makes a handful of calls and then polls
\* for PollTimeout: it is over within that time, give or take a call.
Tick ==
    /\ clock < MaxClock
    /\ ~(Running /\ TimedOut)
    /\ clock' = clock + 1
    /\ UNCHANGED <<policyVars, sessionVars, bootVars, probe, operations>>

Catches(r) == Settle(r) /\ UNCHANGED <<sessionVars, bootVars, probe, operations>>

\* mutant: the cached clients survive the close
CloseKeepsClients ==
    /\ Idle
    /\ ~closed
    /\ closed' = TRUE
    /\ sessions' = [r \in Roles |-> None]
    /\ boot' = None
    /\ bootClients' = None
    /\ UNCHANGED <<policyVars, clock, clients, probe, operations>>

Close ==
    /\ Idle
    /\ ~closed
    /\ closed' = TRUE
    /\ sessions' = [r \in Roles |-> None]
    /\ clients' = [r \in Roles |-> None]
    /\ boot' = None
    /\ bootClients' = None
    /\ UNCHANGED <<policyVars, clock, probe, operations>>

Next ==
    \/ \E r \in Roots : Register(r)
    \/ \E r \in Roles : Delegate(r) \/ DelegateRefused(r)
    \/ \E r \in Roles, c \in Caps : StartProbe(r, c)
    \/ \E m \in Mutations : ApplyMutation(m)
    \/ \E r \in Agents : Restore(r) \/ Catches(r)
    \/ BootstrapRefused \/ BootstrapRead \/ IamCall \/ ProbeCall \/ Tick \/ Close

Spec == Init /\ [][Next]_vars

---------------------------------------------------------------------------
TypeOK ==
    /\ DOMAIN iam = Agents /\ DOMAIN views = Agents
    /\ \A r \in Agents, n \in Names : iam[r][n] \in views[r][n]
    /\ call.pc \in {"idle", "delete", "read", "put", "poll", "receipt", "raised"}
    /\ probe.pc \in {"idle", "call", "done"}
    /\ clock \in 1..MaxClock /\ operations \in 0..MaxOperations
    /\ \A s \in {sessions[r] : r \in Roles} \cup {clients[r] : r \in Roles} \cup {boot, bootClients} :
          s.issued \in 0..MaxClock /\ s.expires \in Nat
    /\ \A r \in Roles : clients[r] # None => sessions[r] # None
    /\ closed \in BOOLEAN

\* A confirmed receipt of REMOVE_INLINE_POLICY or of a restore is what revert.py
\* and the orchestrator act on: the policies it speaks of are then gone (and the
\* stale control has its grant back), unless a delete of that very operation
\* failed, which mutation.py:199-201 and :343-344 suppress.
RemovedIsRemoved ==
    (call.pc = "receipt" /\ call.confirmed /\ ~call.lossy) =>
        /\ call.op = "REMOVE_INLINE_POLICY" => iam[call.role]["grant"] = {}
        /\ call.op = "RESTORE_DECLARED" =>
              \A n \in Transient : iam[call.role][n] = DeclaredDocument(call.role, n)

\* A confirmed ATTACH_INLINE_DENY or trust restore was seen: a read after the
\* write returned the document written, and not what an earlier mutation of the
\* role had left under the same name (mutation.py:306-316, :266-272).
StrictReceiptSawItsWrite ==
    (call.pc = "receipt" /\ call.confirmed /\ call.op \in {"ATTACH_INLINE_DENY", "RESTORE_TRUST"})
        => iam[call.role][call.name] \in call.read

\* However long ago the bootstrap role was assumed, an operation of mutation.py
\* works from its first call to the end of its confirmation loop with clients
\* built from the cached bootstrap session, which has not expired
\* (adapter.py:295-322: the skew, and the clients dropped with the session).
IamClientsOutliveCalls == Running => bootClients = boot /\ Live(bootClients)

\* retry.py's promise that a denial is reported and never repeated: a probe one
\* of whose calls was denied ends with that denial, and a probe is reported as
\* denied only when AWS denied a call of it.
DenialsAreFinal ==
    probe.pc = "done" =>
        LET denied == {i \in DOMAIN probe.answers : probe.answers[i] \in NeverRetryCodes}
        IN  /\ denied \subseteq {Len(probe.answers)}
            /\ probe.cap # "whoami" => ((probe.outcome = "DENIED") <=> (denied # {}))

\* deferred.py:21-27 mints a fresh credential before the paired probe because
\* "reuse [of] the *same* session for the "fresh" leg" would "defeat F3 entirely":
\* a probe is signed by the newest session of its role.
ProbeUsesNewestSession == probe.pc = "call" => clients[probe.role] = sessions[probe.role]
=============================================================================
