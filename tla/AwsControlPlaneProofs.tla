----------------------- MODULE AwsControlPlaneProofs -----------------------
(***************************************************************************)
(* Proofs about AwsControlPlane, for any roles, capabilities, mutations    *)
(* and lifetimes.  The invariant has one part for IAM, one for the         *)
(* operation of mutation.py under way, one for the sessions and one for    *)
(* the probe.                                                              *)
(***************************************************************************)
EXTENDS AwsControlPlane, TLAPS

\* What IAM holds is among what a read may return.
IamInv ==
    /\ DOMAIN iam = Agents /\ DOMAIN views = Agents
    /\ \A r \in Agents : DOMAIN iam[r] = Names /\ DOMAIN views[r] = Names
    /\ \A r \in Agents, n \in Names : iam[r][n] \in views[r][n]

Underway == {"delete", "read", "put", "poll"}
Fields == {"pc", "op", "role", "todo", "name", "doc", "start", "confirmed", "lossy", "read"}
Restores == {"RESTORE_DECLARED", "RESTORE_TRUST"}
Strict == {"ATTACH_INLINE_DENY", "RESTORE_TRUST"}

\* The shape of an operation, and which of its points each kind passes through.
CallType ==
    /\ call.pc \in Underway \cup {"idle", "raised", "receipt"}
    /\ call.pc \notin {"idle", "raised"} =>
        /\ DOMAIN call = Fields
        /\ call.op \in MutationKinds \cup Restores /\ call.role \in Agents /\ call.name \in Names
        /\ call.start \in 1..clock /\ call.confirmed \in BOOLEAN /\ call.lossy \in BOOLEAN
        /\ call.op \in Strict => call.pc \in {"put", "poll", "receipt"}
        /\ call.op = "DELETE_SESSION_POLICY_SCOPE" => call.pc = "receipt"
        /\ call.op = "REMOVE_INLINE_POLICY" =>
              /\ call.pc \in {"delete", "poll", "receipt"} /\ call.doc = {}
              /\ call.pc = "delete" => call.todo = <<"grant">>
        /\ call.op = "RESTORE_DECLARED" =>
              /\ call.pc \in {"delete", "put", "poll", "receipt"}
              /\ call.name = "grant" /\ call.doc = DeclaredDocument(call.role, "grant")
              /\ call.pc = "delete" => call.todo \in {Doomed, <<"grant", "revoke">>, <<"revoke">>}
        /\ call.pc = "delete" => call.op \in {"REMOVE_INLINE_POLICY", "RESTORE_DECLARED"}

\* What the calls made so far have done to the role, unless one was lost.
CallEffect ==
    call.pc \in Underway \cup {"receipt"} =>
        LET held == iam[call.role] IN
        /\ call.op \in Strict /\ call.pc \in {"poll", "receipt"} => held[call.name] = call.doc
        /\ call.op \in Strict /\ call.pc = "receipt" /\ call.confirmed => call.doc \in call.read
        /\ call.op = "REMOVE_INLINE_POLICY" /\ call.pc # "delete" /\ ~call.lossy => held["grant"] = {}
        /\ call.op = "RESTORE_DECLARED" /\ ~call.lossy =>
              /\ call.pc # "delete" \/ call.todo # Doomed => held["deny"] = {}
              /\ call.pc = "delete" /\ call.todo = <<"revoke">> => held["grant"] = {}
              /\ call.pc # "delete" => held["revoke"] = {}
              /\ call.pc \in {"poll", "receipt"} => held["grant"] = call.doc

Tokens == [issued : 0..MaxClock, expires : Nat]

SessionInv ==
    /\ clock \in 1..MaxClock /\ operations \in 0..MaxOperations /\ closed \in BOOLEAN
    /\ sessions \in [Roles -> Tokens] /\ clients \in [Roles -> Tokens]
    /\ boot \in Tokens /\ bootClients \in {None, boot}
    /\ \A r \in Roles : clients[r] # None => sessions[r] # None

\* The operation under way began with clients of the cached bootstrap session,
\* which outlive its polling.
SigningInv ==
    Running =>
        /\ bootClients = boot
        /\ clock <= call.start + PollTimeout
        /\ call.start + Skew < bootClients.expires

ProbeFields == {"pc", "role", "cap", "part", "attempt", "answers", "outcome"}
AllCodes == {"ok", "AccessDenied", "ExpiredToken", "Unreachable", "Throttling", "Other", "Unverified"}

\* No call of a probe under way was denied.
ProbeInv ==
    /\ probe.pc \in {"idle", "call", "done"}
    /\ probe.pc # "idle" => DOMAIN probe = ProbeFields /\ probe.role \in Roles /\ probe.answers \in Seq(AllCodes)
    /\ probe.pc = "call" => \A i \in DOMAIN probe.answers : probe.answers[i] \notin NeverRetryCodes
    /\ DenialsAreFinal

IInv == IamInv /\ CallType /\ CallEffect /\ SessionInv /\ SigningInv /\ ProbeInv

---------------------------------------------------------------------------
\* IAM.

\* The names of the policies, and what declared documents leave undeclared.
LEMMA Documents ==
    /\ Transient \subseteq Names /\ "trust" \in Names /\ {"deny", "grant", "revoke"} = Transient
    /\ \A r : DeclaredDocument(r, "deny") = {} /\ DeclaredDocument(r, "revoke") = {}
BY DEF Names, Transient, DeclaredDocument

\* A write changes one policy of one role, and a read may return it.
LEMMA WriteFrame ==
    ASSUME IamInv, NEW r \in Agents, NEW n \in Names, NEW doc, Written(r, n, doc)
    PROVE  /\ IamInv' /\ iam'[r][n] = doc
           /\ \A m \in Names \ {n} : iam'[r][m] = iam[r][m]
BY DEF IamInv, Written

\* The policy a suppressed delete is about.
LEMMA DeletedName ==
    ASSUME CallType, call.pc = "delete"
    PROVE  /\ Head(call.todo) \in Names /\ call.role \in Agents
           /\ call.op = "REMOVE_INLINE_POLICY" => Head(call.todo) = "grant" /\ Len(call.todo) = 1
           /\ call.op = "RESTORE_DECLARED" =>
                \/ call.todo = Doomed /\ Head(call.todo) = "deny" /\ Len(call.todo) = 3
                                      /\ Tail(call.todo) = <<"grant", "revoke">>
                \/ call.todo = <<"grant", "revoke">> /\ Head(call.todo) = "grant" /\ Len(call.todo) = 2
                                      /\ Tail(call.todo) = <<"revoke">>
                \/ call.todo = <<"revoke">> /\ Head(call.todo) = "revoke" /\ Len(call.todo) = 1
           /\ Doomed # <<"grant", "revoke">> /\ Doomed # <<"revoke">> /\ <<"revoke">> # <<"grant", "revoke">>
<1>1. Len(Doomed) = 3 /\ Head(Doomed) = "deny" /\ Tail(Doomed) = <<"grant", "revoke">>
  BY DEF Doomed
<1>2. Len(<<"grant", "revoke">>) = 2 /\ Head(<<"grant", "revoke">>) = "grant" /\ Tail(<<"grant", "revoke">>) = <<"revoke">>
  OBVIOUS
<1>3. Len(<<"revoke">>) = 1 /\ Head(<<"revoke">>) = "revoke" /\ Len(<<"grant">>) = 1 /\ Head(<<"grant">>) = "grant"
  OBVIOUS
<1>4. Doomed # <<"grant", "revoke">> /\ Doomed # <<"revoke">> /\ <<"revoke">> # <<"grant", "revoke">>
  BY <1>1, <1>2, <1>3
<1>5. QED
  BY <1>1, <1>2, <1>3, <1>4, Documents DEF CallType

\* A policy call keeps what IAM holds and what the adapter remembers of it.
LEMMA PolicyStepInv ==
    ASSUME IamInv, CallType, CallEffect, PolicyStep, clock' = clock
    PROVE  IamInv' /\ CallType' /\ CallEffect'
<1> USE DEF Underway
<1>1. ASSUME NEW lossy \in BOOLEAN, call.pc = "delete", call' = AfterDelete(lossy),
             IamInv', \A m \in Names \ {Head(call.todo)} : iam'[call.role][m] = iam[call.role][m],
             ~lossy => iam'[call.role][Head(call.todo)] = {}
      PROVE  CallType' /\ CallEffect'
  <2>1. /\ DOMAIN call = Fields /\ DOMAIN call' = Fields
        /\ call'.op = call.op /\ call'.role = call.role /\ call'.name = call.name /\ call'.doc = call.doc
        /\ call'.start = call.start /\ call'.confirmed = call.confirmed /\ call'.todo = Tail(call.todo)
        /\ call'.lossy = (call.lossy \/ lossy) /\ call'.lossy \in BOOLEAN
        /\ call'.pc = IF Len(call.todo) > 1 THEN "delete" ELSE IF call.doc # {} THEN "put" ELSE "poll"
    BY <1>1 DEF CallType, AfterDelete, Fields
  <2>2. CASE call.op = "REMOVE_INLINE_POLICY"
    <3>1. call'.pc = "poll" /\ call.doc = {} /\ Head(call.todo) = "grant"
      <4>1. Len(call.todo) = 1 /\ Head(call.todo) = "grant"
        BY <1>1, <2>2, DeletedName
      <4>2. call.doc = {}
        BY <1>1, <2>2 DEF CallType
      <4>3. QED
        BY <2>1, <4>1, <4>2
    <3>2. CallType'
      BY <1>1, <2>1, <2>2, <3>1 DEF CallType, Strict
    <3>3. CallEffect'
      BY <1>1, <2>1, <2>2, <3>1 DEF CallEffect, Strict
    <3>4. QED
      BY <3>2, <3>3
  <2>3. CASE call.op = "RESTORE_DECLARED"
    <3> DEFINE held == iam'[call.role] old == iam[call.role]
    <3>1. call.todo \in {Doomed, <<"grant", "revoke">>, <<"revoke">>}
      BY <1>1, <2>3 DEF CallType
    <3>2. /\ call.role \in Agents /\ call.name = "grant" /\ call.doc = DeclaredDocument(call.role, "grant")
          /\ call.start \in 1..clock /\ call.confirmed \in BOOLEAN /\ call.name \in Names
      BY <1>1, <2>3 DEF CallType
    <3>3. DeclaredDocument(call.role, "grant")' = DeclaredDocument(call'.role, "grant")
      BY DEF DeclaredDocument
    <3>4. /\ call.todo # Doomed /\ ~call.lossy => old["deny"] = {}
          /\ call.todo = <<"revoke">> /\ ~call.lossy => old["grant"] = {}
      BY <1>1, <2>3, DeletedName DEF CallEffect
    <3>5. \A n \in Names : ~lossy => held[n] = IF n = Head(call.todo) THEN {} ELSE old[n]
      BY <1>1
    <3>6. CASE call.todo = Doomed
      <4>1. /\ Head(call.todo) = "deny" /\ call'.pc = "delete" /\ call'.todo = <<"grant", "revoke">>
            /\ call'.todo # Doomed /\ call'.todo # <<"revoke">>
        BY <2>1, <3>6 DEF Doomed
      <4>2. ~call'.lossy => held["deny"] = {}
        BY <2>1, <3>5, <4>1, Documents
      <4>3. CallType'
        BY <1>1, <2>1, <2>3, <3>2, <3>3, <4>1 DEF CallType, Strict
      <4>4. CallEffect'
        BY <2>1, <2>3, <4>1, <4>2 DEF CallEffect, Strict
      <4>5. QED
        BY <4>3, <4>4
    <3>7. CASE call.todo = <<"grant", "revoke">>
      <4>1. /\ Head(call.todo) = "grant" /\ call'.pc = "delete" /\ call'.todo = <<"revoke">>
            /\ call.todo # Doomed
        BY <2>1, <3>7 DEF Doomed
      <4>2. ~call'.lossy => held["deny"] = {} /\ held["grant"] = {}
        BY <2>1, <3>4, <3>5, <4>1, Documents
      <4>3. CallType'
        BY <1>1, <2>1, <2>3, <3>2, <3>3, <4>1 DEF CallType, Strict
      <4>4. CallEffect'
        BY <2>1, <2>3, <4>1, <4>2 DEF CallEffect, Strict
      <4>5. QED
        BY <4>3, <4>4
    <3>8. CASE call.todo = <<"revoke">>
      <4>1. /\ Head(call.todo) = "revoke" /\ call'.pc = IF call.doc # {} THEN "put" ELSE "poll"
            /\ call.todo # Doomed
        BY <2>1, <3>8 DEF Doomed
      <4>2. ~call'.lossy => held["deny"] = {} /\ held["grant"] = {} /\ held["revoke"] = {}
        BY <2>1, <3>4, <3>5, <3>8, <4>1, Documents
      <4>3. CallType'
        BY <1>1, <2>1, <2>3, <3>2, <3>3, <4>1 DEF CallType, Strict
      <4>4. CallEffect'
        BY <2>1, <2>3, <4>1, <4>2 DEF CallEffect, Strict
      <4>5. QED
        BY <4>3, <4>4
    <3>9. QED
      BY <3>1, <3>6, <3>7, <3>8
  <2>4. QED
    BY <1>1, <2>2, <2>3 DEF CallType
<1>2. CASE Delete
  <2>1. IamInv' /\ iam'[call.role][Head(call.todo)] = {}
        /\ \A m \in Names \ {Head(call.todo)} : iam'[call.role][m] = iam[call.role][m]
    BY <1>2, DeletedName, WriteFrame DEF Delete
  <2>2. QED
    BY <1>1, <1>2, <2>1 DEF Delete
<1>3. CASE DeleteSuppressed
  <2> DEFINE lossy == iam[call.role][Head(call.todo)] # {}
  <2>1. IamInv' /\ iam' = iam
    BY <1>3 DEF DeleteSuppressed, IamInv
  <2>2. lossy \in BOOLEAN /\ call' = AfterDelete(lossy) /\ call.pc = "delete"
    BY <1>3 DEF DeleteSuppressed
  <2>3. ~lossy => iam'[call.role][Head(call.todo)] = {}
    BY <2>1
  <2> HIDE DEF lossy
  <2>4. QED
    BY <1>1, <2>1, <2>2, <2>3
<1>4. CASE ReadTrust
  <2>1. PICK doc : call' = [call EXCEPT !.pc = "put", !.doc = doc \cup {RevokeAssumeRole}]
    BY <1>4 DEF ReadTrust
  <2>2. /\ DOMAIN call = Fields /\ call.pc = "read" /\ call'.pc = "put" /\ call'.op = call.op
        /\ DOMAIN call' = Fields
        /\ call'.role = call.role /\ call'.name = call.name /\ call'.start = call.start
        /\ call'.confirmed = call.confirmed /\ call'.lossy = call.lossy
        /\ call.op \notin Strict \cup {"REMOVE_INLINE_POLICY", "RESTORE_DECLARED"}
    BY <1>4, <2>1 DEF ReadTrust, CallType, Fields
  <2>3. IamInv'
    BY <1>4 DEF ReadTrust, IamInv
  <2>4. QED
    BY <2>2, <2>3 DEF CallType, CallEffect
<1>5. CASE Put
  <2>1. /\ DOMAIN call = Fields /\ call.pc = "put" /\ call'.pc = "poll" /\ call'.op = call.op
        /\ DOMAIN call' = Fields /\ call'.doc = call.doc /\ call'.read = call.read
        /\ call'.role = call.role /\ call'.name = call.name /\ call'.start = call.start
        /\ call'.confirmed = call.confirmed /\ call'.lossy = call.lossy
        /\ call.role \in Agents /\ call.name \in Names
        /\ call.op # "REMOVE_INLINE_POLICY"
    BY <1>5 DEF Put, CallType, Fields
  <2>2. IamInv' /\ iam'[call.role][call.name] = call.doc
        /\ \A m \in Names \ {call.name} : iam'[call.role][m] = iam[call.role][m]
    BY <1>5, <2>1, WriteFrame DEF Put
  <2>3. CallType'
    BY <2>1 DEF CallType
  <2>4. CallEffect'
    BY <2>1, <2>2, Documents DEF CallEffect, CallType, Strict
  <2>5. QED
    BY <2>2, <2>3, <2>4
<1>6. CASE CallRaises
  <2>1. call'.pc = "raised"
    BY <1>6 DEF CallRaises, Raised
  <2>2. call.role \in Agents /\ call.name \in Names
    BY <1>6 DEF CallRaises, Running, CallType
  <2>3. IamInv'
    <3>1. CASE UNCHANGED <<iam, views>>
      BY <3>1 DEF IamInv
    <3>2. CASE call.pc = "put" /\ Written(call.role, call.name, call.doc)
      BY <2>2, <3>2, WriteFrame
    <3>3. CASE call.pc = "delete" /\ Written(call.role, Head(call.todo), {})
      BY <3>3, DeletedName, WriteFrame
    <3>4. QED
      BY <1>6, <3>1, <3>2, <3>3 DEF CallRaises
  <2>4. QED
    BY <2>1, <2>3 DEF CallType, CallEffect
<1>7. ASSUME call.pc = "poll", UNCHANGED <<iam, views>>,
             NEW accepted \in BOOLEAN, NEW doc, Confirmation(accepted, doc),
             call.op \in Strict /\ accepted => doc = call.doc
      PROVE  IamInv' /\ CallType' /\ CallEffect'
  <2>1. /\ DOMAIN call = Fields /\ DOMAIN call' = Fields /\ call'.pc \in {"poll", "receipt"}
        /\ call'.op = call.op /\ call'.doc = call.doc
        /\ call'.role = call.role /\ call'.name = call.name /\ call'.start = call.start
        /\ call'.lossy = call.lossy /\ call'.confirmed = accepted /\ call'.read = call.read \cup {doc}
    BY <1>7 DEF Confirmation, CallType, Fields
  <2>2. IamInv'
    BY <1>7 DEF IamInv
  <2>3. CallType'
    BY <1>7, <2>1 DEF CallType
  <2>4. CallEffect'
    BY <1>7, <2>1 DEF CallEffect
  <2>5. QED
    BY <2>2, <2>3, <2>4
<1>8. CASE Poll
  <2>1. PICK doc \in Fetched(call.name) : Confirmation(Accepts(doc), doc)
    BY <1>8 DEF Poll
  <2>2. call.op \in Strict => (Accepts(doc) <=> doc = call.doc)
    BY DEF Accepts, Strict
  <2>3. PICK accepted \in BOOLEAN : Confirmation(accepted, doc) /\ (call.op \in Strict /\ accepted => doc = call.doc)
    <3>1. Accepts(doc) \in BOOLEAN
      <4>1. call.op \in (MutationKinds \cup Restores) \ {"RESTORE_DECLARED", "DELETE_SESSION_POLICY_SCOPE"}
        BY <1>8 DEF Poll, CallType
      <4>2. CASE call.op \in {"ATTACH_INLINE_DENY", "RESTORE_TRUST"}
        <5>1. Accepts(doc) = (doc = call.doc)
          BY <4>2 DEF Accepts
        <5>2. QED
          BY <5>1
      <4>3. CASE call.op \in {"REPLACE_INLINE_POLICY", "REVOKE_OLDER_SESSIONS"}
        <5>1. Accepts(doc) = (doc # {})
          BY <4>3 DEF Accepts
        <5>2. QED
          BY <5>1
      <4>4. CASE call.op = "REMOVE_INLINE_POLICY"
        <5>1. Accepts(doc) = (doc = {})
          BY <4>4 DEF Accepts
        <5>2. QED
          BY <5>1
      <4>5. CASE call.op = "UPDATE_TRUST_POLICY"
        <5>1. Accepts(doc) = (RevokeAssumeRole \in doc)
          BY <4>5 DEF Accepts
        <5>2. QED
          BY <5>1
      <4>6. QED
        BY <4>1, <4>2, <4>3, <4>4, <4>5 DEF MutationKinds, Restores
    <3>2. QED
      BY <2>1, <2>2, <3>1
  <2>4. QED
    BY <1>7, <1>8, <2>3 DEF Poll
<1>9. CASE PollRestore
  <2>1. PICK docs : Confirmation(RestoreAccepts(docs), docs["grant"])
    BY <1>9 DEF PollRestore
  <2>2. RestoreAccepts(docs) \in BOOLEAN /\ call.op \notin Strict
    BY <1>9 DEF RestoreAccepts, PollRestore, Strict
  <2>3. QED
    BY <1>7, <1>9, <2>1, <2>2 DEF PollRestore
<1>10. QED
  BY <1>2, <1>3, <1>4, <1>5, <1>6, <1>8, <1>9 DEF PolicyStep

\* The fields of an operation as it begins.
LEMMA OperationFields ==
    ASSUME NEW op, NEW r, NEW pc, NEW todo, NEW name, NEW doc, call' = Operation(op, r, pc, todo, name, doc)
    PROVE  /\ DOMAIN call' = Fields
           /\ call'.pc = pc /\ call'.op = op /\ call'.role = r /\ call'.todo = todo /\ call'.name = name
           /\ call'.doc = doc /\ call'.start = clock /\ call'.confirmed \in BOOLEAN /\ ~call'.confirmed
           /\ call'.lossy \in BOOLEAN
BY DEF Operation, Fields

\* An operation begins at this instant, with nothing done yet.
LEMMA BeginInv ==
    ASSUME IamInv, clock \in 1..MaxClock, clock' = clock,
           \/ \E m \in Mutations : RefuseProtected(m) \/ BeginMutation(m)
           \/ \E r \in Agents : BeginRestoreDeclared(r) \/ BeginRestoreTrust(r)
    PROVE  /\ IamInv' /\ CallType' /\ CallEffect'
           /\ call'.pc \in Underway => call'.start = clock
<1> DEFINE BeginsWell == /\ IamInv' /\ CallType' /\ CallEffect'
                         /\ call'.pc \in Underway => call'.start = clock
<1>1. ASSUME NEW m \in Mutations, RefuseProtected(m)
      PROVE  BeginsWell
  <2>1. IamInv' /\ call'.pc = "raised"
    BY <1>1 DEF RefuseProtected, IamInv
  <2>2. QED
    BY <2>1 DEF CallType, CallEffect, Underway
<1>2. ASSUME NEW m \in Mutations, BeginMutation(m)
      PROVE  BeginsWell
  <2>1. /\ m.role \in Agents /\ m.kind \in MutationKinds
        /\ UNCHANGED <<iam, views>>
    BY <1>2, PolicyConstants DEF BeginMutation
  <2>2. IamInv'
    BY <2>1 DEF IamInv
  <2>3. clock \in 1..clock' /\ m.kind \in MutationKinds \cup Restores
    BY <2>1
  <2>4. {"grant", "deny", "trust", "revoke"} \subseteq Names
    BY Documents
  <2>5. CASE m.kind \in {"ATTACH_INLINE_DENY", "REPLACE_INLINE_POLICY"}
    <3> DEFINE doc == DenyDocument(m.denies) \cup GrantDocument(m.grants)
    <3>1. call' = Operation(m.kind, m.role, "put", <<>>, "deny", doc)
      BY <1>2, <2>5 DEF BeginMutation
    <3> HIDE DEF doc
    <3>2. /\ DOMAIN call' = Fields /\ call'.pc = "put" /\ call'.op = m.kind /\ call'.role = m.role
          /\ call'.name = "deny" /\ call'.start = clock /\ call'.confirmed \in BOOLEAN /\ call'.lossy \in BOOLEAN
      BY <3>1, OperationFields
    <3>3. m.kind \notin {"RESTORE_DECLARED", "REMOVE_INLINE_POLICY", "DELETE_SESSION_POLICY_SCOPE"}
      BY <2>5
    <3>4. CallType'
      BY <2>1, <2>3, <2>4, <3>2, <3>3 DEF CallType, Strict, Underway
    <3>5. CallEffect'
      BY <3>2, <3>3 DEF CallEffect, Underway
    <3>6. QED
      BY <2>2, <3>2, <3>4, <3>5
  <2>6. CASE m.kind = "REMOVE_INLINE_POLICY"
    <3>1. call' = Operation(m.kind, m.role, "delete", <<"grant">>, "grant", {})
      BY <1>2, <2>6 DEF BeginMutation
    <3>2. QED
      BY <2>1, <2>2, <2>3, <2>4, <2>6, <3>1, OperationFields DEF CallType, CallEffect, Underway, Strict
  <2>7. CASE m.kind = "UPDATE_TRUST_POLICY"
    <3>1. call' = Operation(m.kind, m.role, "read", <<>>, "trust", {})
      BY <1>2, <2>7 DEF BeginMutation
    <3>2. QED
      BY <2>1, <2>2, <2>3, <2>4, <2>7, <3>1, OperationFields DEF CallType, CallEffect, Underway, Strict
  <2>8. CASE m.kind = "REVOKE_OLDER_SESSIONS"
    <3>1. call' = Operation(m.kind, m.role, "put", <<>>, "revoke", RevokeOlder(clock))
      BY <1>2, <2>8 DEF BeginMutation
    <3>2. QED
      BY <2>1, <2>2, <2>3, <2>4, <2>8, <3>1, OperationFields DEF CallType, CallEffect, Underway, Strict
  <2>9. CASE m.kind = "DELETE_SESSION_POLICY_SCOPE"
    <3>1. call' = [Operation(m.kind, m.role, "receipt", <<>>, "deny", {}) EXCEPT !.confirmed = TRUE]
      BY <1>2, <2>9 DEF BeginMutation
    <3>2. \A b \in BOOLEAN :
            LET c == [Operation(m.kind, m.role, "receipt", <<>>, "deny", {}) EXCEPT !.confirmed = b]
            IN  /\ DOMAIN c = Fields /\ c.pc = "receipt" /\ c.op = m.kind /\ c.role = m.role /\ c.name = "deny"
                /\ c.start = clock /\ c.confirmed \in BOOLEAN /\ c.lossy \in BOOLEAN
      BY DEF Operation, Fields
    <3>3. /\ DOMAIN call' = Fields /\ call'.pc = "receipt" /\ call'.op = m.kind /\ call'.role = m.role
          /\ call'.name = "deny" /\ call'.start = clock /\ call'.confirmed \in BOOLEAN /\ call'.lossy \in BOOLEAN
      BY <3>1, <3>2, TRUE \in BOOLEAN, Zenon
    <3>4. QED
      BY <2>1, <2>2, <2>3, <2>4, <2>9, <3>3 DEF CallType, CallEffect, Underway, Strict
  <2>10. QED
    BY <2>1, <2>5, <2>6, <2>7, <2>8, <2>9 DEF MutationKinds
<1>3. ASSUME NEW r \in Agents, BeginRestoreDeclared(r)
      PROVE  BeginsWell
  <2>1. call' = Operation("RESTORE_DECLARED", r, "delete", Doomed, "grant", DeclaredDocument(r, "grant"))
    BY <1>3 DEF BeginRestoreDeclared
  <2>2. IamInv' /\ clock \in 1..clock' /\ "grant" \in Names
    BY <1>3, Documents DEF BeginRestoreDeclared, IamInv
  <2>3. DeclaredDocument(call.role, "grant")' = DeclaredDocument(call'.role, "grant")
    BY DEF DeclaredDocument
  <2>4. /\ DOMAIN call' = Fields /\ call'.pc = "delete" /\ call'.op = "RESTORE_DECLARED" /\ call'.role = r
        /\ call'.todo = Doomed /\ call'.name = "grant" /\ call'.doc = DeclaredDocument(r, "grant")
        /\ call'.start = clock /\ call'.confirmed \in BOOLEAN /\ call'.lossy \in BOOLEAN
    BY <2>1, OperationFields
  <2>5. Doomed # <<"revoke">>
    BY DEF Doomed
  <2>6. QED
    BY <1>3, <2>2, <2>3, <2>4, <2>5 DEF CallType, CallEffect, Underway, Strict, Restores
<1>4. ASSUME NEW r \in Agents, BeginRestoreTrust(r)
      PROVE  BeginsWell
  <2>1. call' = Operation("RESTORE_TRUST", r, "put", <<>>, "trust", DeclaredTrust)
    BY <1>4 DEF BeginRestoreTrust
  <2>2. IamInv' /\ clock \in 1..clock' /\ "trust" \in Names
    BY <1>4, Documents DEF BeginRestoreTrust, IamInv
  <2>3. QED
    BY <1>4, <2>1, <2>2, OperationFields DEF CallType, CallEffect, Underway, Strict, Restores
<1>5. QED
  BY <1>1, <1>2, <1>3, <1>4

---------------------------------------------------------------------------
\* Sessions, and the clients that sign the calls of an operation.

\* A session is a token of bounded lifetime, and never no token.
LEMMA SessionIsToken ==
    ASSUME clock \in 1..MaxClock, NEW lifetime \in Nat
    PROVE  Session(lifetime) \in Tokens /\ Session(lifetime) # None /\ None \in Tokens /\ Granted \in Nat
BY Bounds DEF Session, Tokens, None, Granted

\* However the bootstrap session comes about, its clients outlive the skew.
LEMMA BootstrapInv ==
    ASSUME clock \in 1..MaxClock, boot \in Tokens, bootClients \in {None, boot}, UseBootstrap
    PROVE  /\ boot' \in Tokens /\ bootClients' = boot'
           /\ clock + Skew < bootClients'.expires
<1>1. Session(BootLifetime) \in Tokens /\ clock + Skew < Session(BootLifetime).expires
  BY SessionIsToken, Bounds, Timing DEF Session
<1>2. CASE BootFresh
  BY <1>2 DEF UseBootstrap, BootFresh
<1>3. CASE ~BootFresh
  BY <1>1, <1>3 DEF UseBootstrap
<1>4. QED
  BY <1>2, <1>3

\* A call of mutation.py belongs to an operation that was under way already.
LEMMA PolicyStepKeepsStart ==
    ASSUME CallType, PolicyStep, call'.pc \in Underway
    PROVE  Running /\ call'.start = call.start
<1>1. CASE Delete
  BY <1>1 DEF Delete, AfterDelete, Running, CallType, Fields
<1>2. CASE DeleteSuppressed
  <2>1. PICK lossy : call' = AfterDelete(lossy)
    BY <1>2 DEF DeleteSuppressed
  <2>2. call.pc = "delete"
    BY <1>2 DEF DeleteSuppressed
  <2>3. QED
    BY <2>1, <2>2 DEF AfterDelete, Running, CallType, Fields
<1>3. CASE ReadTrust
  BY <1>3 DEF ReadTrust, Running, CallType, Fields
<1>4. CASE Put
  BY <1>4 DEF Put, Running, CallType, Fields
<1>5. CASE CallRaises
  BY <1>5 DEF CallRaises, Raised, Underway
<1>6. CASE Poll
  <2>1. PICK accepted, doc : Confirmation(accepted, doc)
    BY <1>6 DEF Poll
  <2>2. call.pc = "poll"
    BY <1>6 DEF Poll
  <2>3. QED
    BY <2>1, <2>2 DEF Confirmation, Running, CallType, Fields
<1>7. CASE PollRestore
  <2>1. PICK accepted, doc : Confirmation(accepted, doc)
    BY <1>7 DEF PollRestore
  <2>2. call.pc = "poll"
    BY <1>7 DEF PollRestore
  <2>3. QED
    BY <2>1, <2>2 DEF Confirmation, Running, CallType, Fields
<1>8. QED
  BY <1>1, <1>2, <1>3, <1>4, <1>5, <1>6, <1>7 DEF PolicyStep

---------------------------------------------------------------------------
\* Probes.

\* Whatever AWS decides, it says it with one of three codes.
LEMMA CodesOfAws ==
    ASSUME NEW s, NEW r, NEW c
    PROVE  Codes(s, r, c) \subseteq {"ok", "AccessDenied", "ExpiredToken"}
<1>1. \A statements : Decision(s, r, c, statements) \in {"ok", "AccessDenied", "ExpiredToken"}
  BY DEF Decision
<1>2. Decisions(s, r, c) \subseteq {"ok", "AccessDenied", "ExpiredToken"}
  BY <1>1 DEF Decisions
<1>3. QED
  BY <1>2 DEF Codes

\* A response tells a denial from a success and from everything transient.
LEMMA ResponsesOfAws ==
    ASSUME NEW s, NEW r, NEW c, NEW response \in Responses(s, r, c)
    PROVE  /\ response.code \in AllCodes
           /\ response = Ok => response.code \notin NeverRetryCodes
           /\ IsTransient(response) => response.code \notin NeverRetryCodes
           /\ c # "whoami" => (Outcome(c, response) = "DENIED" <=> response.code \in NeverRetryCodes)
<1>1. \/ response \in Faults \cup {Unverified, Ok}
      \/ \E d \in {"AccessDenied", "ExpiredToken"}, h \in {403, 503} : response = [code |-> d, status |-> h]
  BY CodesOfAws DEF Responses
<1>2. CASE response \in Faults \cup {Unverified, Ok}
  BY <1>2 DEF Faults, Unverified, Ok, Unreachable, AllCodes, NeverRetryCodes, TransientCodes, IsTransient, Outcome
<1>3. ASSUME NEW d \in {"AccessDenied", "ExpiredToken"}, NEW h \in {403, 503}, response = [code |-> d, status |-> h]
      PROVE  /\ response.code \in AllCodes
             /\ response # Ok /\ ~IsTransient(response) /\ response.code \in NeverRetryCodes
             /\ c # "whoami" => Outcome(c, response) = "DENIED"
  BY <1>3 DEF Ok, Unreachable, AllCodes, NeverRetryCodes, TransientCodes, IsTransient, Outcome
<1>4. QED
  BY <1>1, <1>2, <1>3

\* One exchange: an answer is appended, and a denied one is the last.
LEMMA ProbeCallInv ==
    ASSUME ProbeInv, ProbeCall
    PROVE  ProbeInv'
<1>1. PICK response \in Responses(clients[probe.role], probe.role, probe.cap) : Exchange(response)
  BY DEF ProbeCall
<1> DEFINE answers == Append(probe.answers, response.code)
           denied == response.code \in NeverRetryCodes
           ends == \/ response = Ok /\ ~(probe.cap \in TwoCalls /\ probe.part = 1)
                   \/ response # Ok /\ ~(IsTransient(response) /\ probe.attempt < MaxAttempts)
<1>2. /\ probe.pc = "call" /\ DOMAIN probe = ProbeFields /\ probe.role \in Roles /\ probe.answers \in Seq(AllCodes)
      /\ \A i \in DOMAIN probe.answers : probe.answers[i] \notin NeverRetryCodes
  BY DEF ProbeCall, ProbeInv
<1>3. /\ response.code \in AllCodes
      /\ denied => ends
      /\ probe.cap # "whoami" => (Outcome(probe.cap, response) = "DENIED" <=> denied)
  BY <1>1, ResponsesOfAws
<1>4. /\ DOMAIN probe' = ProbeFields /\ probe'.role = probe.role /\ probe'.cap = probe.cap
      /\ probe'.answers = answers
      /\ probe'.pc = IF ends THEN "done" ELSE "call"
      /\ ends => probe'.outcome = Outcome(probe.cap, response)
  <2>1. CASE ends
    <3>1. probe' = Finish(response)
      BY <1>1, <2>1 DEF Exchange
    <3>2. QED
      BY <1>2, <2>1, <3>1 DEF Finish, Answered, ProbeFields
  <2>2. CASE ~ends
    <3>1. \/ probe' = [Answered(response) EXCEPT !.part = 2]
          \/ probe' = [Answered(response) EXCEPT !.part = 1, !.attempt = @ + 1]
      BY <1>1, <2>2 DEF Exchange
    <3>2. QED
      BY <1>2, <2>2, <3>1 DEF Answered, ProbeFields
  <2>3. QED
    BY <2>1, <2>2
<1>5. /\ answers \in Seq(AllCodes) /\ Len(answers) = Len(probe.answers) + 1 /\ Len(answers) \in Nat
      /\ DOMAIN answers = 1..Len(answers)
      /\ \A i \in DOMAIN answers : answers[i] \in NeverRetryCodes <=> (i = Len(answers) /\ denied)
  BY <1>2, <1>3
<1> HIDE DEF answers, denied, ends
<1>6. \A i \in DOMAIN answers : probe'.pc = "call" => answers[i] \notin NeverRetryCodes
  BY <1>3, <1>4, <1>5
<1>7. probe'.pc = "done" =>
        LET set == {i \in DOMAIN answers : answers[i] \in NeverRetryCodes}
        IN  /\ set \subseteq {Len(answers)}
            /\ probe'.cap # "whoami" => ((probe'.outcome = "DENIED") <=> (set # {}))
  <2>1. Len(answers) \in DOMAIN answers
    BY <1>2, <1>5
  <2>2. QED
    BY <1>3, <1>4, <1>5, <2>1
<1>8. DenialsAreFinal'
  BY <1>4, <1>7 DEF DenialsAreFinal
<1>9. QED
  BY <1>2, <1>4, <1>5, <1>6, <1>8 DEF ProbeInv

---------------------------------------------------------------------------
\* The invariant.

\* The invariant holds before the first call.
LEMMA InitInv == Init => IInv
<1> SUFFICES ASSUME Init PROVE IInv
  OBVIOUS
<1> USE DEF Init, PolicyInit
<1>1. IamInv
  BY DEF IamInv
<1>2. CallType /\ CallEffect /\ SigningInv
  BY DEF CallType, CallEffect, SigningInv, Running, Underway
<1>3. SessionInv
  <2>1. None \in Tokens /\ clock \in 1..MaxClock
    BY Bounds DEF None, Tokens
  <2>2. 0 \in 0..MaxOperations
    BY Bounds
  <2>3. sessions \in [Roles -> Tokens] /\ clients \in [Roles -> Tokens] /\ \A r \in Roles : clients[r] = None
    BY <2>1
  <2>4. QED
    BY <2>1, <2>2, <2>3 DEF SessionInv
<1>4. ProbeInv
  BY DEF ProbeInv, DenialsAreFinal
<1>5. QED
  BY <1>1, <1>2, <1>3, <1>4 DEF IInv

\* The actions, by what they do to the operation of mutation.py: one begins,
\* none is left, one goes on, or nothing but time and AWS moves.
Begins ==
    /\ Operate /\ UseBootstrap /\ clock' = clock /\ UNCHANGED sessionVars /\ NoProbe
    /\ \/ \E m \in Mutations : RefuseProtected(m) \/ BeginMutation(m)
       \/ \E r \in Agents : BeginRestoreDeclared(r) \/ BeginRestoreTrust(r)
Clears == Operate /\ NoCall /\ UNCHANGED <<iam, views, clock>>
Waits == UNCHANGED <<iam, call>>

\* Every step keeps what IAM holds and what a call in progress has done.
LEMMA IamStep == IInv /\ [Next]_vars => IamInv' /\ CallType' /\ CallEffect'
<1> SUFFICES ASSUME IInv, [Next]_vars PROVE IamInv' /\ CallType' /\ CallEffect'
  OBVIOUS
<1>1. IamInv /\ CallType /\ CallEffect /\ clock \in 1..MaxClock
  BY DEF IInv, SessionInv
<1>2. CASE Begins
  BY <1>1, <1>2, BeginInv DEF Begins
<1>3. CASE Clears
  BY <1>1, <1>3 DEF Clears, NoCall, IamInv, CallType, CallEffect, Underway
<1>4. CASE IamCall
  BY <1>1, <1>4, PolicyStepInv DEF IamCall
<1>5. ASSUME Waits, IamInv', clock' \in Nat, clock <= clock'
      PROVE  IamInv' /\ CallType' /\ CallEffect'
  <2>1. DeclaredDocument(call.role, "grant")' = DeclaredDocument(call.role, "grant")
    BY <1>5 DEF Waits, DeclaredDocument
  <2>2. CallType'
    <3>1. call.start \in 1..clock => call.start \in 1..clock'
      BY <1>1, <1>5
    <3>2. QED
      BY <1>1, <1>5, <2>1, <3>1 DEF Waits, CallType
  <2>3. CallEffect'
    BY <1>1, <1>5 DEF Waits, CallEffect
  <2>4. QED
    BY <1>5, <2>2, <2>3
<1>6. ASSUME UNCHANGED policyVars, clock' \in Nat, clock <= clock'
      PROVE  IamInv' /\ CallType' /\ CallEffect'
  BY <1>1, <1>5, <1>6 DEF policyVars, Waits, IamInv
<1>7. ASSUME NEW r \in Agents, Catches(r)
      PROVE  IamInv' /\ CallType' /\ CallEffect'
  <2>1. IamInv'
    BY <1>1, <1>7 DEF Catches, Settle, IamInv
  <2>2. QED
    BY <1>1, <1>5, <1>7, <2>1 DEF Catches, Settle, Waits
<1>8. CASE Tick
  BY <1>1, <1>6, <1>8 DEF Tick
<1>9. CASE \/ \E r \in Roots : Register(r)
           \/ ProbeCall \/ Close \/ UNCHANGED vars
  BY <1>1, <1>6, <1>9 DEF Register, ProbeCall, Close, vars
<1>10. ASSUME NEW r \in Roles, Delegate(r) \/ DelegateRefused(r) \/ \E c \in Caps : StartProbe(r, c)
       PROVE  Clears
  BY <1>10 DEF Delegate, DelegateRefused, StartProbe, Clears
<1>11. ASSUME BootstrapRefused \/ BootstrapRead
       PROVE  Clears
  BY <1>11 DEF BootstrapRefused, BootstrapRead, Clears
<1>12. ASSUME \/ \E m \in Mutations : ApplyMutation(m)
              \/ \E r \in Agents : Restore(r)
       PROVE  Begins
  BY <1>12 DEF ApplyMutation, Restore, Begins
<1>13. QED
  BY <1>2, <1>3, <1>4, <1>7, <1>8, <1>9, <1>10, <1>11, <1>12 DEF Next

\* Every step keeps the sessions what STS issued.
LEMMA SessionStep == IInv /\ [Next]_vars => SessionInv'
<1> SUFFICES ASSUME IInv, [Next]_vars PROVE SessionInv'
  OBVIOUS
<1>1. SessionInv
  BY DEF IInv
<1>2. /\ \A l \in Nat : Session(l) \in Tokens /\ Session(l) # None
      /\ None \in Tokens /\ Granted \in Nat /\ BootLifetime \in Nat
  BY <1>1, SessionIsToken, Bounds DEF SessionInv
<1>3. Operate => operations' \in 0..MaxOperations
  BY <1>1, Bounds DEF Operate, SessionInv
<1>4. UseBootstrap => boot' \in Tokens /\ bootClients' \in {None, boot'}
  BY <1>1, BootstrapInv DEF SessionInv
<1> USE DEF SessionInv
<1>5. ASSUME NEW r \in Roots, Register(r)
      PROVE  SessionInv'
  BY <1>1, <1>2, <1>5 DEF Register, bootVars
<1>6. ASSUME NEW r \in Roles, Delegate(r)
      PROVE  SessionInv'
  BY <1>1, <1>2, <1>3, <1>6 DEF Delegate, bootVars
<1>7. ASSUME NEW r \in Roles, NEW c \in Caps, StartProbe(r, c)
      PROVE  SessionInv'
  BY <1>1, <1>3, <1>7 DEF StartProbe, bootVars
<1>8. ASSUME NEW r \in Roles, DelegateRefused(r)
      PROVE  SessionInv'
  BY <1>1, <1>3, <1>8 DEF DelegateRefused, sessionVars, bootVars
<1>9. CASE BootstrapRefused
  BY <1>1, <1>2, <1>3, <1>9 DEF BootstrapRefused, sessionVars
<1>10. CASE BootstrapRead
  BY <1>1, <1>3, <1>4, <1>10 DEF BootstrapRead, sessionVars
<1>11. CASE Begins
  BY <1>1, <1>3, <1>4, <1>11 DEF Begins, sessionVars
<1>12. CASE Tick
  BY <1>1, <1>12, Bounds DEF Tick, sessionVars, bootVars
<1>13. CASE Close
  BY <1>1, <1>2, <1>13 DEF Close
<1>14. ASSUME IamCall \/ ProbeCall \/ (\E r \in Agents : Catches(r)) \/ UNCHANGED vars
       PROVE  SessionInv'
  BY <1>1, <1>14 DEF IamCall, ProbeCall, Catches, Settle, vars, sessionVars, bootVars
<1>15. ASSUME \/ \E m \in Mutations : ApplyMutation(m)
              \/ \E r \in Agents : Restore(r)
       PROVE  Begins
  BY <1>15 DEF ApplyMutation, Restore, Begins
<1>16. QED
  BY <1>5, <1>6, <1>7, <1>8, <1>9, <1>10, <1>11, <1>12, <1>13, <1>14, <1>15 DEF Next

\* Every step keeps an operation with clients that outlive its polling (session.py).
LEMMA SigningStep == IInv /\ [Next]_vars => SigningInv'
<1> SUFFICES ASSUME IInv, [Next]_vars, Running' PROVE /\ bootClients' = boot'
                                                      /\ clock' <= call'.start + PollTimeout
                                                      /\ call'.start + Skew < bootClients'.expires
  BY DEF SigningInv
<1>1. /\ Running => /\ bootClients = boot
                    /\ clock <= call.start + PollTimeout /\ call.start + Skew < bootClients.expires
      /\ CallType /\ SessionInv /\ IamInv /\ clock \in 1..MaxClock /\ PollTimeout \in Nat
  BY PolicyConstants DEF IInv, SigningInv, SessionInv
<1>2. /\ Running' <=> call'.pc \in Underway
      /\ Running <=> call.pc \in Underway
      /\ Running => call.start \in 1..clock
  BY <1>1 DEF Running, Underway, CallType
<1>3. CASE Begins
  <2>1. call'.start = clock
    BY <1>1, <1>2, <1>3, BeginInv DEF Begins
  <2>2. bootClients' = boot' /\ clock + Skew < bootClients'.expires
    BY <1>1, <1>3, BootstrapInv DEF Begins, SessionInv
  <2>3. QED
    BY <1>1, <1>3, <2>1, <2>2 DEF Begins
<1>4. CASE Clears
  BY <1>2, <1>4 DEF Clears, NoCall, Underway
<1>5. CASE IamCall
  <2>1. Running /\ call'.start = call.start
    BY <1>1, <1>2, <1>5, PolicyStepKeepsStart DEF IamCall
  <2>2. QED
    BY <1>1, <1>5, <2>1 DEF IamCall, bootVars
<1>6. CASE Tick
  <2>1. Running /\ ~TimedOut
    BY <1>2, <1>6 DEF Tick, policyVars
  <2>2. clock + 1 <= call.start + PollTimeout
    BY <1>1, <1>2, <2>1 DEF TimedOut
  <2>3. QED
    BY <1>1, <1>6, <2>1, <2>2 DEF Tick, policyVars, bootVars
<1>7. CASE \/ \E r \in Roots : Register(r)
           \/ Close
  BY <1>2, <1>7 DEF Register, Close, Idle, policyVars
<1>8. ASSUME ProbeCall \/ (\E r \in Agents : Catches(r)) \/ UNCHANGED vars
      PROVE  /\ bootClients' = boot'
             /\ clock' <= call'.start + PollTimeout
             /\ call'.start + Skew < bootClients'.expires
  BY <1>1, <1>2, <1>8 DEF ProbeCall, Catches, Settle, vars, bootVars, policyVars
<1>9. ASSUME NEW r \in Roles, Delegate(r) \/ DelegateRefused(r) \/ \E c \in Caps : StartProbe(r, c)
      PROVE  Clears
  BY <1>9 DEF Delegate, DelegateRefused, StartProbe, Clears
<1>10. ASSUME BootstrapRefused \/ BootstrapRead
       PROVE  Clears
  BY <1>10 DEF BootstrapRefused, BootstrapRead, Clears
<1>11. ASSUME \/ \E m \in Mutations : ApplyMutation(m)
              \/ \E r \in Agents : Restore(r)
       PROVE  Begins
  BY <1>11 DEF ApplyMutation, Restore, Begins
<1>12. QED
  BY <1>3, <1>4, <1>5, <1>6, <1>7, <1>8, <1>9, <1>10, <1>11 DEF Next

\* Every step keeps a probe under way one that was not denied.
LEMMA ProbeStep == IInv /\ [Next]_vars => ProbeInv'
<1> SUFFICES ASSUME IInv, [Next]_vars PROVE ProbeInv'
  OBVIOUS
<1>1. ProbeInv
  BY DEF IInv
<1>2. CASE NoProbe
  BY <1>2 DEF NoProbe, ProbeInv, DenialsAreFinal
<1>3. CASE probe' = probe
  BY <1>1, <1>3 DEF ProbeInv, DenialsAreFinal
<1>4. ASSUME NEW r \in Roles, NEW c \in Caps, StartProbe(r, c)
      PROVE  ProbeInv'
  <2>1. /\ probe'.pc = "call" /\ DOMAIN probe' = ProbeFields /\ probe'.role \in Roles
        /\ probe'.answers = <<>>
    BY <1>4 DEF StartProbe, ProbeFields
  <2>2. QED
    BY <2>1 DEF ProbeInv, DenialsAreFinal
<1>5. CASE ProbeCall
  BY <1>1, <1>5, ProbeCallInv
<1>6. ASSUME NEW r \in Roles, Delegate(r) \/ DelegateRefused(r)
      PROVE  NoProbe
  BY <1>6 DEF Delegate, DelegateRefused
<1>7. ASSUME \/ \E m \in Mutations : ApplyMutation(m)
             \/ \E r \in Agents : Restore(r)
             \/ BootstrapRefused \/ BootstrapRead
      PROVE  NoProbe
  BY <1>7 DEF ApplyMutation, Restore, BootstrapRefused, BootstrapRead
<1>8. ASSUME \/ \E r \in Roots : Register(r)
             \/ \E r \in Agents : Catches(r)
             \/ IamCall \/ Tick \/ Close \/ UNCHANGED vars
      PROVE  probe' = probe
  BY <1>8 DEF Register, Catches, IamCall, Tick, Close, vars
<1>9. QED
  BY <1>2, <1>3, <1>4, <1>5, <1>6, <1>7, <1>8 DEF Next

\* The inductive invariant holds of every behaviour of the adapter.
THEOREM Invariance == Spec => []IInv
<1>1. IInv /\ [Next]_vars => IInv'
  BY IamStep, SessionStep, SigningStep, ProbeStep DEF IInv
<1>2. QED
  BY InitInv, <1>1, PTL DEF Spec


---------------------------------------------------------------------------
\* What the invariant says of every reachable state.

\* The adapter and IAM keep their types: what IAM holds is always among the
\* documents a read may return, a role has cached clients only while it has a
\* session, and the run makes no more operations than it was allowed.
THEOREM TypeCorrect == Spec => []TypeOK
<1>1. IInv => TypeOK
  <2> SUFFICES ASSUME IInv PROVE TypeOK
    OBVIOUS
  <2>1. IamInv /\ CallType /\ SessionInv /\ ProbeInv
    BY DEF IInv
  <2>2. call.pc \in {"idle", "delete", "read", "put", "poll", "receipt", "raised"}
    BY <2>1 DEF CallType, Underway
  <2>3. \A s \in Tokens : s.issued \in 0..MaxClock /\ s.expires \in Nat
    BY DEF Tokens
  <2>4. {sessions[r] : r \in Roles} \cup {clients[r] : r \in Roles} \cup {boot, bootClients} \subseteq Tokens
    <3>1. None \in Tokens
      BY Bounds DEF None, Tokens
    <3>2. QED
      BY <2>1, <3>1 DEF SessionInv
  <2>5. QED
    BY <2>1, <2>2, <2>3, <2>4 DEF TypeOK, IamInv, SessionInv, ProbeInv
<1>2. QED
  BY Invariance, <1>1, PTL

\* A confirmed receipt of REMOVE_INLINE_POLICY or restore_declared_policy speaks
\* of policies that are gone (mutation.py:196-225, :340-349), for any mutations
\* before it and any reads IAM answered late, unless a delete was suppressed
\* that had not taken effect.
THEOREM RemovalsHold == Spec => []RemovedIsRemoved
<1>1. IInv => RemovedIsRemoved
  <2> SUFFICES ASSUME IInv, call.pc = "receipt", call.confirmed, ~call.lossy
               PROVE  /\ call.op = "REMOVE_INLINE_POLICY" => iam[call.role]["grant"] = {}
                      /\ call.op = "RESTORE_DECLARED" =>
                            \A n \in Transient : iam[call.role][n] = DeclaredDocument(call.role, n)
    BY DEF RemovedIsRemoved
  <2>1. CallType /\ CallEffect
    BY DEF IInv
  <2>2. CASE call.op = "REMOVE_INLINE_POLICY"
    BY <2>1, <2>2 DEF CallEffect
  <2>3. CASE call.op = "RESTORE_DECLARED"
    <3>1. /\ iam[call.role]["deny"] = {} /\ iam[call.role]["revoke"] = {}
          /\ iam[call.role]["grant"] = call.doc
      BY <2>1, <2>3 DEF CallEffect
    <3>2. call.doc = DeclaredDocument(call.role, "grant")
      BY <2>1, <2>3 DEF CallType
    <3>3. QED
      BY <2>3, <3>1, <3>2, Documents
  <2>4. QED
    BY <2>2, <2>3
<1>2. QED
  BY Invariance, <1>1, PTL

\* A confirmed ATTACH_INLINE_DENY or trust restore was shown the document IAM
\* holds (mutation.py:306-316, :266-272), for any documents an earlier mutation
\* of the role left for a late read to return.
THEOREM StrictReceipts == Spec => []StrictReceiptSawItsWrite
<1>1. IInv => StrictReceiptSawItsWrite
  BY DEF IInv, CallEffect, StrictReceiptSawItsWrite, Strict
<1>2. QED
  BY Invariance, <1>1, PTL

\* The clients an IAM operation works with are those of the cached bootstrap
\* session and outlive the operation, for any moment it begins at and any
\* lifetimes with PollTimeout < Skew < BootLifetime (adapter.py:295-322).
THEOREM IamClientsOutlive == Spec => []IamClientsOutliveCalls
<1>1. IInv => IamClientsOutliveCalls
  <2> SUFFICES ASSUME IInv, Running PROVE bootClients = boot /\ Live(bootClients)
    BY DEF IamClientsOutliveCalls
  <2>1. /\ bootClients = boot
        /\ clock <= call.start + PollTimeout
        /\ call.start + Skew < bootClients.expires
    BY DEF IInv, SigningInv
  <2>2. call.start \in Nat /\ clock \in Nat /\ PollTimeout \in Nat /\ Skew \in Nat
    BY PolicyConstants, Bounds DEF IInv, CallType, SessionInv, Running
  <2>3. bootClients.expires \in Nat
    <3>1. bootClients \in Tokens
      BY Bounds DEF IInv, SessionInv, None, Tokens
    <3>2. QED
      BY <3>1 DEF Tokens
  <2>4. QED
    BY <2>1, <2>2, <2>3, Timing DEF Live
<1>2. QED
  BY Invariance, <1>1, PTL

\* A denied call is the last one of its probe, and a probe is reported as denied
\* exactly when a call of it was (retry.py:98-123), for any
\* number of attempts, faults and policies.
THEOREM DenialsFinal == Spec => []DenialsAreFinal
<1>1. IInv => DenialsAreFinal
  BY DEF IInv, ProbeInv
<1>2. QED
  BY Invariance, <1>1, PTL

=============================================================================
