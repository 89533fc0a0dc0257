------------------------- MODULE RunLifecycleProofs -------------------------
(***************************************************************************)
(* Proofs about RunLifecycle, for every set of identities and every set of *)
(* compiled plans.                                                         *)
(***************************************************************************)
EXTENDS RunLifecycle, TLAPS

(***************************************************************************)
(* Type correctness.                                                       *)
(***************************************************************************)

(* A plan the run was given is a sequence of well-formed steps.            *)
LEMMA PlanIsSequence ==
  ASSUME plan \in Plans
  PROVE  plan \in Seq(MeasureStep \union MutateStep)
BY PlansAreSequences

(* Only the indices of MUTATE steps have a site, and it is one of Sites.   *)
LEMMA SiteInSites ==
  ASSUME plan \in Plans, NEW n, Mutates(n)
  PROVE  Site(n) \in Sites
<1>1. plan[n] \in MeasureStep \union MutateStep
  BY PlanIsSequence DEF Mutates
<1>2. plan[n] \in MutateStep
  BY <1>1 DEF Mutates, MeasureStep, MutateStep
<1>3. QED
  BY <1>2 DEF MutateStep, Site, Sites, Layer

Try == Setup \union {"phase", "send", "receipt", "record"}

(* What each control point promises: in the middle of a MUTATE phase the   *)
(* loop is at a mutation that has been logged; a restore call is out only  *)
(* for an actionable plan; nothing has failed while the try block runs.    *)
Control ==
  /\ pc \in {"send", "receipt", "record"} => Mutates(at) /\ at \in logged
  /\ pc = "restoring" => left \in DOMAIN pending /\ Undoable(Current)
  /\ pc \in Try => ~raised /\ ~revertFailed /\ reverted = {} /\ doubtful = {}

\* The types and the control state hold at first.
LEMMA TypeInit == Init => TypeOK /\ Control
<1> SUFFICES ASSUME Init PROVE TypeOK /\ Control
  OBVIOUS
<1>1. plan \in Seq(MeasureStep \union MutateStep)
  BY PlanIsSequence DEF Init
<1>2. at \in 1 .. Len(plan) + 1
  BY <1>1 DEF Init
<1>3. pending \in Seq(DOMAIN plan) /\ left \in 0 .. Len(pending)
  BY DEF Init
<1>4. pc \in Points
  BY DEF Init, Points, Setup
<1>5. QED
  BY <1>2, <1>3, <1>4 DEF Init, TypeOK, Control, Try, Setup

\* Every step keeps the types and the control state.
LEMMA TypeStep == TypeOK /\ Control /\ [Next]_vars => TypeOK' /\ Control'
<1> SUFFICES ASSUME TypeOK, Control, [Next]_vars PROVE TypeOK' /\ Control'
  OBVIOUS
<1> DEFINE D == DOMAIN plan
<1>1. plan \in Seq(MeasureStep \union MutateStep) /\ D = 1 .. Len(plan)
  BY PlanIsSequence DEF TypeOK
<1>2. \A n : Mutates(n) => Site(n) \in Sites
  BY SiteInSites DEF TypeOK
<1>. Len(plan) \in Nat /\ Len(pending) \in Nat /\ DOMAIN pending = 1 .. Len(pending)
  BY <1>1 DEF TypeOK
<1> USE DEF TypeOK, Control, Points, Setup, Ended, Try
<1>3. CASE Authorize \/ Materialize
  BY <1>3 DEF Authorize, Materialize, Goto, InTry, evidence
<1>4. CASE SetupRaises
  BY <1>4 DEF SetupRaises, Raise, Goto, evidence
<1>5. CASE Measure
  BY <1>1, <1>5 DEF Measure, Goto, InTry, evidence
<1>6. CASE PhaseRaises
  BY <1>6 DEF PhaseRaises, Raise, Goto, evidence
<1>7. CASE LogRevert
  BY <1>7 DEF LogRevert, Mutates, Goto, InTry, evidence
<1>8. CASE SendMutation
  BY <1>2, <1>8 DEF SendMutation, Undoable, Mutates, Goto, InTry, evidence
<1>9. CASE ReceiptConfirmed \/ ReceiptTolerated
  BY <1>9 DEF ReceiptConfirmed, ReceiptTolerated, Mutates, Goto, InTry, evidence
<1>10. CASE ReceiptRefused
  BY <1>10 DEF ReceiptRefused, Raise, Goto, evidence
<1>11. CASE MutationRaises
  BY <1>11 DEF MutationRaises, Raise, Goto, evidence
<1>12. CASE RecordMutation
  <2>1. at \in D
    BY <1>12 DEF RecordMutation, Goto, Mutates
  <2>2. pending' \in Seq(D) /\ Len(pending') = Len(pending) + 1
    BY <2>1, <1>12 DEF RecordMutation
  <2>3. QED
    BY <1>1, <2>1, <2>2, <1>12 DEF RecordMutation, Goto, InTry, evidence
<1>13. CASE RecordRaises
  <2>1. at \in D
    BY <1>13 DEF RecordRaises, Raise, Goto, Mutates
  <2>2. pending' \in Seq(D) /\ left' = Len(pending') /\ Len(pending') = Len(pending) + 1
    BY <2>1, <1>13 DEF RecordRaises, Raise
  <2>3. QED
    BY <2>2, <1>13 DEF RecordRaises, Raise, Goto, evidence
<1>14. CASE LoopEnds
  BY <1>14 DEF LoopEnds, Goto, evidence
<1>15. CASE SkipRevert
  BY <1>15 DEF SkipRevert, InFinally, evidence
<1>16. CASE SendRestore
  BY <1>16 DEF SendRestore, Current, Undoable, Mutates, Goto, InFinally, evidence
<1>17. CASE RestoreConfirmed \/ RestoreUnconfirmed
  <2>1. Current \in D /\ left - 1 \in 0 .. Len(pending)
    BY <1>17 DEF RestoreConfirmed, RestoreUnconfirmed, Goto, Undoable, Mutates
  <2>2. CASE RestoreConfirmed
    BY <2>1, <2>2 DEF RestoreConfirmed, Goto, InFinally
  <2>3. CASE RestoreUnconfirmed
    BY <2>1, <2>3 DEF RestoreUnconfirmed, Goto, InFinally
  <2>4. QED
    BY <1>17, <2>2, <2>3
<1>18. CASE RestoreRaises \/ Abort \/ Finalize \/ FinalizeRaises
  BY <1>18 DEF RestoreRaises, Abort, Finalize, FinalizeRaises, Goto, InFinally, evidence
<1>19. CASE Kill
  BY <1>19 DEF Kill, evidence
<1>20. CASE DeadlinePasses
  BY <1>20 DEF DeadlinePasses, Mutates, Undoable, Current, evidence
<1>21. CASE UNCHANGED vars
  BY <1>21 DEF vars, Mutates, Undoable, Current, evidence
<1>22. QED
  BY <1>3, <1>4, <1>5, <1>6, <1>7, <1>8, <1>9, <1>10, <1>11, <1>12, <1>13, <1>14, <1>15,
     <1>16, <1>17, <1>18, <1>19, <1>20, <1>21 DEF Next, Step

(* Every reachable state of a run is well typed: in particular the indices *)
(* kept in pending_reverts and in the evidence are steps of its plan.      *)
THEOREM TypeCorrect == Spec => [](TypeOK /\ Control)
BY TypeInit, TypeStep, PTL DEF Spec

(***************************************************************************)
(* The write-ahead revert log.                                             *)
(***************************************************************************)

(* No step changes the plan or takes an event back, and the only step that *)
(* disturbs a site is the sending of a mutation, at that site.             *)
LEMMA Frame ==
  ASSUME [Next]_vars
  PROVE  /\ plan' = plan
         /\ logged \subseteq logged' /\ applied \subseteq applied'
         /\ doubtful \subseteq doubtful'
         /\ \/ drift' \subseteq drift
            \/ pc = "send" /\ Undoable(at) /\ drift' = drift \union {Site(at)}
<1> USE DEF Goto, Raise, InTry, InFinally, evidence
<1>1. CASE Authorize \/ Materialize \/ SetupRaises \/ Measure \/ PhaseRaises \/ LogRevert
  BY <1>1 DEF Authorize, Materialize, SetupRaises, Measure, PhaseRaises, LogRevert
<1>2. CASE SendMutation
  BY <1>2 DEF SendMutation
<1>3. CASE ReceiptConfirmed \/ ReceiptTolerated \/ ReceiptRefused \/ MutationRaises
  BY <1>3 DEF ReceiptConfirmed, ReceiptTolerated, ReceiptRefused, MutationRaises
<1>4. CASE RecordMutation \/ RecordRaises \/ LoopEnds \/ SkipRevert \/ SendRestore
  BY <1>4 DEF RecordMutation, RecordRaises, LoopEnds, SkipRevert, SendRestore
<1>5. CASE RestoreConfirmed \/ RestoreUnconfirmed \/ RestoreRaises
  BY <1>5 DEF RestoreConfirmed, RestoreUnconfirmed, RestoreRaises
<1>6. CASE Abort \/ Finalize \/ FinalizeRaises \/ Kill \/ DeadlinePasses
  BY <1>6 DEF Abort, Finalize, FinalizeRaises, Kill, DeadlinePasses
<1>7. CASE UNCHANGED vars
  BY <1>7 DEF vars
<1>8. QED
  BY <1>1, <1>2, <1>3, <1>4, <1>5, <1>6, <1>7 DEF Next, Step

\* Every step keeps every drift logged.
LEMMA LoggedStep ==
  TypeOK /\ Control /\ DriftIsLogged /\ [Next]_vars => DriftIsLogged'
<1> SUFFICES ASSUME TypeOK, Control, DriftIsLogged, [Next]_vars,
                    NEW s \in drift'
             PROVE  \E n \in logged' : Undoable(n)' /\ Site(n)' = s
  BY DEF DriftIsLogged
<1>1. \A n : (Undoable(n)' <=> Undoable(n)) /\ Site(n)' = Site(n)
  BY Frame DEF Undoable, Mutates, Site
<1>2. CASE s \in drift
  BY <1>1, <1>2, Frame DEF DriftIsLogged
<1>3. CASE pc = "send" /\ Undoable(at) /\ s = Site(at)
  BY <1>1, <1>3, Frame DEF Control
<1>4. QED
  BY <1>2, <1>3, Frame

(* At every moment of a run, whatever has failed or been killed, the sites *)
(* that differ from their declared state are named in the revert log.      *)
THEOREM WriteAheadRevertLog == Spec => []DriftIsLogged
<1>1. Init => DriftIsLogged
  BY DEF Init, DriftIsLogged
<1>2. QED
  BY <1>1, LoggedStep, TypeCorrect, PTL DEF Spec

(***************************************************************************)
(* What the finally block achieves.                                        *)
(***************************************************************************)

(* pending_reverts holds logged steps in plan order, and every mutation    *)
(* whose outcome was written is in it.                                     *)
Remembered ==
  /\ \A j \in DOMAIN pending : pending[j] \in logged /\ (pc \in Try => pending[j] < at)
  /\ \A i, j \in DOMAIN pending : i < j => pending[i] < pending[j]
  /\ \A n \in applied : \E j \in DOMAIN pending : pending[j] = n

(* One of the first k remembered plans restores site s.                    *)
Held(s, k) == \E j \in 1 .. k : Undoable(pending[j]) /\ Site(pending[j]) = s

(* Until an exception is raised, every disturbed site is held by a plan    *)
(* that is still to be visited, or is disclosed.                           *)
Accounted ==
  /\ pc \in Try => \A s \in drift :
       \/ Held(s, Len(pending))
       \/ pc \in {"receipt", "record"} /\ Undoable(at) /\ s = Site(at)
  /\ pc \in {"unwind", "restoring"} /\ ~raised => \A s \in drift :
       \/ Held(s, left)
       \/ \E n \in doubtful : Site(n) = s
  /\ SealedDiscloses

(* While no restore call has failed, the plans already visited have left   *)
(* their sites in the declared state.                                      *)
Cleared ==
  ~revertFailed =>
    /\ pc \in {"unwind", "restoring"} =>
         \A j \in left + 1 .. Len(pending) : Undoable(pending[j]) => Site(pending[j]) \notin drift
    /\ pc \in {"completed", "aborted"} =>
         \A j \in DOMAIN pending : Undoable(pending[j]) => Site(pending[j]) \notin drift

(* The MUTATION_REVERTED events are exactly those of the visited plans;    *)
(* a run killed before it unwound has none.                                *)
Attempted ==
  \/ pc \notin {"unwind", "restoring"} /\ reverted \union doubtful = {}
  \/ \A j \in left + 1 .. Len(pending) :
       Undoable(pending[j]) => pending[j] \in reverted \union doubtful

AttemptedOnly ==
  \A n \in reverted \union doubtful : \E j \in left + 1 .. Len(pending) : pending[j] = n

\* Every step keeps every recorded mutation remembered, in the order of the plan.
LEMMA RememberedStep ==
  TypeOK /\ Control /\ Remembered /\ [Next]_vars => Remembered'
<1> SUFFICES ASSUME TypeOK, Control, Remembered, [Next]_vars PROVE Remembered'
  OBVIOUS
<1>. Len(pending) \in Nat /\ DOMAIN pending = 1 .. Len(pending) /\ at \in Int
  BY PlanIsSequence DEF TypeOK
<1>. \A j \in DOMAIN pending : pending[j] \in Int
  BY PlanIsSequence DEF TypeOK
<1> USE DEF Remembered, Try, Setup, Goto, InTry, InFinally, evidence
<1>1. CASE RecordMutation \/ RecordRaises
  <2>1. pending' = Append(pending, at) /\ logged' = logged /\ applied' \subseteq applied \union {at}
    BY <1>1 DEF RecordMutation, RecordRaises, Raise
  <2>2. pc = "record" /\ (at' = at + 1 \/ pc' = "unwind") /\ at \in logged
    BY <1>1 DEF RecordMutation, RecordRaises, Raise, Control
  <2>3. /\ DOMAIN pending' = 1 .. Len(pending) + 1
        /\ pending'[Len(pending) + 1] = at
        /\ \A j \in 1 .. Len(pending) : pending'[j] = pending[j]
    BY <2>1 DEF TypeOK
  <2>4. \A j \in DOMAIN pending' : pending'[j] \in logged' /\ (pc' \in Try => pending'[j] < at')
    BY <2>1, <2>2, <2>3
  <2>5. \A i, j \in DOMAIN pending' : i < j => pending'[i] < pending'[j]
    BY <2>2, <2>3
  <2>6. \A n \in applied' : \E j \in DOMAIN pending' : pending'[j] = n
    BY <2>1, <2>3
  <2>7. QED
    BY <2>4, <2>5, <2>6
<1>2. CASE Authorize \/ Materialize \/ SetupRaises \/ Measure \/ PhaseRaises \/ LogRevert
  BY <1>2 DEF Authorize, Materialize, SetupRaises, Measure, PhaseRaises, LogRevert, Raise
<1>3. CASE SendMutation \/ ReceiptConfirmed \/ ReceiptTolerated \/ ReceiptRefused
           \/ MutationRaises
  BY <1>3 DEF SendMutation, ReceiptConfirmed, ReceiptTolerated, ReceiptRefused,
              MutationRaises, Raise
<1>4. CASE LoopEnds \/ SkipRevert \/ SendRestore \/ RestoreConfirmed \/ RestoreUnconfirmed
  BY <1>4 DEF LoopEnds, SkipRevert, SendRestore, RestoreConfirmed, RestoreUnconfirmed
<1>5. CASE RestoreRaises \/ Abort \/ Finalize \/ FinalizeRaises \/ Kill \/ DeadlinePasses
  BY <1>5 DEF RestoreRaises, Abort, Finalize, FinalizeRaises, Kill, DeadlinePasses
<1>6. CASE UNCHANGED vars
  BY <1>6 DEF vars
<1>7. QED
  BY <1>1, <1>2, <1>3, <1>4, <1>5, <1>6 DEF Next, Step

(* The finally block starts with the whole list ahead of it and no event   *)
(* written.                                                                *)
LEMMA Unwinding ==
  ASSUME [Next]_vars, pc \in Try
  PROVE  /\ reverted' = reverted /\ doubtful' = doubtful /\ revertFailed' = revertFailed
         /\ \/ pc' \in Try \union {"killed"}
            \/ pc' = "unwind" /\ left' = Len(pending')
<1> USE DEF Try, Setup, Goto, Raise, InTry, InFinally, evidence
<1>1. CASE Authorize \/ Materialize \/ Measure \/ LogRevert \/ SendMutation
  BY <1>1 DEF Authorize, Materialize, Measure, LogRevert, SendMutation
<1>2. CASE SetupRaises
  BY <1>2 DEF SetupRaises
<1>3. CASE PhaseRaises
  BY <1>3 DEF PhaseRaises
<1>4. CASE ReceiptConfirmed \/ ReceiptTolerated \/ RecordMutation
  BY <1>4 DEF ReceiptConfirmed, ReceiptTolerated, RecordMutation
<1>5. CASE ReceiptRefused
  BY <1>5 DEF ReceiptRefused
<1>6. CASE MutationRaises
  BY <1>6 DEF MutationRaises
<1>7. CASE RecordRaises
  BY <1>7 DEF RecordRaises
<1>8. CASE LoopEnds
  BY <1>8 DEF LoopEnds
<1>9. CASE SkipRevert \/ SendRestore \/ RestoreConfirmed \/ RestoreUnconfirmed \/ RestoreRaises
  BY <1>9 DEF SkipRevert, SendRestore, RestoreConfirmed, RestoreUnconfirmed, RestoreRaises
<1>10. CASE Abort \/ Finalize \/ FinalizeRaises \/ Kill
  BY <1>10 DEF Abort, Finalize, FinalizeRaises, Kill
<1>11. CASE DeadlinePasses
  BY <1>11 DEF DeadlinePasses
<1>12. CASE UNCHANGED vars
  BY <1>12 DEF vars
<1>13. QED
  BY <1>1, <1>2, <1>3, <1>4, <1>5, <1>6, <1>7, <1>8, <1>9, <1>10, <1>11, <1>12
  DEF Next, Step

\* Every step keeps the restores attempted exactly those of the visited plans.
LEMMA AttemptedStep ==
  TypeOK /\ Control /\ Attempted /\ AttemptedOnly /\ [Next]_vars
    => Attempted' /\ AttemptedOnly'
<1> SUFFICES ASSUME TypeOK, Control, Attempted, AttemptedOnly, [Next]_vars
             PROVE  Attempted' /\ AttemptedOnly'
  OBVIOUS
<1>. Len(pending) \in Nat /\ DOMAIN pending = 1 .. Len(pending) /\ left \in Int
  BY DEF TypeOK
<1>1. \A n : Undoable(n)' <=> Undoable(n)
  BY Frame DEF Undoable, Mutates
<1> USE DEF Attempted, AttemptedOnly, Goto, InTry, InFinally, evidence
<1>2. CASE /\ pc \in Try /\ reverted' = reverted /\ doubtful' = doubtful
           /\ \/ pc' \in Try \union {"killed"}
              \/ pc' = "unwind" /\ left' = Len(pending')
  <2>1. reverted' \union doubtful' = {}
    BY <1>2 DEF Control
  <2>2. CASE pc' \in Try \union {"killed"}
    BY <2>1, <2>2 DEF Try, Setup
  <2>3. CASE left' = Len(pending')
    <3>1. Len(pending') \in Nat
      BY TypeStep DEF TypeOK
    <3>2. left' + 1 .. Len(pending') = {}
      BY <2>3, <3>1
    <3>3. QED
      BY <2>1, <3>2
  <2>4. QED
    BY <1>2, <2>2, <2>3
<1>3. CASE SkipRevert
  BY <1>1, <1>3 DEF SkipRevert, Current, TypeOK
<1>4. CASE RestoreConfirmed \/ RestoreUnconfirmed
  <2>1. /\ pc = "restoring"
        /\ left \in 1 .. Len(pending) /\ left' = left - 1 /\ pending' = pending
        /\ reverted' \union doubtful' = reverted \union doubtful \union {pending[left]}
    BY <1>4 DEF RestoreConfirmed, RestoreUnconfirmed, Current, Control
  <2>2. \A j \in left' + 1 .. Len(pending) : j = left \/ j \in left + 1 .. Len(pending)
    BY <2>1
  <2>3. AttemptedOnly'
    BY <2>1
  <2>4. \A j \in left + 1 .. Len(pending) :
          Undoable(pending[j]) => pending[j] \in reverted \union doubtful
    BY <2>1
  <2>5. Attempted'
    BY <1>1, <2>1, <2>2, <2>4
  <2>6. QED
    BY <2>3, <2>5
<1>5. CASE SendRestore \/ RestoreRaises \/ Abort \/ Finalize \/ FinalizeRaises
           \/ Kill \/ DeadlinePasses
  BY <1>1, <1>5 DEF SendRestore, RestoreRaises, Abort, Finalize, FinalizeRaises, Kill,
                    DeadlinePasses
<1>6. CASE UNCHANGED vars
  BY <1>1, <1>6 DEF vars
<1>7. CASE pc \in Try
  <2>1. /\ reverted' = reverted /\ doubtful' = doubtful
        /\ \/ pc' \in Try \union {"killed"}
           \/ pc' = "unwind" /\ left' = Len(pending')
    BY <1>7, Unwinding
  <2>2. QED
    BY <1>2, <1>7, <2>1
<1>8. QED
  <2>1. CASE Authorize \/ Materialize \/ SetupRaises \/ Measure \/ PhaseRaises \/ LogRevert
    BY <1>7, <2>1 DEF Authorize, Materialize, SetupRaises, Measure, PhaseRaises, LogRevert,
                      Raise, Try, Setup
  <2>2. CASE SendMutation \/ ReceiptConfirmed \/ ReceiptTolerated \/ ReceiptRefused
             \/ MutationRaises
    BY <1>7, <2>2 DEF SendMutation, ReceiptConfirmed, ReceiptTolerated, ReceiptRefused,
                      MutationRaises, Raise, Try
  <2>3. CASE RecordMutation \/ RecordRaises \/ LoopEnds
    BY <1>7, <2>3 DEF RecordMutation, RecordRaises, LoopEnds, Raise, Try
  <2>4. QED
    BY <1>3, <1>4, <1>5, <1>6, <2>1, <2>2, <2>3 DEF Next, Step

(* Whatever way a run takes, its reverts are attempted newest first.       *)
THEOREM RevertsNewestFirst == Spec => []NewestFirst
<1>1. Init => Remembered /\ Attempted /\ AttemptedOnly
  BY DEF Init, Remembered, Attempted, AttemptedOnly
<1>2. TypeOK /\ Remembered /\ Attempted /\ AttemptedOnly => NewestFirst
  <2> SUFFICES ASSUME TypeOK, Remembered, Attempted, AttemptedOnly,
                      NEW m \in applied, NEW n \in applied,
                      m < n, Undoable(n), m \in reverted \union doubtful
               PROVE  n \in reverted \union doubtful
    BY DEF NewestFirst
  <2>1. /\ left \in Nat /\ Len(pending) \in Nat /\ DOMAIN pending = 1 .. Len(pending)
        /\ m \in Int /\ n \in Int
    BY PlanIsSequence DEF TypeOK
  <2>2. PICK j \in left + 1 .. Len(pending) : pending[j] = m
    BY DEF AttemptedOnly
  <2>3. PICK i \in DOMAIN pending : pending[i] = n
    BY DEF Remembered
  <2>4. ~(i < j) /\ i # j
    BY <2>1, <2>2, <2>3 DEF Remembered
  <2>5. i \in left + 1 .. Len(pending)
    BY <2>1, <2>2, <2>3, <2>4
  <2>6. QED
    BY <2>3, <2>5 DEF Attempted
<1>3. QED
  BY <1>1, <1>2, RememberedStep, AttemptedStep, TypeCorrect, PTL DEF Spec

(* What the finally block has visited stays clean.                         *)
LEMMA ClearedStep ==
  TypeOK /\ Control /\ Cleared /\ [Next]_vars => Cleared'
<1> SUFFICES ASSUME TypeOK, Control, Cleared, [Next]_vars, ~revertFailed'
             PROVE  Cleared'
  BY DEF Cleared
<1>. Len(pending) \in Nat /\ DOMAIN pending = 1 .. Len(pending) /\ left \in Nat
  BY DEF TypeOK
<1>1. \A n : (Undoable(n)' <=> Undoable(n)) /\ Site(n)' = Site(n)
  BY Frame DEF Undoable, Mutates, Site
<1> USE DEF Cleared, Goto, InFinally, evidence
<1>2. CASE pc \in Try
  <2>1. \/ pc' \in Try \union {"killed"}
        \/ pc' = "unwind" /\ left' = Len(pending')
    BY <1>2, Unwinding
  <2>2. Len(pending') \in Nat
    BY TypeStep DEF TypeOK
  <2>3. CASE pc' = "unwind" /\ left' = Len(pending')
    <3>1. left' + 1 .. Len(pending') = {}
      BY <2>2, <2>3
    <3>2. QED
      BY <2>3, <3>1
  <2>4. CASE pc' \in Try \union {"killed"}
    BY <2>4 DEF Try, Setup
  <2>5. QED
    BY <2>1, <2>3, <2>4
<1>3. CASE SkipRevert
  <2>1. \A j \in left' + 1 .. Len(pending) : j = left \/ j \in left + 1 .. Len(pending)
    BY <1>3 DEF SkipRevert
  <2>2. QED
    BY <1>1, <1>3, <2>1 DEF SkipRevert, Current
<1>4. CASE SendRestore
  <2>1. drift' \subseteq drift /\ pending' = pending /\ left' = left
    BY <1>4 DEF SendRestore
  <2>2. QED
    BY <1>1, <1>4, <2>1 DEF SendRestore
<1>5. CASE RestoreConfirmed
  <2>1. \A j \in left' + 1 .. Len(pending) : j = left \/ j \in left + 1 .. Len(pending)
    BY <1>5 DEF RestoreConfirmed
  <2>2. QED
    BY <1>1, <1>5, <2>1 DEF RestoreConfirmed, Current
<1>6. CASE RestoreUnconfirmed \/ RestoreRaises
  BY <1>6 DEF RestoreUnconfirmed, RestoreRaises
<1>7. CASE Abort \/ Finalize \/ FinalizeRaises
  BY <1>1, <1>7 DEF Abort, Finalize, FinalizeRaises
<1>8. CASE Kill
  BY <1>8 DEF Kill
<1>9. CASE DeadlinePasses \/ UNCHANGED vars
  BY <1>1, <1>9 DEF DeadlinePasses, vars
<1>10. QED
  <2>1. CASE Authorize \/ Materialize \/ SetupRaises \/ Measure \/ PhaseRaises \/ LogRevert
    BY <1>2, <2>1 DEF Authorize, Materialize, SetupRaises, Measure, PhaseRaises, LogRevert,
                      Raise, Try, Setup
  <2>2. CASE SendMutation \/ ReceiptConfirmed \/ ReceiptTolerated \/ ReceiptRefused
             \/ MutationRaises
    BY <1>2, <2>2 DEF SendMutation, ReceiptConfirmed, ReceiptTolerated, ReceiptRefused,
                      MutationRaises, Raise, Try
  <2>3. CASE RecordMutation \/ RecordRaises \/ LoopEnds
    BY <1>2, <2>3 DEF RecordMutation, RecordRaises, LoopEnds, Raise, Try
  <2>4. QED
    BY <1>3, <1>4, <1>5, <1>6, <1>7, <1>8, <1>9, <2>1, <2>2, <2>3 DEF Next, Step

(* A mutation whose outcome was written is undone at the end of the run    *)
(* unless a restore call itself failed.                                    *)
THEOREM RecordedMutationsAreUndone == Spec => []AppliedIsUndone
<1>1. Init => Remembered /\ Cleared
  BY DEF Init, Remembered, Cleared
<1>2. Remembered /\ Cleared => AppliedIsUndone
  BY DEF Remembered, Cleared, AppliedIsUndone
<1>3. QED
  BY <1>1, <1>2, RememberedStep, ClearedStep, TypeCorrect, PTL DEF Spec

(* One more remembered plan holds what the old ones did, and its own site. *)
LEMMA HeldByAppend ==
  ASSUME TypeOK, plan' = plan, NEW n \in DOMAIN plan, pending' = Append(pending, n), NEW s,
         Held(s, Len(pending)) \/ (Undoable(n) /\ Site(n) = s)
  PROVE  Held(s, Len(pending))'
<1>1. /\ Len(pending) \in Nat /\ Len(pending') = Len(pending) + 1
      /\ pending'[Len(pending) + 1] = n
      /\ \A j \in 1 .. Len(pending) : pending'[j] = pending[j]
  BY DEF TypeOK
<1>2. \A m : (Undoable(m)' <=> Undoable(m)) /\ Site(m)' = Site(m)
  BY DEF Undoable, Mutates, Site
<1>3. \E j \in 1 .. Len(pending) + 1 : Undoable(pending'[j]) /\ Site(pending'[j]) = s
  BY <1>1 DEF Held
<1>4. QED
  BY <1>1, <1>2, <1>3 DEF Held

(* No disturbed site is ever lost sight of on the way to a sealed bundle.  *)
LEMMA AccountedStep ==
  TypeOK /\ Control /\ Accounted /\ [Next]_vars => Accounted'
<1> SUFFICES ASSUME TypeOK, Control, Accounted, [Next]_vars PROVE Accounted'
  OBVIOUS
<1>. Len(pending) \in Nat /\ DOMAIN pending = 1 .. Len(pending) /\ left \in Nat
  BY DEF TypeOK
<1>1. /\ \A n : (Undoable(n)' <=> Undoable(n)) /\ Site(n)' = Site(n)
      /\ doubtful \subseteq doubtful'
  BY Frame DEF Undoable, Mutates, Site
<1> USE DEF Accounted, SealedDiscloses, Goto, InTry, InFinally, evidence
<1>3. CASE Authorize \/ Materialize \/ Measure \/ LogRevert
  BY <1>1, <1>3 DEF Authorize, Materialize, Measure, LogRevert, Held, Try, Setup
<1>4. CASE SetupRaises \/ PhaseRaises \/ ReceiptRefused \/ MutationRaises \/ RecordRaises
  BY <1>4 DEF SetupRaises, PhaseRaises, ReceiptRefused, MutationRaises, RecordRaises, Raise,
              Try, Setup
<1>5. CASE SendMutation
  BY <1>1, <1>5 DEF SendMutation, Held, Try, Setup
<1>6. CASE ReceiptConfirmed \/ ReceiptTolerated
  BY <1>1, <1>6 DEF ReceiptConfirmed, ReceiptTolerated, Held, Try, Setup
<1>7. CASE RecordMutation
  <2>1. at \in DOMAIN plan /\ plan' = plan /\ pending' = Append(pending, at) /\ drift' = drift
    BY <1>7, Frame DEF RecordMutation, Control, Mutates
  <2>2. \A s \in drift : Held(s, Len(pending)) \/ (Undoable(at) /\ Site(at) = s)
    BY <1>7 DEF RecordMutation, Try
  <2>3. \A s \in drift' : Held(s, Len(pending))'
    BY <2>1, <2>2, HeldByAppend
  <2>4. QED
    BY <1>7, <2>3 DEF RecordMutation, Try, Setup
<1>8. CASE LoopEnds
  BY <1>1, <1>8 DEF LoopEnds, Held, Try, Setup
<1>9. CASE SkipRevert
  <2>1. \A s : Held(s, left) => Held(s, left - 1)
    BY <1>9 DEF SkipRevert, Held, Current
  <2>2. QED
    BY <1>1, <1>9, <2>1 DEF SkipRevert, Held, Try, Setup
<1>10. CASE SendRestore
  <2>1. drift' \subseteq drift
    BY <1>10 DEF SendRestore
  <2>2. QED
    BY <1>1, <1>10, <2>1 DEF SendRestore, Held, Try, Setup
<1>11. CASE RestoreConfirmed \/ RestoreUnconfirmed
  <2>1. \A s : Held(s, left) => Held(s, left - 1) \/ s = Site(Current)
    BY DEF Held, Current
  <2>2. CASE RestoreConfirmed
    BY <1>1, <2>1, <2>2 DEF RestoreConfirmed, Held, Try, Setup
  <2>3. CASE RestoreUnconfirmed
    BY <1>1, <2>1, <2>3 DEF RestoreUnconfirmed, Held, Try, Setup
  <2>4. QED
    BY <1>11, <2>2, <2>3
<1>12. CASE RestoreRaises \/ Abort \/ FinalizeRaises \/ Kill
  BY <1>12 DEF RestoreRaises, Abort, FinalizeRaises, Kill, Try, Setup
<1>13. CASE Finalize
  <2>1. \A s : ~Held(s, left)
    BY <1>13 DEF Finalize, Held
  <2>2. QED
    BY <1>1, <1>13, <2>1 DEF Finalize, Try, Setup
<1>14. CASE DeadlinePasses \/ UNCHANGED vars
  BY <1>1, <1>14 DEF DeadlinePasses, vars, Held, Try, Setup, Ended
<1>15. QED
  BY <1>3, <1>4, <1>5, <1>6, <1>7, <1>8, <1>9, <1>10, <1>11, <1>12, <1>13, <1>14
  DEF Next, Step

(* A bundle is sealed only when every site still disturbed is disclosed by *)
(* an unconfirmed MUTATION_REVERTED event.                                 *)
THEOREM SealedBundleDiscloses == Spec => []SealedDiscloses
<1>1. Init => Accounted
  BY DEF Init, Accounted, SealedDiscloses
<1>2. Accounted => SealedDiscloses
  BY DEF Accounted
<1>3. QED
  BY <1>1, <1>2, AccountedStep, TypeCorrect, PTL DEF Spec

(***************************************************************************)
(* The run implements the abstract undo log.                               *)
(***************************************************************************)

(* A step that logs nothing and discloses nothing leaves both sets alone.  *)
LEMMA EvidenceFrame ==
  ASSUME [Next]_vars
  PROVE  /\ logged' = logged => Intents' = Intents
         /\ doubtful' = doubtful => Disclosed' = Disclosed
<1>1. \A n : (Undoable(n)' <=> Undoable(n)) /\ Site(n)' = Site(n)
  BY Frame DEF Undoable, Mutates, Site
<1>2. QED
  BY <1>1 DEF Intents, Disclosed

\* Every step of a run is one of the undo log, or none.
LEMMA UndoStep ==
  TypeOK /\ Control /\ SealedDiscloses' /\ [Next]_vars => [Undo!Next]_Undo!vars
<1> SUFFICES ASSUME TypeOK, Control, SealedDiscloses', [Next]_vars
             PROVE  [Undo!Next]_Undo!vars
  OBVIOUS
<1>1. /\ logged' = logged => Intents' = Intents
      /\ doubtful' = doubtful => Disclosed' = Disclosed
  BY EvidenceFrame
<1>2. \A n : (Undoable(n)' <=> Undoable(n)) /\ Site(n)' = Site(n)
  BY Frame DEF Undoable, Mutates, Site
<1>3. \A n : Mutates(n) => Site(n) \in Sites
  BY SiteInSites DEF TypeOK
<1> USE DEF Goto, InTry, InFinally, evidence, Stage
<1>4. CASE Authorize \/ Materialize \/ Measure \/ ReceiptConfirmed \/ ReceiptTolerated
           \/ RecordMutation \/ SkipRevert \/ RestoreConfirmed
  BY <1>1, <1>4 DEF Authorize, Materialize, Measure, ReceiptConfirmed, ReceiptTolerated,
                    RecordMutation, SkipRevert, RestoreConfirmed, Undo!vars
<1>5. CASE SetupRaises \/ PhaseRaises \/ ReceiptRefused \/ MutationRaises \/ RecordRaises
           \/ LoopEnds
  <2>1. Undo!WindDown
    BY <1>1, <1>5 DEF SetupRaises, PhaseRaises, ReceiptRefused, MutationRaises, RecordRaises,
                      LoopEnds, Raise, Setup, Undo!WindDown
  <2>2. QED
    BY <2>1 DEF Undo!Next
<1>6. CASE LogRevert
  <2>1. Intents' = IF Undoable(at) THEN Intents \union {Site(at)} ELSE Intents
    BY <1>2, <1>6 DEF LogRevert, Intents
  <2>2. CASE Undoable(at)
    <3>1. Undo!Intend(Site(at))
      BY <1>1, <1>6, <2>1, <2>2 DEF LogRevert, Undo!Intend
    <3>2. QED
      BY <1>3, <2>2, <3>1 DEF Undo!Next, Undoable
  <2>3. CASE ~Undoable(at)
    BY <1>1, <1>6, <2>1, <2>3 DEF LogRevert, Undo!vars
  <2>4. QED
    BY <2>2, <2>3
<1>7. CASE SendMutation
  <2>1. Intents' = Intents /\ Disclosed' = Disclosed /\ Stage = "open" /\ Stage' = "open"
    BY <1>1, <1>7 DEF SendMutation
  <2>2. CASE drift' = drift
    BY <2>1, <2>2 DEF Undo!vars
  <2>3. CASE Undoable(at) /\ drift' = drift \union {Site(at)}
    <3>1. Site(at) \in Intents /\ Site(at) \in Sites
      BY <1>3, <1>7, <2>3 DEF SendMutation, Control, Intents, Undoable
    <3>2. Undo!Disturb(Site(at))
      BY <2>1, <2>3, <3>1 DEF Undo!Disturb
    <3>3. QED
      BY <3>1, <3>2 DEF Undo!Next
  <2>4. QED
    BY <1>7, <2>2, <2>3 DEF SendMutation
<1>8. CASE SendRestore
  <2>1. Intents' = Intents /\ Disclosed' = Disclosed /\ Stage = "winding" /\ Stage' = "winding"
    BY <1>1, <1>8 DEF SendRestore
  <2>2. CASE drift' = drift
    BY <2>1, <2>2 DEF Undo!vars
  <2>3. CASE drift' = drift \ {Site(Current)}
    <3>1. Site(Current) \in Sites
      BY <1>3, <1>8 DEF SendRestore, Undoable
    <3>2. Undo!Undo(Site(Current))
      BY <2>1, <2>3 DEF Undo!Undo
    <3>3. QED
      BY <3>1, <3>2 DEF Undo!Next
  <2>4. QED
    BY <1>8, <2>2, <2>3 DEF SendRestore
<1>9. CASE RestoreUnconfirmed
  <2>1. Site(Current) \in Sites
    BY <1>3, <1>9 DEF RestoreUnconfirmed, Control, Undoable
  <2>2. Disclosed' = Disclosed \union {Site(Current)}
    BY <1>2, <1>9 DEF RestoreUnconfirmed, Disclosed
  <2>3. Undo!Disclose(Site(Current))
    BY <1>1, <1>9, <2>2 DEF RestoreUnconfirmed, Undo!Disclose
  <2>4. QED
    BY <2>1, <2>3 DEF Undo!Next
<1>10. CASE Finalize
  <2>1. drift \subseteq Disclosed
    BY <1>2, <1>10 DEF Finalize, SealedDiscloses, Disclosed
  <2>2. Undo!Seal
    BY <1>1, <1>10, <2>1 DEF Finalize, Undo!Seal
  <2>3. QED
    BY <2>2 DEF Undo!Next
<1>11. CASE RestoreRaises \/ Abort \/ FinalizeRaises \/ Kill
  <2>1. Undo!Abandon
    BY <1>1, <1>11 DEF RestoreRaises, Abort, FinalizeRaises, Kill, TypeOK, Points, Setup,
                       Ended, Undo!Abandon
  <2>2. QED
    BY <2>1 DEF Undo!Next
<1>12. CASE DeadlinePasses \/ UNCHANGED vars
  BY <1>1, <1>12 DEF DeadlinePasses, vars, Undo!vars
<1>13. QED
  BY <1>4, <1>5, <1>6, <1>7, <1>8, <1>9, <1>10, <1>11, <1>12 DEF Next, Step

(* Every run of the orchestrator is a run of the undo log: nothing is      *)
(* disturbed before it is logged or after winding down has begun, and no   *)
(* bundle is sealed over an undisclosed disturbance.                       *)
THEOREM RunImplementsUndoLog == Spec => ImplementsUndoLog
<1>1. Init => Undo!Init
  BY DEF Init, Undo!Init, Intents, Disclosed, Stage
<1>2. QED
  BY <1>1, UndoStep, TypeCorrect, SealedBundleDiscloses, PTL
  DEF Spec, ImplementsUndoLog, Undo!Spec

=============================================================================
