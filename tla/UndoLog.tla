------------------------------- MODULE UndoLog -------------------------------
(***************************************************************************)
(* What a run promises about the provider state it disturbs, without       *)
(* saying how: a site (one policy layer of one identity) is disturbed only *)
(* after the durable log names it, is put back only while the run winds    *)
(* down, and a run may seal its evidence only when every site that is      *)
(* still disturbed has been disclosed in that evidence as unconfirmed.     *)
(* RunLifecycle is shown to implement this specification.                  *)
(***************************************************************************)

CONSTANT Sites

VARIABLES
  intents,    (* sites named by the durable revert log                     *)
  effects,    (* sites that differ from their declared state               *)
  disclosed,  (* sites whose reversion the evidence reports as unconfirmed *)
  stage       (* "open", "winding", "sealed" or "abandoned"                *)

vars == <<intents, effects, disclosed, stage>>

Stages == {"open", "winding", "sealed", "abandoned"}

Init ==
  /\ intents = {}
  /\ effects = {}
  /\ disclosed = {}
  /\ stage = "open"

Intend(x) ==
  /\ stage = "open"
  /\ intents' = intents \union {x}
  /\ UNCHANGED <<effects, disclosed, stage>>

Disturb(x) ==
  /\ stage = "open"
  /\ x \in intents
  /\ effects' = effects \union {x}
  /\ UNCHANGED <<intents, disclosed, stage>>

WindDown ==
  /\ stage = "open"
  /\ stage' = "winding"
  /\ UNCHANGED <<intents, effects, disclosed>>

Undo(x) ==
  /\ stage = "winding"
  /\ effects' = effects \ {x}
  /\ UNCHANGED <<intents, disclosed, stage>>

Disclose(x) ==
  /\ stage = "winding"
  /\ disclosed' = disclosed \union {x}
  /\ UNCHANGED <<intents, effects, stage>>

Seal ==
  /\ stage = "winding"
  /\ effects \subseteq disclosed
  /\ stage' = "sealed"
  /\ UNCHANGED <<intents, effects, disclosed>>

(* The run stops without sealing: an exception got out, or it was killed.  *)
Abandon ==
  /\ stage \in {"open", "winding"}
  /\ stage' = "abandoned"
  /\ UNCHANGED <<intents, effects, disclosed>>

Next ==
  \/ \E x \in Sites : Intend(x) \/ Disturb(x) \/ Undo(x) \/ Disclose(x)
  \/ WindDown
  \/ Seal
  \/ Abandon

Spec == Init /\ [][Next]_vars

=============================================================================
