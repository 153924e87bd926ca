------------------------------- MODULE MCCalls -------------------------------
(***************************************************************************)
(* Model checking of a consumer's call on its two sides: in the object of  *)
(* the app, where its frame waits for an answer (AppConnection), and in    *)
(* the gateway, where everything it reads may change under it (Dispatch).  *)
(* The one meets the other in the outcome of forward() alone, which is the *)
(* promise KeepsPromise refines to, so the sides are checked one at a      *)
(* time: a behaviour is one of a single side.                              *)
(***************************************************************************)
EXTENDS AppConnection, Dispatch, TLC

VARIABLE side

sideVars == <<side, vars, dpVars>>

(* Tokens, calls, upgrade requests and fields are told apart by nothing. *)
Symmetry ==
  Permutations(Tokens) \cup Permutations(Calls) \cup Permutations(Upgrades)
    \cup Permutations(DpFields)

(* The side that stands still starts in one state. *)
CallsInit ==
  /\ Init /\ DpInit
  /\ side \in {"object", "gateway"}
  /\ side # "gateway" => dpApp[1].redact = {}

CallsNext ==
  \/ side = "object" /\ Next /\ UNCHANGED <<side, dpVars>>
  \/ side = "gateway" /\ DpNext /\ UNCHANGED <<side, vars>>

CallsSpec == CallsInit /\ [][CallsNext]_sideVars
=============================================================================
