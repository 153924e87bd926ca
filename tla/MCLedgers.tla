---------------------------- MODULE MCLedgers --------------------------------
(***************************************************************************)
(* Model checking of three ledgers of the hub's database that every        *)
(* request may write: the approval passes, the reserved TypeScript names   *)
(* and the audit rows.  What one of them holds never decides a write to    *)
(* another, so they are checked side by side: a behaviour is one of a      *)
(* single ledger while the others stand still.                             *)
(***************************************************************************)
EXTENDS ApprovalGate, TypescriptNames, AuditExport, TLC

VARIABLE subject

ledgerVars == <<subject, vars, tsVars, aeVars>>

(* Both identities derive the same candidate name, the case that collides. *)
OneCandidate == 1 :> 1 @@ 2 :> 1

(* Calls, decisions and writers are only ever compared for equality. *)
Symmetry ==
  Permutations(Calls) \cup Permutations(TsWriters) \cup Permutations(AeWriters)

(* Those that stand still start in one state. *)
LedgersInit ==
  /\ Init /\ TsInit /\ AeInit
  /\ subject \in {"passes", "names", "audit"}
  /\ subject # "passes" => online
  /\ subject # "names" => tsFamily = "service"

LedgersNext ==
  \/ subject = "passes" /\ Next /\ UNCHANGED <<subject, tsVars, aeVars>>
  \/ subject = "names" /\ TsNext /\ UNCHANGED <<subject, vars, aeVars>>
  \/ subject = "audit" /\ AeNext /\ UNCHANGED <<subject, vars, tsVars>>

LedgersSpec == LedgersInit /\ [][LedgersNext]_ledgerVars
=============================================================================
