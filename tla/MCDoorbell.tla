----------------------------- MODULE MCDoorbell -----------------------------
(***************************************************************************)
(* Model checking of Doorbell under the one fairness its code gives: the   *)
(* keepalive timer of a held stream fires and the awaits of its tick end.  *)
(***************************************************************************)
EXTENDS Doorbell

TickSpec == DbSpec /\ WF_dbVars(DbTickStep)
=============================================================================
