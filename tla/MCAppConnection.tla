-------------------------- MODULE MCAppConnection --------------------------
(***************************************************************************)
(* Model checking of AppConnection: the symmetry of the runs that check    *)
(* safety only.  Sockets are numbers and are not symmetric; tokens, calls  *)
(* and upgrade requests are told apart by nothing.                         *)
(***************************************************************************)
EXTENDS AppConnection, TLC

Symmetry ==
  Permutations(Tokens) \cup Permutations(Calls) \cup Permutations(Upgrades)
=============================================================================
