--------------------------- MODULE MCAppLifecycle ---------------------------
(***************************************************************************)
(* Model checking of AppLifecycle: tokens are interchangeable.             *)
(***************************************************************************)
EXTENDS AppLifecycle, TLC

Symmetry == Permutations(Tokens)
=============================================================================
