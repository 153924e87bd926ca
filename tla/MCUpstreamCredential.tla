------------------------ MODULE MCUpstreamCredential ------------------------
(* Instances of UpstreamCredential for TLC: dials, callbacks and flows are
   model values, with no symmetry because every run checks liveness or gives
   the flows different refresh tokens. *)
EXTENDS UpstreamCredential
=============================================================================
