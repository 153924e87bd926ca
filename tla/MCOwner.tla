------------------------------- MODULE MCOwner -------------------------------
(***************************************************************************)
(* Model checking of the owner's operations on an app that is connecting:  *)
(* who is locked out stays out (AppLifecycle), and a role that was granted *)
(* is not widened unseen (RoleDrift).  The door reads no grant and a       *)
(* registration stores its role whatever its token, so a behaviour is one  *)
(* of the door or one of the role while the other stands still.            *)
(***************************************************************************)
EXTENDS AppLifecycle, RoleDrift

VARIABLE side

ownerVars == <<side, allVars, rdVars>>

OwnerInit == LifecycleInit /\ RdInit /\ side \in {"door", "role"}

OwnerNext ==
  \/ side = "door" /\ LifecycleNext /\ UNCHANGED <<side, rdVars>>
  \/ side = "role" /\ RdNext /\ UNCHANGED <<side, allVars>>

OwnerSpec == OwnerInit /\ [][OwnerNext]_ownerVars
=============================================================================
