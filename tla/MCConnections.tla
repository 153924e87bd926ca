--------------------------- MODULE MCConnections ----------------------------
(***************************************************************************)
(* Model checking of the hub's connections to its apps and its clients.  A *)
(* proxied app is reached with a stored credential (UpstreamCredential), a *)
(* tunnelled one through a call that waits in its object (AppConnection),  *)
(* and an OAuth client reaches the hub by its binding to an agent          *)
(* (OauthConnection).  A connection is of one kind for good and no         *)
(* operation touches two of them, so they are checked side by side: a      *)
(* behaviour is one of a single connection.                                *)
(***************************************************************************)
EXTENDS UpstreamCredential, OauthConnection

CONSTANTS Tokens, Calls, Bells, Upgrades, MaxSockets, DeadlineMs, BellFloor,
          Deletable

VARIABLES accepted, wire, opener, registered, arriving, registering, call,
          carrier, deadline, slot, owed, quiet, age, executed, unheard

AppOf == INSTANCE AppConnection

VARIABLE kind

appVars == <<accepted, wire, opener, registered, arriving, registering, call,
             carrier, deadline, slot, owed, quiet, age, executed, unheard>>
connectionVars == <<kind, vars, appVars, ocVars>>

(* Those that stand still start in one state. *)
ConnectionsInit ==
  /\ Init /\ AppOf!Init /\ OcInit
  /\ kind \in {"proxied", "tunnelled", "client"}
  /\ kind # "proxied" => mode = "oauth"

ConnectionsNext ==
  \/ kind = "proxied" /\ Next /\ UNCHANGED <<kind, appVars, ocVars>>
  \/ kind = "tunnelled" /\ AppOf!Next /\ UNCHANGED <<kind, vars, ocVars>>
  \/ kind = "client" /\ OcNext /\ UNCHANGED <<kind, vars, appVars>>

(* The fairness each module states, for the kind of this connection; of the
   object's that of a call's timer. *)
ConnectionsSpec ==
  /\ ConnectionsInit /\ [][ConnectionsNext]_connectionVars
  /\ \A r \in Dials :
       WF_vars(kind = "proxied" /\ (StoreRefreshed(r) \/ DialDies(r)))
  /\ \A c \in Calls : WF_appVars(kind = "tunnelled" /\ AppOf!CallTimeout(c))

(* A call forwarded to a tunnelled app has its one outcome in the end. *)
CallsEnd == AppOf!CallsEnd
=============================================================================
