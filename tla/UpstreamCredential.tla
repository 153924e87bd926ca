------------------------- MODULE UpstreamCredential -------------------------
(***************************************************************************)
(* The stored credential of one proxied app (server/src/upstream.ts): the  *)
(* envelope column upstream_auth_json, the dials that spend and refresh    *)
(* it, the Connect flow and its callback, and the owner's disconnect,      *)
(* setHeaders and change of mode.                                          *)
(*                                                                         *)
(* All of it runs in stateless workers.  Between the read of the column    *)
(* and the write of it lies an exchange with the authorization server      *)
(* (AS), and nothing serializes two of them.  The AS rotates: a refresh    *)
(* token is honoured once, and the exchange that spends it mints the next  *)
(* generation.  An envelope is told from another by what it holds, since   *)
(* no generation of a grant is ever minted twice.                          *)
(***************************************************************************)
EXTENDS Naturals

CONSTANTS Dials,       \* calls and listings that dial the upstream
          Callbacks,   \* requests to the callback URL
          Grants,      \* Connect flows the owner starts
          Renewable,   \* the grants whose bundles carry a refresh token
          MaxGen       \* bound on the generations of one grant

NoGrant == "no grant"

ASSUME CredentialAssumption ==
  /\ Renewable \subseteq Grants
  /\ NoGrant \notin Grants
  /\ MaxGen \in Nat \ {0}

VARIABLES
  \* D1
  mode,       \* upstream_auth_mode
  cell,       \* upstream_auth_json, opened
  flow,       \* grant -> its upstream_oauth_state row
  \* the workers
  dial,       \* dial -> where it is parked or how it ended
  held,       \* dial -> the bundle it opened or was given
  callback,   \* callback -> where it is parked
  about,      \* callback -> the flow its state parameter names
  setting,    \* setHeaders has read the mode and not yet stored
  \* the authorization server
  newest,     \* grant -> the generation it honours, 0 before the code is spent
  revoked,    \* grants it honours no more
  lapsed,     \* bundles whose access token has expired
  \* history
  lost,       \* grants of which a minted generation reached no store
  redeemed    \* grant -> code redemptions asked of the AS, counted up to 2

atServer == <<newest, revoked, lapsed>>
atHub == <<mode, cell, flow>>
calling == <<dial, held>>
connecting == <<callback, about>>
history == <<lost, redeemed>>
vars == <<atHub, calling, connecting, setting, atServer, history>>

Generations == 0 .. MaxGen

Empty == [kind |-> "empty", grant |-> NoGrant, gen |-> 0, dead |-> FALSE]
Headers == [Empty EXCEPT !.kind = "headers"]
Bundle(g, k) == [kind |-> "oauth", grant |-> g, gen |-> k, dead |-> FALSE]
Bundles == [kind : {"oauth"}, grant : Grants, gen : 1 .. MaxGen,
            dead : BOOLEAN]
Envelopes == {Empty, Headers} \cup Bundles

TypeOK ==
  /\ mode \in {"oauth", "headers"}
  /\ cell \in Envelopes
  /\ flow \in [Grants -> {"none", "pending", "expired", "gone"}]
  /\ dial \in [Dials -> {"idle", "exchanging", "exchanged", "rejected",
                         "rereading", "spent", "refused"}]
  /\ held \in [Dials -> Envelopes]
  /\ callback \in [Callbacks -> {"idle", "read", "consumed", "redeemed",
                                 "done", "refused"}]
  /\ about \in [Callbacks -> Grants \cup {NoGrant}]
  /\ setting \in BOOLEAN
  /\ newest \in [Grants -> Generations]
  /\ revoked \subseteq Grants
  /\ lapsed \subseteq Bundles
  /\ lost \subseteq Grants
  /\ redeemed \in [Grants -> 0 .. 2]

Init ==
  /\ mode \in {"oauth", "headers"}
  /\ cell = Empty
  /\ flow = [g \in Grants |-> "none"]
  /\ dial = [r \in Dials |-> "idle"]
  /\ held = [r \in Dials |-> Empty]
  /\ callback = [c \in Callbacks |-> "idle"]
  /\ about = [c \in Callbacks |-> NoGrant]
  /\ setting = FALSE
  /\ newest = [g \in Grants |-> 0]
  /\ revoked = {}
  /\ lapsed = {}
  /\ lost = {}
  /\ redeemed = [g \in Grants |-> 0]

-----------------------------------------------------------------------------
(* Dials *)

(* credentialOf: an envelope whose kind is not the mode's is no credential,
   and neither is a bundle that a failed refresh flagged. *)
Usable(e) == e.kind = mode /\ ~e.dead

End(r, how) == dial' = [dial EXCEPT ![r] = how]

(* Fault: what is no credential of this mode is flagged like a dead bundle. *)
Dial_FlagsAnyKind(r) ==
  /\ dial[r] = "idle"
  /\ held' = [held EXCEPT ![r] = cell]
  /\ End(r, IF Usable(cell) /\ cell \notin lapsed THEN "spent" ELSE "rejected")
  /\ UNCHANGED <<atHub, connecting, setting, atServer, history>>

(* The row is read.  A bundle that has not expired and a set of headers are
   spent as they are; one that has expired is exchanged first, and one with
   no refresh token counts as rejected unasked. *)
Dial(r) ==
  /\ dial[r] = "idle"
  /\ held' = [held EXCEPT ![r] = cell]
  /\ End(r, IF ~Usable(cell) THEN "refused"
            ELSE IF cell \notin lapsed THEN "spent"
            ELSE IF cell.grant \in Renewable THEN "exchanging"
            ELSE "rejected")
  /\ UNCHANGED <<atHub, connecting, setting, atServer, history>>

(* The AS answers a refresh of the generation it honours with the next one;
   the answer may be lost on the way, or the worker gone before it comes. *)
Minted(r, arrives) ==
  LET g == held[r].grant IN
  /\ dial[r] = "exchanging"
  /\ g \notin revoked
  /\ held[r].gen = newest[g]
  /\ newest[g] < MaxGen
  /\ newest' = [newest EXCEPT ![g] = @ + 1]
  /\ IF arrives
       THEN /\ held' = [held EXCEPT ![r] = Bundle(g, newest[g] + 1)]
            /\ End(r, "exchanged")
            /\ UNCHANGED lost
       ELSE /\ End(r, "refused")
            /\ lost' = lost \cup {g}
            /\ UNCHANGED held
  /\ UNCHANGED <<atHub, connecting, setting, revoked, lapsed, redeemed>>

(* ... and any other with its refusal. *)
Rejected(r) ==
  LET g == held[r].grant IN
  /\ dial[r] = "exchanging"
  /\ g \in revoked \/ held[r].gen # newest[g]
  /\ End(r, "rejected")
  /\ UNCHANGED <<atHub, held, connecting, setting, atServer, history>>

(* No answer, or none that says no: this call fails and nothing is stored. *)
Unanswered(r) ==
  /\ dial[r] = "exchanging"
  /\ End(r, "refused")
  /\ UNCHANGED <<atHub, held, connecting, setting, atServer, history>>

(* Fault: the refreshed bundle is stored only over the one that was opened. *)
StoreRefreshed_Compares(r) ==
  /\ dial[r] = "exchanged"
  /\ cell' = IF cell = Bundle(held[r].grant, held[r].gen - 1)
               THEN held[r] ELSE cell
  /\ End(r, "spent")
  /\ UNCHANGED <<mode, flow, held, connecting, setting, atServer, history>>

(* store(next) is unconditional: the last refresh to land is a live bundle. *)
StoreRefreshed(r) ==
  /\ dial[r] = "exchanged"
  /\ cell' = held[r]
  /\ End(r, "spent")
  /\ UNCHANGED <<mode, flow, held, connecting, setting, atServer, history>>

(* Fault: the flag is written over whatever is stored. *)
Flip_NoCompare(r) ==
  /\ dial[r] = "rejected"
  /\ cell' = [held[r] EXCEPT !.dead = TRUE]
  /\ End(r, "refused")
  /\ UNCHANGED <<mode, flow, held, connecting, setting, atServer, history>>

(* The needs_reconnect flag is a compare-and-set on the bundle that was
   opened; a caller whose flip did not land reads again. *)
Flip(r) ==
  /\ dial[r] = "rejected"
  /\ IF cell = held[r]
       THEN cell' = [cell EXCEPT !.dead = TRUE] /\ End(r, "refused")
       ELSE End(r, "rereading") /\ UNCHANGED cell
  /\ UNCHANGED <<mode, flow, held, connecting, setting, atServer, history>>

(* The winner's bundle is spent, if there is one this hub may spend. *)
Reread(r) ==
  /\ dial[r] = "rereading"
  /\ IF Usable(cell) /\ cell.kind = "oauth"
       THEN End(r, "spent") /\ held' = [held EXCEPT ![r] = cell]
       ELSE End(r, "refused") /\ UNCHANGED held
  /\ UNCHANGED <<atHub, connecting, setting, atServer, history>>

(* The worker of a dial is gone with what the AS gave it. *)
DialDies(r) ==
  /\ dial[r] \in {"exchanging", "exchanged", "rejected", "rereading"}
  /\ End(r, "refused")
  /\ lost' = IF dial[r] = "exchanged" THEN lost \cup {held[r].grant} ELSE lost
  /\ UNCHANGED <<atHub, held, connecting, setting, atServer, redeemed>>

-----------------------------------------------------------------------------
(* Connect *)

(* beginConnect: the owner's browser is sent off with a state row behind it. *)
BeginConnect(g) ==
  /\ mode = "oauth"
  /\ flow[g] = "none"
  /\ flow' = [flow EXCEPT ![g] = "pending"]
  /\ UNCHANGED <<mode, cell, calling, connecting, setting, atServer, history>>

(* handleCallback reads the row: unknown, expired or another session's refuses
   and leaves it alone. *)
CallbackReads(c, g) ==
  /\ callback[c] = "idle"
  /\ flow[g] = "pending"
  /\ callback' = [callback EXCEPT ![c] = "read"]
  /\ about' = [about EXCEPT ![c] = g]
  /\ UNCHANGED <<atHub, calling, setting, atServer, history>>

(* Fault: the row is deleted and nobody asks whether it was there. *)
Consume_NoCount(c) ==
  /\ callback[c] = "read"
  /\ flow' = [flow EXCEPT ![about[c]] = "gone"]
  /\ callback' = [callback EXCEPT ![c] = "consumed"]
  /\ UNCHANGED <<mode, cell, calling, about, setting, atServer, history>>

(* The consuming delete: the caller that changed the row goes on. *)
Consume(c) ==
  /\ callback[c] = "read"
  /\ flow' = [flow EXCEPT ![about[c]] = "gone"]
  /\ callback' = [callback EXCEPT ![c] = IF flow[about[c]] = "gone"
                                           THEN "refused" ELSE "consumed"]
  /\ UNCHANGED <<mode, cell, calling, about, setting, atServer, history>>

(* The code is redeemed at the recorded endpoint; the AS honours it once, and
   may refuse it or fail to answer. *)
Redeem(c, honoured) ==
  LET g == about[c] IN
  /\ callback[c] = "consumed"
  /\ redeemed' = [redeemed EXCEPT ![g] = IF @ < 2 THEN @ + 1 ELSE @]
  /\ IF honoured
       THEN /\ newest[g] = 0
            /\ g \notin revoked
            /\ newest' = [newest EXCEPT ![g] = 1]
            /\ callback' = [callback EXCEPT ![c] = "redeemed"]
       ELSE /\ callback' = [callback EXCEPT ![c] = "refused"]
            /\ UNCHANGED newest
  /\ UNCHANGED <<atHub, calling, about, setting, revoked, lapsed, lost>>

(* The bundle is stored over whatever the column holds by now. *)
StoreConnected(c) ==
  /\ callback[c] = "redeemed"
  /\ cell' = Bundle(about[c], 1)
  /\ callback' = [callback EXCEPT ![c] = "done"]
  /\ UNCHANGED <<mode, flow, calling, about, setting, atServer, history>>

CallbackDies(c) ==
  /\ callback[c] \in {"read", "consumed", "redeemed"}
  /\ callback' = [callback EXCEPT ![c] = "refused"]
  /\ UNCHANGED <<atHub, calling, about, setting, atServer, history>>

(* Ten minutes go by; the daily sweep deletes what has expired. *)
FlowExpires(g) ==
  /\ flow[g] = "pending"
  /\ flow' = [flow EXCEPT ![g] = "expired"]
  /\ UNCHANGED <<mode, cell, calling, connecting, setting, atServer, history>>

CleanupStaleState ==
  /\ flow' = [g \in Grants |-> IF flow[g] = "expired" THEN "gone" ELSE flow[g]]
  /\ UNCHANGED <<mode, cell, calling, connecting, setting, atServer, history>>

-----------------------------------------------------------------------------
(* The owner's other operations *)

Disconnect ==
  /\ cell' = Empty
  /\ UNCHANGED <<mode, flow, calling, connecting, setting, atServer, history>>

(* setHeaders reads the mode, seals, and stores. *)
SetHeadersReads ==
  /\ ~setting
  /\ mode = "headers"
  /\ setting' = TRUE
  /\ UNCHANGED <<atHub, calling, connecting, atServer, history>>

SetHeadersStores ==
  /\ setting
  /\ setting' = FALSE
  /\ cell' = Headers
  /\ UNCHANGED <<mode, flow, calling, connecting, atServer, history>>

(* updateApp with the other mode: the same write clears the envelope. *)
FlipMode ==
  /\ mode' = IF mode = "oauth" THEN "headers" ELSE "oauth"
  /\ cell' = Empty
  /\ UNCHANGED <<flow, calling, connecting, setting, atServer, history>>

-----------------------------------------------------------------------------
(* The authorization server by itself *)

Lapses ==
  /\ cell.kind = "oauth"
  /\ lapsed' = lapsed \cup {cell}
  /\ UNCHANGED <<atHub, calling, connecting, setting, newest, revoked, history>>

Revokes(g) ==
  /\ revoked' = revoked \cup {g}
  /\ UNCHANGED <<atHub, calling, connecting, setting, newest, lapsed, history>>

-----------------------------------------------------------------------------
Next ==
  \/ \E r \in Dials :
       \/ Dial(r) \/ Rejected(r) \/ Unanswered(r)
       \/ \E arrives \in BOOLEAN : Minted(r, arrives)
       \/ StoreRefreshed(r) \/ Flip(r) \/ Reread(r) \/ DialDies(r)
  \/ \E c \in Callbacks :
       \/ \E g \in Grants : CallbackReads(c, g)
       \/ \E honoured \in BOOLEAN : Redeem(c, honoured)
       \/ Consume(c) \/ StoreConnected(c) \/ CallbackDies(c)
  \/ \E g \in Grants : BeginConnect(g) \/ FlowExpires(g) \/ Revokes(g)
  \/ CleanupStaleState
  \/ Disconnect \/ SetHeadersReads \/ SetHeadersStores \/ FlipMode
  \/ Lapses

Spec == Init /\ [][Next]_vars

(* A worker that was given a bundle stores it or dies. *)
FairSpec ==
  Spec /\ \A r \in Dials : WF_vars(StoreRefreshed(r) \/ DialDies(r))

-----------------------------------------------------------------------------
(* Whether the hub still has, or is about to store, what the AS honours. *)
Honoured(g) == g \in Renewable /\ g \notin revoked /\ g \notin lost

(* A race between two refreshes never costs the owner a Reconnect: what is
   flagged dead is a bundle, also after a change of mode, and only when the AS
   refuses its grant, when a minted token was lost on the way, or while the
   winner has its bundle still to store (the compare-and-set of refresh). *)
FlagIsDeserved ==
  cell.dead =>
    /\ cell \in Bundles
    /\ Honoured(cell.grant) =>
         \E r \in Dials : /\ dial[r] = "exchanged"
                          /\ held[r].grant = cell.grant
                          /\ held[r].gen > cell.gen

(* ... and such a flag goes away by itself (refresh's unconditional store). *)
FalseFlagHeals ==
  cell.dead /\ Honoured(cell.grant) ~> ~(cell.dead /\ Honoured(cell.grant))

(* However the writes of one grant are interleaved, a bundle is never replaced
   by an older one, which a rotating AS would refuse (refresh, handleCallback). *)
NeverOlder ==
  [][cell.kind = "oauth" /\ cell'.kind = "oauth" /\ cell'.grant = cell.grant
       => cell'.gen >= cell.gen]_vars

(* However many callbacks carry one state, its code is redeemed once (the
   consuming delete of handleCallback). *)
CodeRedeemedOnce == \A g \in Grants : redeemed[g] <= 1

(* After a disconnect the app stays not connected until Connect or setHeaders
   runs again (the comment of disconnect). *)
DisconnectHolds ==
  [][cell = Empty /\ cell' # Empty
       => SetHeadersStores \/ \E c \in Callbacks : StoreConnected(c)]_vars
=============================================================================
