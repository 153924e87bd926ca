--------------------------- MODULE OauthConnection ---------------------------
(***************************************************************************)
(* Inbound OAuth connections of one namespace: the owner's consent POST    *)
(* (server/src/web.ts), the binding of a client to an agent                *)
(* (server/src/oauth.ts), its revocation, and the deletion of the agent it *)
(* is bound to (server/src/admin.ts).  Two tables are written by different *)
(* parties: the provider keeps its own consent, which makes the client's   *)
(* next authorize skip the consent screen; the hub keeps the binding,      *)
(* without which the door refuses the client's tokens.                     *)
(***************************************************************************)
EXTENDS FiniteSets

CONSTANTS OcClients,  \* registered clients
          OcAgents,   \* agents of the namespace; an id is never reused
          OcPosts,    \* consent POSTs
          OcRevokes   \* connection_revoke calls

OcNone == "none"

(* No POST has the id that stands for no row. *)
ASSUME OcConstantsAssumption == OcNone \notin OcPosts

OcNoRow == [id |-> OcNone, agent |-> OcNone, revoked |-> TRUE]

VARIABLES
  ocAgents,   \* agent rows
  ocBinding,  \* client -> its oauth_binding row, or none; a row's id is the
              \* POST that inserted it
  ocConsent,  \* clients with an oauthConsent row
  ocPost,     \* POST -> [place, client, agent, row], row the id it read
  ocRevoke,   \* call -> [place, client, row]
  \* history
  ocCut       \* clients not bound since a worker died between two writes or
              \* an agent was deleted under a binding or an accepted POST

ocVars == <<ocAgents, ocBinding, ocConsent, ocPost, ocRevoke, ocCut>>

OcRows == [id : OcPosts, agent : OcAgents, revoked : BOOLEAN]
OcIdlePost == [place |-> "idle", client |-> OcNone, agent |-> OcNone, row |-> OcNone]
OcIdleRevoke == [place |-> "idle", client |-> OcNone, row |-> OcNone]
OcPostPlaces == {"screen", "resolved", "accepted", "owned", "fresh", "again", "answered"}

OcTypeOK ==
  /\ ocAgents \subseteq OcAgents
  /\ ocBinding \in [OcClients -> OcRows \cup {OcNoRow}]
  /\ ocConsent \subseteq OcClients /\ ocCut \subseteq OcClients
  /\ ocPost \in [OcPosts -> {OcIdlePost} \cup
                  [place : OcPostPlaces, client : OcClients, agent : OcAgents,
                   row : OcPosts \cup {OcNone}]]
  /\ \A p \in OcPosts : ocPost[p].place = "again" => ocPost[p].row # OcNone
  /\ ocRevoke \in [OcRevokes -> {OcIdleRevoke} \cup
                    [place : {"read", "tombstoned", "answered"}, client : OcClients,
                     row : OcPosts]]

OcInit ==
  /\ ocAgents = OcAgents
  /\ ocBinding = [k \in OcClients |-> OcNoRow]
  /\ ocConsent = {} /\ ocCut = {}
  /\ ocPost = [p \in OcPosts |-> OcIdlePost]
  /\ ocRevoke = [r \in OcRevokes |-> OcIdleRevoke]

OcAt(p, place) == ocPost[p].place = place
OcTo(p, place) == ocPost' = [ocPost EXCEPT ![p].place = place]

(* bindingPrincipal(): what the door answers a token of this client with. *)
OcLive(k) == ~ocBinding[k].revoked

-----------------------------------------------------------------------------
(* The consent POST *)

(* The consent screen is shown only to a client the provider has no consent
   for; the owner picks an agent that exists when the screen is drawn. *)
OcScreen(p) ==
  /\ OcAt(p, "idle")
  /\ \E k \in OcClients \ ocConsent, a \in ocAgents :
       ocPost' = [ocPost EXCEPT ![p] =
         [place |-> "screen", client |-> k, agent |-> a, row |-> OcNone]]
  /\ UNCHANGED <<ocAgents, ocBinding, ocConsent, ocRevoke, ocCut>>

(* consentedAgentOf(): an agent that is gone is refused with nothing written. *)
OcResolves(p) ==
  /\ OcAt(p, "screen")
  /\ OcTo(p, IF ocPost[p].agent \in ocAgents THEN "resolved" ELSE "answered")
  /\ UNCHANGED <<ocAgents, ocBinding, ocConsent, ocRevoke, ocCut>>

(* The provider's /oauth2/consent: it records its consent, or refuses an
   edited or expired query, in which case nothing is bound. *)
OcAccepts(p) ==
  /\ OcAt(p, "resolved")
  /\ \/ OcTo(p, "answered") /\ UNCHANGED ocConsent
     \/ OcTo(p, "accepted") /\ ocConsent' = ocConsent \cup {ocPost[p].client}
  /\ UNCHANGED <<ocAgents, ocBinding, ocRevoke, ocCut>>

(* upsertBinding(): the agent is asked for once more ... *)
OcOwned(p) ==
  /\ OcAt(p, "accepted")
  /\ IF ocPost[p].agent \in ocAgents
       THEN OcTo(p, "owned") /\ UNCHANGED ocCut
       ELSE /\ OcTo(p, "answered")
            /\ ocCut' = IF OcLive(ocPost[p].client) THEN ocCut
                        ELSE ocCut \cup {ocPost[p].client}
  /\ UNCHANGED <<ocAgents, ocBinding, ocConsent, ocRevoke>>

(* ... then the id of this client's row ... *)
OcSelects(p) ==
  LET row == ocBinding[ocPost[p].client].id IN
  /\ OcAt(p, "owned")
  /\ ocPost' = [ocPost EXCEPT ![p] =
       [place |-> IF row = OcNone THEN "fresh" ELSE "again",
        client |-> @.client, agent |-> @.agent, row |-> row]]
  /\ UNCHANGED <<ocAgents, ocBinding, ocConsent, ocRevoke, ocCut>>

OcBinds(k, row, a) ==
  /\ ocBinding' = [ocBinding EXCEPT ![k] = [id |-> row, agent |-> a, revoked |-> FALSE]]
  /\ ocCut' = ocCut \ {k}

(* ... which is inserted, unless another POST has by now or the agent is gone
   (UNIQUE, FOREIGN KEY: the statement throws) ... *)
OcInserts(p) ==
  LET k == ocPost[p].client a == ocPost[p].agent IN
  /\ OcAt(p, "fresh")
  /\ OcTo(p, "answered")
  /\ \/ /\ ocBinding[k] = OcNoRow /\ a \in ocAgents
        /\ OcBinds(k, p, a)
     \/ /\ ocBinding[k] # OcNoRow \/ a \notin ocAgents
        /\ ocCut' = IF ocBinding[k] = OcNoRow THEN ocCut \cup {k} ELSE ocCut
        /\ UNCHANGED ocBinding
  /\ UNCHANGED <<ocAgents, ocConsent, ocRevoke>>

(* Fault: rebinding leaves the tombstone. *)
OcRebinds_KeepsTombstone(p) ==
  LET k == ocPost[p].client a == ocPost[p].agent IN
  /\ OcAt(p, "again")
  /\ OcTo(p, "answered")
  /\ ocBinding' = IF ocBinding[k].id = ocPost[p].row /\ a \in ocAgents
                    THEN [ocBinding EXCEPT ![k].agent = a] ELSE ocBinding
  /\ UNCHANGED <<ocAgents, ocConsent, ocRevoke, ocCut>>

(* ... or rebound by that id, its tombstone cleared; a row cascaded away since
   is updated nowhere, though another may have taken its place, and the POST
   answers all the same. *)
OcRebinds(p) ==
  LET k == ocPost[p].client a == ocPost[p].agent IN
  /\ OcAt(p, "again")
  /\ OcTo(p, "answered")
  /\ \/ /\ ocBinding[k].id = ocPost[p].row /\ a \in ocAgents
        /\ OcBinds(k, ocPost[p].row, a)
     \/ /\ ocBinding[k].id # ocPost[p].row \/ a \notin ocAgents
        /\ ocCut' = IF OcLive(k) THEN ocCut ELSE ocCut \cup {k}
        /\ UNCHANGED ocBinding
  /\ UNCHANGED <<ocAgents, ocConsent, ocRevoke>>

(* The worker dies between two of its writes. *)
OcPostDies(p) ==
  /\ ocPost[p].place \in OcPostPlaces \ {"answered"}
  /\ OcTo(p, "answered")
  /\ ocCut' = IF /\ ocPost[p].place \in {"accepted", "owned", "fresh", "again"}
                 /\ ~OcLive(ocPost[p].client)
                THEN ocCut \cup {ocPost[p].client} ELSE ocCut
  /\ UNCHANGED <<ocAgents, ocBinding, ocConsent, ocRevoke>>

-----------------------------------------------------------------------------
(* connection_revoke and agent_delete *)

(* revokeConnection(): the row, its tombstone by the row's id, then the
   provider's consent by the client. *)
OcRevokeReads(r) ==
  /\ ocRevoke[r] = OcIdleRevoke
  /\ \E k \in OcClients :
       /\ ocBinding[k] # OcNoRow
       /\ ocRevoke' = [ocRevoke EXCEPT ![r] =
            [place |-> "read", client |-> k, row |-> ocBinding[k].id]]
  /\ UNCHANGED <<ocAgents, ocBinding, ocConsent, ocPost, ocCut>>

OcTombstones(r) ==
  LET k == ocRevoke[r].client IN
  /\ ocRevoke[r].place = "read"
  /\ ocRevoke' = [ocRevoke EXCEPT ![r].place = "tombstoned"]
  /\ ocBinding' = IF ocBinding[k].id # ocRevoke[r].row THEN ocBinding
                  ELSE [ocBinding EXCEPT ![k].revoked = TRUE]
  /\ UNCHANGED <<ocAgents, ocConsent, ocPost, ocCut>>

(* Fault: the tombstone is taken to be enough. *)
OcDropsConsent_Keeps(r) ==
  /\ ocRevoke[r].place = "tombstoned"
  /\ ocRevoke' = [ocRevoke EXCEPT ![r].place = "answered"]
  /\ UNCHANGED <<ocAgents, ocBinding, ocConsent, ocPost, ocCut>>

OcDropsConsent(r) ==
  /\ ocRevoke[r].place = "tombstoned"
  /\ ocRevoke' = [ocRevoke EXCEPT ![r].place = "answered"]
  /\ ocConsent' = ocConsent \ {ocRevoke[r].client}
  /\ UNCHANGED <<ocAgents, ocBinding, ocPost, ocCut>>

(* The worker dies with the tombstone written and the consent standing. *)
OcRevokeDies(r) ==
  /\ ocRevoke[r].place \in {"read", "tombstoned"}
  /\ ocRevoke' = [ocRevoke EXCEPT ![r].place = "answered"]
  /\ ocCut' = IF ocRevoke[r].place = "tombstoned"
                THEN ocCut \cup {ocRevoke[r].client} ELSE ocCut
  /\ UNCHANGED <<ocAgents, ocBinding, ocConsent, ocPost>>

(* agent_delete: one batch deletes the agent, its tokens and, by the foreign
   key, its bindings.  The provider's consent is not the hub's to cascade. *)
OcDeletesAgent(a) ==
  /\ a \in ocAgents
  /\ ocAgents' = ocAgents \ {a}
  /\ ocBinding' = [k \in OcClients |->
       IF ocBinding[k].agent = a THEN OcNoRow ELSE ocBinding[k]]
  /\ ocCut' = ocCut \cup {k \in OcClients : ocBinding[k].agent = a}
  /\ UNCHANGED <<ocConsent, ocPost, ocRevoke>>

(* Everything asked for has been answered. *)
OcDone ==
  /\ \A p \in OcPosts : ocPost[p].place \in {"idle", "answered"}
  /\ \A r \in OcRevokes : ocRevoke[r].place \in {"idle", "answered"}
  /\ UNCHANGED ocVars

OcNext ==
  \/ \E p \in OcPosts :
       \/ OcScreen(p) \/ OcResolves(p) \/ OcAccepts(p) \/ OcOwned(p)
       \/ OcSelects(p) \/ OcInserts(p) \/ OcRebinds(p) \/ OcPostDies(p)
  \/ \E r \in OcRevokes :
       OcRevokeReads(r) \/ OcTombstones(r) \/ OcDropsConsent(r) \/ OcRevokeDies(r)
  \/ \E a \in OcAgents : OcDeletesAgent(a)
  \/ OcDone

OcSpec == OcInit /\ [][OcNext]_ocVars

-----------------------------------------------------------------------------
(* Properties *)

(* Under way: what an accepted POST or a revocation has yet to write. *)
OcUnderWay(k) ==
  \/ \E p \in OcPosts : /\ ocPost[p].client = k
                        /\ ocPost[p].place \in {"accepted", "owned", "fresh", "again"}
  \/ \E r \in OcRevokes : /\ ocRevoke[r].client = k
                          /\ ocRevoke[r].place = "tombstoned"

OcStranded(k) == k \in ocConsent /\ ~OcLive(k) /\ ~OcUnderWay(k)

(* However consent POSTs and revocations of one client cross, none of them
   leaves the provider's consent over a dead binding, a client whose next
   authorize skips the consent screen and whose tokens the door refuses;
   only a worker that died or an agent that was deleted does (consent POST,
   upsertBinding, revokeConnection). *)
OcNoStranding == \A k \in OcClients : OcStranded(k) => k \in ocCut
=============================================================================
