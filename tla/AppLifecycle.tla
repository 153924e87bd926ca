---------------------------- MODULE AppLifecycle ----------------------------
(***************************************************************************)
(* The object of AppConnection with what surrounds it: the D1 rows of the  *)
(* app and its tokens, the worker half of wss://host/connect, which reads  *)
(* them one await at a time, and the owner operations that write them and  *)
(* then reach the object over RPC (server/src/tunnel.ts handleConnect,     *)
(* server/src/admin.ts token_revoke, app_archive, app_unarchive and        *)
(* app_delete).  Consumers' calls are left to AppConnection.               *)
(***************************************************************************)
EXTENDS AppConnection

VARIABLES
  tokenRow,     \* token -> "live", "revoked" or "gone"
  appRow,       \* "live", "archived" or "gone"
  door,         \* token -> how far its upgrade has come in the worker half
  severs,       \* the owner's sever and wipe RPCs still to reach the object
  \* history
  severed,      \* tokens whose revocation reached the object
  lockedOut,    \* ... at a moment when no upgrade of theirs was under way
  emptied       \* the sever of a deletion reached the object

rowVars == <<tokenRow, appRow>>
historyVars == <<severed, lockedOut, emptied>>
outerVars == <<rowVars, door, severs, historyVars>>
allVars == <<vars, outerVars>>

Severs == {<<"revoked", t>> : t \in Tokens \cup {None}}
            \cup {<<"archived", None>>}
WipeOp == <<"wipe", None>>   \* asked for once a deletion's sever is answered
Ops == Severs \cup {WipeOp}

LifecycleTypeOK ==
  /\ TypeOK
  /\ tokenRow \in [Tokens -> {"live", "revoked", "gone"}]
  /\ appRow \in {"live", "archived", "gone"}
  /\ door \in [Tokens -> {"away", "resolved", "admitted"}]
  /\ severs \subseteq Ops
  /\ severed \subseteq Tokens
  /\ lockedOut \subseteq severed
  /\ emptied \in BOOLEAN

LifecycleInit ==
  /\ Init
  /\ tokenRow = [t \in Tokens |-> "live"]
  /\ appRow = "live"
  /\ door = [t \in Tokens |-> "away"]
  /\ severs = {}
  /\ severed = {}
  /\ lockedOut = {}
  /\ emptied = FALSE

-----------------------------------------------------------------------------
(* handleConnect.  A refused upgrade (401, 403) leaves nothing behind. *)

(* resolveAppToken: the row of the presented token, live. *)
ResolveToken(t) ==
  /\ door[t] = "away"
  /\ tokenRow[t] = "live"
  /\ door' = [door EXCEPT ![t] = "resolved"]
  /\ UNCHANGED <<vars, rowVars, severs, historyVars>>

(* appById: 401 when the row is gone, 403 when it is archived. *)
LoadApp(t) ==
  /\ door[t] = "resolved"
  /\ door' = [door EXCEPT ![t] = IF appRow = "live" THEN "admitted" ELSE "away"]
  /\ UNCHANGED <<vars, rowVars, severs, historyVars>>

(* The object is asked for the upgrade, on the word of those two reads. *)
HandOver(t) ==
  /\ door[t] = "admitted"
  /\ Upgrade(t) \/ Evict(t)
  /\ door' = [door EXCEPT ![t] = "away"]
  /\ UNCHANGED <<rowVars, severs, historyVars>>

(* Fault: the declaration is stored without a look at the app's row. *)
UpsertAgainstRow_Blind(s, verdict) ==
  /\ UpsertAnswers(s, verdict)
  /\ UNCHANGED outerVars

(* upsertDeclaredRoles reads the row first; its UPDATE then matches whatever
   is left.  Without a row the handler answers rowGone, or D1 fails. *)
UpsertAgainstRow(s, verdict) ==
  /\ verdict \in {"stored", "refused"} => appRow # "gone"
  /\ verdict = "rowGone" => appRow = "gone"
  /\ UpsertAnswers(s, verdict)
  /\ UNCHANGED outerVars

-----------------------------------------------------------------------------
(* Owner operations: D1 first, then the object. *)

(* Fault: the object is told and the row is not written. *)
RevokeToken_SeverOnly(t) ==
  /\ tokenRow[t] # "gone"
  /\ severs' = severs \cup {<<"revoked", t>>}
  /\ UNCHANGED <<vars, tokenRow, appRow, door, historyVars>>

RevokeToken(t) ==
  /\ tokenRow[t] # "gone"
  /\ tokenRow' = [tokenRow EXCEPT ![t] = "revoked"]
  /\ severs' = severs \cup {<<"revoked", t>>}
  /\ UNCHANGED <<vars, appRow, door, historyVars>>

ArchiveApp ==
  /\ appRow # "gone"
  /\ appRow' = "archived"
  /\ severs' = severs \cup {<<"archived", None>>}
  /\ UNCHANGED <<vars, tokenRow, door, historyVars>>

UnarchiveApp ==
  /\ appRow = "archived"
  /\ appRow' = "live"
  /\ UNCHANGED <<vars, tokenRow, door, severs, historyVars>>

(* One batch: the app row and its token rows go together. *)
DeleteApp ==
  /\ Deletable
  /\ appRow # "gone"
  /\ appRow' = "gone"
  /\ tokenRow' = [t \in Tokens |-> "gone"]
  /\ severs' = severs \cup {<<"revoked", None>>}
  /\ UNCHANGED <<vars, door, historyVars>>

(* Whether an upgrade of the token is anywhere between its bearer being read
   and its socket being accepted. *)
Underway(t) == door[t] # "away" \/ \E u \in Upgrades : arriving[u] = t

(* The object answers a sever; a deletion then asks it to wipe. *)
SeverArrives(op) ==
  /\ op \in severs
  /\ Sever(op[1], op[2])
  /\ LET t == op[2]
         last == op = <<"revoked", None>> IN
     /\ severs' = (severs \ {op}) \cup (IF last THEN {WipeOp} ELSE {})
     /\ emptied' = (emptied \/ last)
     /\ severed' = IF t \in Tokens THEN severed \cup {t} ELSE severed
     /\ lockedOut' = IF t \in Tokens /\ ~Underway(t)
                       THEN lockedOut \cup {t} ELSE lockedOut
  /\ UNCHANGED <<rowVars, door>>

WipeArrives ==
  /\ Deletable
  /\ WipeOp \in severs
  /\ Wipe
  /\ severs' = severs \ {WipeOp}
  /\ UNCHANGED <<rowVars, door, historyVars>>

(* evict(): an object that cannot be reached is a verdict in the audit row. *)
SeverUnreachable(op) ==
  /\ op \in severs
  /\ severs' = severs \ {op}
  /\ UNCHANGED <<vars, rowVars, door, historyVars>>

-----------------------------------------------------------------------------
(* What the object does by itself. *)
Inner ==
  \/ \E u \in Upgrades : EvictionRecorded(u) \/ EvictionFailed(u)
  \/ \E s \in Sockets :
       \/ BadFirstFrame(s) \/ RegisterFrame(s) \/ RegisterStored(s)
       \/ RegisterRefused(s) \/ RegisterFailed(s) \/ PeerCloses(s)
  \/ Calling
  \/ \E s \in Sockets, b \in Bells : Rings(s, b)
  \/ BellAlarm \/ DeadlineAlarm \/ Tick \/ Restart

LifecycleNext ==
  \/ \E t \in Tokens :
       ResolveToken(t) \/ LoadApp(t) \/ HandOver(t) \/ RevokeToken(t)
  \/ \E s \in Sockets, verdict \in Verdicts : UpsertAgainstRow(s, verdict)
  \/ ArchiveApp \/ UnarchiveApp \/ DeleteApp
  \/ \E op \in Severs : SeverArrives(op)
  \/ WipeArrives
  \/ \E op \in Ops : SeverUnreachable(op)
  \/ Inner /\ UNCHANGED outerVars

LifecycleSpec == LifecycleInit /\ [][LifecycleNext]_allVars

-----------------------------------------------------------------------------
OpenWith(t) == \E s \in Sockets : wire[s] = "open" /\ opener[s] = t

(* A revoked token is out for good once its revocation reached the object
   with no upgrade of it under way: the socket it opened is closed, and no
   later dial of it opens another (token_revoke's order, onlyIfTokenId). *)
LockedOutStaysOut == \A t \in lockedOut : ~OpenWith(t)

(* token_revoke's own claim, with no such proviso: once it has severed, the
   token holds no socket, since a racing reconnect meets a dead row. *)
RevokedIsOut == \A t \in severed : ~OpenWith(t)

(* A deleted app never serves again once its sever reached the object: a
   racing registration finds no row (app_delete's order, register). *)
DeletedNeverServes ==
  emptied => \A s \in Sockets : ~(wire[s] = "open" /\ registered[s])
=============================================================================
