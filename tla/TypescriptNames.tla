--------------------------- MODULE TypescriptNames ---------------------------
(***************************************************************************)
(* The durable TypeScript names of one collision domain: the planner of    *)
(* server/src/hub-types.ts and the writes around it in                     *)
(* server/src/registry.ts.  A domain is either the services of an owner,   *)
(* each identity an app of its own, or the tools of one app.  Writers read *)
(* the committed rows, plan, and apply their plan in one batch that the    *)
(* unique index may refuse; a loser reads again and plans once more.       *)
(* Identities and names are numbers, in the order their strings have; the  *)
(* source of a row is left out, it only ranks rows of one identity.        *)
(***************************************************************************)
EXTENDS Integers, FiniteSets

CONSTANTS TsIdentities,  \* canonical identities; a deleted one never returns
          TsNames,       \* TypeScript names
          TsGenerated,   \* identity -> its generated candidate, or TsNoName
          TsWriters,     \* alias writes: owner patches, registrations, discoveries
          TsMaxWrites    \* bound on the writes begun

TsNoName == 0

ASSUME TsAssumption ==
  /\ TsIdentities \subseteq Nat /\ TsNames \subseteq Nat \ {TsNoName}
  /\ TsGenerated \in [TsIdentities -> TsNames \cup {TsNoName}]
  /\ TsMaxWrites \in Nat

VARIABLES
  tsFamily,    \* "service" or "tool"
  tsRows,      \* typescript_name_reservation
  tsLive,      \* identities whose app exists
  tsConfig,    \* the owner's configuration columns
  tsWriter,    \* writer -> its request, its plan and where it is
  tsBegun,     \* writes begun
  \* history
  tsPublished  \* what the snapshots have published

tsVars == <<tsFamily, tsRows, tsLive, tsConfig, tsWriter, tsBegun, tsPublished>>

TsRow(i, n, active) == [id |-> i, name |-> n, active |-> active]
TsAliases == [TsIdentities -> TsNames \cup {TsNoName}]
TsUnset == [i \in TsIdentities |-> TsNoName]
TsNoPlan == [activate |-> {}, retire |-> {}, resolved |-> TsUnset, refused |-> FALSE]
TsIdle == [place |-> "idle", lane |-> "none", scope |-> {}, members |-> {},
           fetched |-> FALSE, configured |-> TsUnset, hints |-> TsUnset, plan |-> TsNoPlan]

TsRowSet == [id : TsIdentities, name : TsNames, active : BOOLEAN]
TsPlanSet ==
  [activate : SUBSET TsRowSet, retire : SUBSET TsRowSet, resolved : TsAliases,
   refused : BOOLEAN]
TsWrites ==
  [place : {"idle", "begun", "planned", "lost", "replanned"},
   lane : {"none", "owner", "sdk"}, scope : SUBSET TsIdentities,
   members : SUBSET TsIdentities, fetched : BOOLEAN, configured : TsAliases,
   hints : TsAliases, plan : TsPlanSet]

TsTypeOK ==
  /\ tsFamily \in {"service", "tool"} /\ tsBegun \in 0 .. TsMaxWrites
  /\ tsRows \subseteq TsRowSet
  /\ tsLive \subseteq TsIdentities
  /\ tsConfig \in TsAliases
  /\ tsWriter \in [TsWriters -> TsWrites]
  /\ tsPublished \subseteq TsNames \X TsIdentities

TsInit ==
  /\ tsFamily \in {"service", "tool"} /\ tsBegun = 0
  /\ tsRows = {}
  /\ tsLive = TsIdentities
  /\ tsConfig = TsUnset
  /\ tsWriter = [w \in TsWriters |-> TsIdle]
  /\ tsPublished = {}

-----------------------------------------------------------------------------
(* planAliasReservations() *)

TsOwn(rows, i) == {r \in rows : r.id = i}
TsActive(rows, i) == {r \in TsOwn(rows, i) : r.active}

(* A name is taken by any row of another identity, tombstones included. *)
TsTaken(rows, i, n) == \E r \in rows : r.name = n /\ r.id # i

(* intendedAlias(): the owner's word before the app's. *)
TsIntended(q, i) == IF q.configured[i] # TsNoName THEN q.configured[i] ELSE q.hints[i]

(* Members with an intended name get it, in order, unless it is taken. *)
TsWants(q) == {i \in q.members : TsIntended(q, i) # TsNoName}
TsClashes(rows, q) ==
  {i \in TsWants(q) :
     \/ TsTaken(rows, i, TsIntended(q, i))
     \/ \E j \in TsWants(q) : /\ j < i /\ TsIntended(q, j) = TsIntended(q, i)
                              /\ ~TsTaken(rows, j, TsIntended(q, j))}
TsExplicit(rows, q) == TsWants(q) \ TsClashes(rows, q)

(* The others keep their active name, or revive their only tombstone ... *)
TsRevived(rows, q) ==
  {i \in q.members \ TsWants(q) :
     TsActive(rows, i) = {} /\ Cardinality(TsOwn(rows, i)) = 1}

(* ... or, never named before, get their candidate when nobody has it and no
   other newcomer of this pass wants it. *)
TsPending(rows, q) == {i \in q.members \ TsWants(q) : TsOwn(rows, i) = {}}
TsFresh(rows, q) ==
  {i \in TsPending(rows, q) :
     /\ TsGenerated[i] # TsNoName /\ ~TsTaken(rows, i, TsGenerated[i])
     /\ \A j \in TsExplicit(rows, q) : TsIntended(q, j) # TsGenerated[i]
     /\ \A j \in TsPending(rows, q) \ {i} : TsGenerated[j] # TsGenerated[i]}

TsResolved(rows, q) ==
  [i \in TsIdentities |->
     IF i \in TsExplicit(rows, q) THEN TsIntended(q, i)
     ELSE IF i \in TsWants(q) \/ i \notin q.members THEN TsNoName
     ELSE IF TsActive(rows, i) # {}
       THEN (CHOOSE r \in TsActive(rows, i) :
               \A s \in TsActive(rows, i) : r.name <= s.name).name
     ELSE IF i \in TsRevived(rows, q) THEN (CHOOSE r \in TsOwn(rows, i) : TRUE).name
     ELSE IF i \in TsFresh(rows, q) THEN TsGenerated[i] ELSE TsNoName]

(* An explicit name supersedes the identity's others; a fetched family proves
   its missing members gone.  The owner's lane refuses whole. *)
TsPlan(rows, q) ==
  LET named == TsExplicit(rows, q) \cup TsRevived(rows, q) \cup TsFresh(rows, q)
      resolved == TsResolved(rows, q)
  IN IF q.lane = "owner" /\ TsClashes(rows, q) # {}
       THEN [TsNoPlan EXCEPT !.refused = TRUE]
       ELSE [activate |-> {TsRow(i, resolved[i], TRUE) : i \in named},
             retire |-> {r \in rows : /\ r.active
                           /\ \/ r.id \in TsExplicit(rows, q) /\ r.name # resolved[r.id]
                              \/ q.fetched /\ r.id \notin q.members},
             resolved |-> resolved, refused |-> FALSE]

-----------------------------------------------------------------------------
(* The writers *)

(* A write that has ended, answered or thrown, is forgotten. *)
TsEnds(w) == tsWriter' = [tsWriter EXCEPT ![w] = TsIdle]

(* The identities a write about one app speaks of. *)
TsAppScopes ==
  IF tsFamily = "service" THEN {{i} : i \in tsLive} ELSE {tsLive} \ {{}}

(* A service is always a member; a tool that was not fetched is one when an
   alias names it. *)
TsNamed(scope, configured, hints) ==
  {i \in scope : tsFamily = "service" \/ configured[i] # TsNoName \/ hints[i] # TsNoName}

TsAliasesOf(scope) == [scope -> TsNames \cup {TsNoName}]
TsOver(scope, aliases, rest) ==
  [i \in TsIdentities |-> IF i \in scope THEN aliases[i] ELSE rest[i]]

(* createApp(), updateApp(): a patch replaces the app's configuration. *)
TsOwnerRequests(scope) ==
  {[TsIdle EXCEPT !.place = "begun", !.lane = "owner", !.scope = scope,
      !.members = TsNamed(scope, TsOver(scope, aliases, TsUnset), TsUnset),
      !.configured = TsOver(scope, aliases, tsConfig)] : aliases \in TsAliasesOf(scope)}

(* upsertDeclaredTypescriptAliases(): a registration brings hints; its
   configuration is the column as it reads now. *)
TsSdkRequests(scope) ==
  {[TsIdle EXCEPT !.place = "begun", !.lane = "sdk", !.scope = scope,
      !.members = TsNamed(scope, tsConfig, TsOver(scope, hints, TsUnset)),
      !.configured = tsConfig, !.hints = TsOver(scope, hints, TsUnset)] :
     hints \in TsAliasesOf(scope)}

(* allocateTypescriptNames(): the members are what was fetched, and only tools
   can be proved gone; an unreachable family names its configured ones. *)
TsDiscoveries ==
  {[TsIdle EXCEPT !.place = "begun", !.lane = "sdk", !.scope = live,
      !.members = live, !.fetched = (tsFamily = "tool"), !.configured = tsConfig] :
     live \in SUBSET tsLive}
  \cup {[TsIdle EXCEPT !.place = "begun", !.lane = "sdk", !.scope = tsLive,
           !.members = TsNamed(tsLive, tsConfig, TsUnset), !.configured = tsConfig]}

TsBegins(w) ==
  /\ tsWriter[w].place = "idle" /\ tsLive # {}
  /\ tsBegun < TsMaxWrites /\ tsBegun' = tsBegun + 1
  /\ \/ \E scope \in TsAppScopes : \E q \in TsOwnerRequests(scope) \cup TsSdkRequests(scope) :
          tsWriter' = [tsWriter EXCEPT ![w] = q]
     \/ \E q \in TsDiscoveries : tsWriter' = [tsWriter EXCEPT ![w] = q]
  /\ UNCHANGED <<tsFamily, tsRows, tsLive, tsConfig, tsPublished>>

(* planAliasLane() reads the rows; a refusal ends the write. *)
TsPlans(w) ==
  /\ tsWriter[w].place = "begun"
  /\ LET plan == TsPlan(tsRows, tsWriter[w]) IN
       IF plan.refused
         THEN TsEnds(w)
         ELSE tsWriter' = [tsWriter EXCEPT ![w].plan = plan, ![w].place = "planned"]
  /\ UNCHANGED <<tsFamily, tsBegun, tsRows, tsLive, tsConfig, tsPublished>>

(* Fault: the index does not hold the names of tombstones. *)
TsIndexRefuses_ActiveOnly(activate) ==
  \E r \in activate, s \in tsRows : r.name = s.name /\ r.id # s.id /\ s.active

(* The unique index: active or not, no two identities on one name. *)
TsIndexRefuses(activate) ==
  \E r \in activate, s \in tsRows : r.name = s.name /\ r.id # s.id

(* applyAliasPlan(): insert or reactivate, then retire, then, for an owner's
   patch, the column of the app row; one batch. *)
TsCommits(w) ==
  LET plan == tsWriter[w].plan
      gone == plan.retire \cup {TsRow(r.id, r.name, FALSE) : r \in plan.activate}
      tomb == {TsRow(r.id, r.name, FALSE) : r \in plan.retire}
  IN /\ ~TsIndexRefuses(plan.activate)
     /\ tsRows' = ((tsRows \ gone) \cup (plan.activate \ plan.retire)) \cup tomb
     /\ tsConfig' = IF tsWriter[w].lane = "owner"
                     THEN TsOver(tsWriter[w].scope, tsWriter[w].configured, tsConfig)
                     ELSE tsConfig
     /\ tsPublished' = tsPublished \cup
          {<<plan.resolved[i], i>> : i \in {j \in TsIdentities : plan.resolved[j] # TsNoName}}

TsApplies(w) ==
  /\ tsWriter[w].place \in {"planned", "replanned"}
  /\ TsCommits(w)
  /\ TsEnds(w)
  /\ UNCHANGED <<tsFamily, tsBegun, tsLive>>

(* Fault: a writer that lost publishes what it had planned. *)
TsApplyFails_Publishes(w) ==
  /\ tsWriter[w].place \in {"planned", "replanned"}
  /\ TsEnds(w)
  /\ tsPublished' = tsPublished \cup
       {<<tsWriter[w].plan.resolved[i], i>> :
          i \in {j \in TsIdentities : tsWriter[w].plan.resolved[j] # TsNoName}}
  /\ UNCHANGED <<tsFamily, tsBegun, tsRows, tsLive, tsConfig>>

(* The batch is refused by the index, or fails: the first time the writer
   plans again, the second time the error is the caller's. *)
TsApplyFails(w) ==
  /\ tsWriter[w].place \in {"planned", "replanned"}
  /\ \/ tsWriter[w].lane = "owner"
     \/ tsWriter[w].plan.activate \cup tsWriter[w].plan.retire # {}
  /\ IF tsWriter[w].place = "planned"
       THEN tsWriter' = [tsWriter EXCEPT ![w].place = "lost"]
       ELSE TsEnds(w)
  /\ UNCHANGED <<tsFamily, tsBegun, tsRows, tsLive, tsConfig, tsPublished>>

(* commitAliasLane(): the same plan again was not a lost race. *)
TsPlansAgain(w) ==
  /\ tsWriter[w].place = "lost"
  /\ LET plan == TsPlan(tsRows, tsWriter[w])
         same == /\ plan.activate = tsWriter[w].plan.activate
                 /\ plan.retire = tsWriter[w].plan.retire
     IN IF plan.refused \/ same
          THEN TsEnds(w)
          ELSE tsWriter' = [tsWriter EXCEPT ![w].plan = plan, ![w].place = "replanned"]
  /\ UNCHANGED <<tsFamily, tsBegun, tsRows, tsLive, tsConfig, tsPublished>>

(* deleteApp(): its reservations become tombstones with the row. *)
TsDeletes ==
  \E scope \in TsAppScopes :
    /\ tsLive' = tsLive \ scope
    /\ tsRows' = {IF r.id \in scope THEN TsRow(r.id, r.name, FALSE) ELSE r : r \in tsRows}
    /\ UNCHANGED <<tsFamily, tsBegun, tsConfig, tsWriter, tsPublished>>

TsDone ==
  /\ \A w \in TsWriters : tsWriter[w].place = "idle"
  /\ UNCHANGED tsVars

TsNext ==
  \/ \E w \in TsWriters :
       TsBegins(w) \/ TsPlans(w) \/ TsApplies(w) \/ TsApplyFails(w) \/ TsPlansAgain(w)
  \/ TsDeletes
  \/ TsDone

TsSpec == TsInit /\ [][TsNext]_tsVars

-----------------------------------------------------------------------------
(* Properties *)

(* A TypeScript name that code may have been written against never comes to
   mean another service or tool: whatever discoveries, registrations, owner
   patches and deletions interleave, two snapshots that publish one name
   publish it for one identity (commitAliasLane, the index of 0011). *)
TsNameMeansOne ==
  \A p, q \in tsPublished : p[1] = q[1] => p[2] = q[2]

(* What makes it so: no two identities ever hold rows of one name, and what a
   snapshot publishes is committed, tombstoned or not. *)
TsReserved ==
  /\ \A r, s \in tsRows : r.name = s.name => r.id = s.id
  /\ \A p \in tsPublished : \E r \in tsRows : r.name = p[1] /\ r.id = p[2]
=============================================================================
