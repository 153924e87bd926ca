------------------------------ MODULE Dispatch ------------------------------
(***************************************************************************)
(* What becomes of one call of a consumer (server/src/gateway.ts:          *)
(* dispatchTool, getPrompt, dispatchResourceRead) while the owner and the  *)
(* app change, between any two of its reads, everything it reads: the row  *)
(* behind the slug, the grants, the schema that says which arguments are   *)
(* secret, the owner's own list of them, the socket and the credential.    *)
(* The rows of approvals and of the audit ledger are kept as far as calls  *)
(* name them; the races on one approval are ApprovalGate's.                *)
(***************************************************************************)
EXTENDS Naturals, FiniteSets

CONSTANTS DpCalls,      \* calls of one agent or owner, alike but for their kind
          DpFields,     \* the fields of their arguments
          DpMaxRows,    \* approval rows
          DpMaxApps,    \* apps that take the slug, one after the other
          DpMaxChanges  \* steps of the owner and the app

ASSUME DpAssumption ==
  /\ DpMaxApps \in Nat \ {0}
  /\ DpMaxChanges \in Nat
  /\ DpMaxRows \in Nat

VARIABLES
          dpSlug,       \* the app the slug resolves to, 0 when none does
          dpMade,       \* apps made so far; ids are never used twice
          dpApp,        \* per app: its row, its grant, its object
          dpLive,       \* the credential stands
          dpApproval,   \* per approval row
          dpCall,       \* per call: what dispatchTool holds
          dpRan,        \* per call: the app its frame reached, 0 for none
          dpLedger,     \* per call: its audit row
          dpChanges

dpVars == <<dpSlug, dpMade, dpApp, dpLive, dpApproval, dpCall, dpRan,
            dpLedger, dpChanges>>
dpWorld == <<dpSlug, dpMade, dpApp, dpLive, dpChanges>>
dpEnded == <<dpRan, dpLedger>>

DpApps == 1..DpMaxApps
DpRows == 1..DpMaxRows
DpKinds == {"tool", "prompt", "resource"}
DpModes == {"deny", "approval", "allow"}
DpNoRow ==
  [outcome |-> "none", class |-> "none", approval |-> 0, bodied |-> FALSE,
   args |-> {}]

(* The classes of failure that certainly dispatched nothing. *)
DpDispatchedNothing == {"offline", "catalog_unreachable", "deadline_passed"}

(* The refusals the hub makes on its own. *)
DpRefusals == {"-32001", "-32002", "-32003"}

DpIdle ==
  [stage |-> "idle", kind |-> "tool", owner |-> FALSE, pin |-> 0, app |-> 0,
   archived |-> FALSE, gated |-> FALSE, map |-> {}, claim |-> 0, row |-> DpNoRow]

(* An app before it is made. *)
DpBlank ==
  [archived |-> FALSE, grant |-> "deny", online |-> FALSE, listed |-> FALSE,
   secret |-> {}, redact |-> {}]

DpNoApproval == [status |-> "none", app |-> 0, shown |-> {}]

DpInit ==
  /\ dpSlug = 1 /\ dpMade = 1
  /\ \E redact \in SUBSET DpFields :
       dpApp = [a \in DpApps |->
         IF a = 1 THEN [DpBlank EXCEPT !.grant = "approval", !.redact = redact,
                                       !.online = TRUE, !.listed = TRUE]
                  ELSE DpBlank]
  /\ dpLive = TRUE
  /\ dpApproval = [r \in DpRows |-> DpNoApproval]
  /\ dpCall = [c \in DpCalls |-> DpIdle]
  /\ dpRan = [c \in DpCalls |-> 0]
  /\ dpLedger = [c \in DpCalls |-> DpNoRow]
  /\ dpChanges = 0

-----------------------------------------------------------------------------
(* The handlers of one call, a step per thing it waits for *)

DpAt(c, stage) == dpCall[c].stage = stage
DpSet(c, call) == dpCall' = [dpCall EXCEPT ![c] = call]

(* A call that is over goes on to its row, and keeps of itself its pin, its
   gate and its claim. *)
DpOver(c, stage, row) ==
  [stage |-> stage, kind |-> "tool", owner |-> FALSE, pin |-> dpCall[c].pin,
   app |-> 0, archived |-> FALSE, gated |-> dpCall[c].gated, map |-> {},
   claim |-> dpCall[c].claim, row |-> row]

DpEnds(c, outcome, class, approval, bodied, args) ==
  DpSet(c, DpOver(c, "recording",
    [outcome |-> outcome, class |-> class, approval |-> approval,
     bodied |-> bodied, args |-> args]))

(* Fault: the catch assigns the detail instead of merging it. *)
DpThrows_Assigns(c, code, class) == DpEnds(c, code, class, 0, FALSE, {})

(* A thrown error: the one catch keeps its code, merges its class onto the claim
   the call already made, and drops the bodies. *)
DpThrows(c, code, class) == DpEnds(c, code, class, dpCall[c].claim, FALSE, {})

(* A call comes through the door; an operation of a hub program carries the id
   of the app its snapshot saw.  The row of the call before stays in the ledger
   and is followed no further. *)
DpEnter(c, kind, owner, pinned) ==
  /\ dpCall[c].stage \in {"idle", "done"}
  /\ pinned # 0 => kind # "prompt"
  /\ DpSet(c, [DpIdle EXCEPT !.stage = IF pinned # 0 THEN "proving" ELSE "reading",
                             !.kind = kind, !.owner = owner, !.pin = pinned])
  /\ dpRan' = [dpRan EXCEPT ![c] = 0]
  /\ dpLedger' = [dpLedger EXCEPT ![c] = DpNoRow]
  /\ UNCHANGED <<dpWorld, dpApproval>>

(* requireSamePrincipal: a program's operation proves its credential again. *)
DpProves(c) ==
  /\ DpAt(c, "proving")
  /\ IF dpLive THEN DpSet(c, [dpCall[c] EXCEPT !.stage = "reading"])
               ELSE DpThrows(c, "-32001", "credential_lapsed")
  /\ UNCHANGED <<dpWorld, dpApproval, dpEnded>>

(* Fault: a program's operation goes wherever the slug leads by now. *)
DpResolves_AnyApp(c) == dpSlug # 0

(* The slug resolves, and to the app the snapshot pinned. *)
DpResolves(c) ==
  /\ dpSlug # 0
  /\ dpCall[c].pin # 0 => dpSlug = dpCall[c].pin

DpReadsApp(c) ==
  /\ DpAt(c, "reading")
  /\ IF DpResolves(c)
       THEN DpSet(c, [dpCall[c] EXCEPT !.stage = "filtering", !.app = dpSlug,
                        !.archived = dpApp[dpSlug].archived])
       ELSE DpThrows(c, "-32001", IF dpSlug = 0 THEN "no_app" ELSE "app_changed")
  /\ UNCHANGED <<dpWorld, dpApproval, dpEnded>>

(* resolveAccess: everything for the owner, the grants of the app's id for an
   agent; a deleted app has none.  Archival is judged by the row read before. *)
DpMode(c) ==
  IF dpCall[c].owner THEN "allow"
  ELSE IF dpSlug = dpCall[c].app THEN dpApp[dpSlug].grant ELSE "deny"

DpFilters(c) ==
  /\ DpAt(c, "filtering")
  /\ IF DpMode(c) = "deny" THEN DpThrows(c, "-32001", "no_grant")
     ELSE IF dpCall[c].archived THEN DpThrows(c, "-32002", "none")
     ELSE DpSet(c, [dpCall[c] EXCEPT !.stage = "probing", !.owner = FALSE,
            !.gated = dpCall[c].kind = "tool" /\ DpMode(c) = "approval"])
  /\ UNCHANGED <<dpWorld, dpApproval, dpEnded>>

(* probeAvailability, ahead of the gate and of the map; an object that cannot
   be reached is offline too. *)
DpProbes(c) ==
  /\ DpAt(c, "probing")
  /\ \/ DpThrows(c, "-32000", "offline")
     \/ /\ dpApp[dpCall[c].app].online
        /\ DpSet(c, [dpCall[c] EXCEPT !.stage =
             IF dpCall[c].kind = "tool" THEN "schema" ELSE "forwarding"])
  /\ UNCHANGED <<dpWorld, dpApproval, dpEnded>>

(* sensitivePaths: the fields the cached schema declares secret.  The cache may
   not answer, and an object that was wiped caches nothing. *)
DpSchema(c) ==
  /\ DpAt(c, "schema")
  /\ \/ DpThrows(c, "-32000", "catalog_unreachable")
     \/ LET app == dpApp[dpCall[c].app] IN
        IF app.listed THEN DpSet(c, [dpCall[c] EXCEPT !.stage = "config",
                                                      !.map = app.secret])
                      ELSE DpThrows(c, "-32001", "not_in_catalog")
  /\ UNCHANGED <<dpWorld, dpApproval, dpEnded>>

(* redactPathsFor: a row that is gone names nothing. *)
DpNamed(app) == IF dpSlug = app THEN dpApp[app].redact ELSE {}

DpConfig(c) ==
  /\ DpAt(c, "config")
  /\ DpSet(c, [dpCall[c] EXCEPT
       !.stage = IF dpCall[c].gated THEN "checking" ELSE "forwarding",
       !.map = @ \cup DpNamed(dpCall[c].app)])
  /\ UNCHANGED <<dpWorld, dpApproval, dpEnded>>

(* What of the arguments a map leaves in the clear. *)
DpShown(c) == DpFields \ dpCall[c].map

(* check(): the live rows of this app and these masked arguments. *)
DpLiveRows(c, status) ==
  {r \in DpRows : /\ dpApproval[r].status = status
                  /\ dpApproval[r].app = dpCall[c].app
                  /\ dpApproval[r].shown = DpShown(c)}

(* approvalRequired: the refusal names the row that waits for the owner. *)
DpOwed(c, r) == DpEnds(c, "-32003", "none", r, FALSE, {})

(* An approved row is claimed, a pending one is answered, else one is asked
   for: its insert needs the row of the app (the foreign key). *)
DpChecks(c) ==
  /\ DpAt(c, "checking")
  /\ \/ /\ DpLiveRows(c, "approved") # {}
        /\ \E r \in DpLiveRows(c, "approved") :
             DpSet(c, [dpCall[c] EXCEPT !.stage = "claiming", !.claim = r])
        /\ UNCHANGED dpApproval
     \/ /\ DpLiveRows(c, "approved") = {}
        /\ \E r \in DpLiveRows(c, "pending") : DpOwed(c, r)
        /\ UNCHANGED dpApproval
     \/ /\ DpLiveRows(c, "approved") \cup DpLiveRows(c, "pending") = {}
        /\ IF dpSlug # dpCall[c].app
             THEN DpThrows(c, "error", "none") /\ UNCHANGED dpApproval
             ELSE \E r \in DpRows :
               /\ dpApproval[r].status = "none"
               /\ \A q \in DpRows : q < r => dpApproval[q].status # "none"
               /\ dpApproval' = [dpApproval EXCEPT ![r] =
                    [status |-> "pending", app |-> dpCall[c].app, shown |-> DpShown(c)]]
               /\ DpOwed(c, r)
  /\ UNCHANGED <<dpWorld, dpEnded>>

(* Fault: the claim looks at nothing but its id. *)
DpClaims_Blind(c) ==
  /\ DpAt(c, "claiming")
  /\ dpApproval' = [dpApproval EXCEPT ![dpCall[c].claim].status = "used"]
  /\ DpSet(c, [dpCall[c] EXCEPT !.stage = "forwarding"])
  /\ UNCHANGED <<dpWorld, dpEnded>>

(* claim(): lost when the row was used or deleted meanwhile, and then the
   gate is entered again. *)
DpClaims(c) ==
  /\ DpAt(c, "claiming")
  /\ LET r == dpCall[c].claim IN
     IF dpApproval[r].status = "approved"
       THEN /\ dpApproval' = [dpApproval EXCEPT ![r].status = "used"]
            /\ DpSet(c, [dpCall[c] EXCEPT !.stage = "forwarding"])
       ELSE /\ DpSet(c, [dpCall[c] EXCEPT !.stage = "checking", !.claim = 0])
            /\ UNCHANGED dpApproval
  /\ UNCHANGED <<dpWorld, dpEnded>>

(* The frame goes to the object of the app that was read, whatever the slug
   leads to by now; a program's operation may have run out of time. *)
DpForwards(c) ==
  /\ DpAt(c, "forwarding")
  /\ \/ /\ dpCall[c].pin # 0
        /\ DpThrows(c, "-32000", "deadline_passed")
        /\ UNCHANGED dpRan
     \/ /\ ~dpApp[dpCall[c].app].online
        /\ DpThrows(c, "-32000", "offline")
        /\ UNCHANGED dpRan
     \/ /\ DpThrows(c, "-32000", "do_unreachable")
        /\ UNCHANGED dpRan
     \/ /\ dpApp[dpCall[c].app].online
        /\ DpSet(c, [dpCall[c] EXCEPT !.stage = "waiting"])
        /\ dpRan' = [dpRan EXCEPT ![c] = dpCall[c].app]
  /\ UNCHANGED <<dpWorld, dpApproval, dpLedger>>

(* The app answers, or the call ends without one. *)
DpAnswered(c) ==
  /\ DpAt(c, "waiting")
  /\ \/ \E outcome \in {"ok", "error", "input_required"} :
          DpSet(c, [dpCall[c] EXCEPT !.stage = "settling", !.row.outcome = outcome])
     \/ \E class \in {"timeout", "disconnected", "do_unreachable"} :
          DpThrows(c, "-32000", class)
  /\ UNCHANGED <<dpWorld, dpApproval, dpEnded>>

(* Fault: the bodies are masked under a map of their own. *)
DpBodies_OwnMap(c) ==
  IF dpCall[c].kind = "resource" THEN {} ELSE DpFields \ DpNamed(dpCall[c].app)

(* Which fields the row keeps in the clear: a tool under the one map of the
   call; a prompt under the names of the row as it is now, nothing when there
   are none; a resource has no arguments. *)
DpBodies(c) ==
  CASE dpCall[c].kind = "tool" -> DpShown(c)
    [] dpCall[c].kind = "prompt" ->
         IF DpNamed(dpCall[c].app) = {} THEN {} ELSE DpFields \ DpNamed(dpCall[c].app)
    [] OTHER -> {}

(* settle() gives the pass of an unfinished exchange back, then the bodies. *)
DpSettles(c) ==
  /\ DpAt(c, "settling")
  /\ LET outcome == dpCall[c].row.outcome
         unfinished == outcome = "input_required"
         r == dpCall[c].claim
     IN /\ dpApproval' =
             IF unfinished /\ r # 0 /\ dpApproval[r].status = "used"
               THEN [dpApproval EXCEPT ![r].status = "approved"] ELSE dpApproval
        /\ DpEnds(c, IF unfinished THEN "ok" ELSE outcome, "none", r, TRUE,
                  DpBodies(c))
  /\ UNCHANGED <<dpWorld, dpEnded>>

(* A read or a write of the database throws; it may have been applied. *)
DpBreaks(c) ==
  /\ dpCall[c].stage \in {"proving", "reading", "filtering", "config", "checking",
                          "claiming", "settling"}
  /\ \/ UNCHANGED dpApproval
     \/ /\ DpAt(c, "claiming") /\ dpApproval[dpCall[c].claim].status = "approved"
        /\ dpApproval' = [dpApproval EXCEPT ![dpCall[c].claim].status = "used"]
  /\ DpEnds(c, "error", "none", IF DpAt(c, "claiming") THEN 0 ELSE dpCall[c].claim,
            FALSE, {})
  /\ UNCHANGED <<dpWorld, dpEnded>>

(* recordDispatch: the one row of the call. *)
DpRecords(c) ==
  /\ DpAt(c, "recording")
  /\ dpLedger' = [dpLedger EXCEPT ![c] = dpCall[c].row]
  /\ DpSet(c, DpOver(c, "done", DpNoRow))
  /\ UNCHANGED <<dpWorld, dpApproval, dpRan>>

(* The worker dies, or the audit row cannot be written and the call fails. *)
DpDies(c) ==
  /\ dpCall[c].stage \notin {"idle", "done"}
  /\ DpSet(c, DpOver(c, "done", DpNoRow))
  /\ UNCHANGED <<dpWorld, dpApproval, dpEnded>>

DpCallStep(c) ==
  \/ \E kind \in DpKinds, owner \in BOOLEAN, pinned \in 0..dpMade :
       DpEnter(c, kind, owner, pinned)
  \/ DpProves(c) \/ DpReadsApp(c) \/ DpFilters(c) \/ DpProbes(c)
  \/ DpSchema(c) \/ DpConfig(c) \/ DpChecks(c) \/ DpClaims(c)
  \/ DpForwards(c) \/ DpAnswered(c) \/ DpSettles(c) \/ DpBreaks(c)
  \/ DpRecords(c) \/ DpDies(c)

-----------------------------------------------------------------------------
(* The owner and the app *)

DpChange ==
  /\ dpChanges < DpMaxChanges
  /\ dpChanges' = dpChanges + 1
  /\ UNCHANGED <<dpCall, dpEnded>>

DpEdits(app) ==
  /\ dpApp' = [dpApp EXCEPT ![dpSlug] = app]
  /\ UNCHANGED <<dpSlug, dpMade, dpLive, dpApproval>>

(* Grants are replaced as a set, the names of secrets as a map. *)
DpSetGrants ==
  /\ DpChange /\ dpSlug # 0
  /\ \E grant \in DpModes \ {dpApp[dpSlug].grant} :
       DpEdits([dpApp[dpSlug] EXCEPT !.grant = grant])

DpSetRedact ==
  /\ DpChange /\ dpSlug # 0
  /\ \E names \in SUBSET DpFields \ {dpApp[dpSlug].redact} :
       DpEdits([dpApp[dpSlug] EXCEPT !.redact = names])

DpArchives ==
  /\ DpChange /\ dpSlug # 0
  /\ DpEdits([dpApp[dpSlug] EXCEPT !.archived = ~@])

(* The app dials and registers, or its declaration changes; its catalog is
   listed again.  A deleted app has no token to dial with. *)
DpLists ==
  /\ DpChange /\ dpSlug # 0 /\ ~dpApp[dpSlug].archived
  /\ \E secret \in SUBSET DpFields :
       DpEdits([dpApp[dpSlug] EXCEPT !.online = TRUE, !.listed = TRUE,
                                     !.secret = secret])

(* The socket goes, by itself or severed by an operation of the owner. *)
DpDrops ==
  /\ DpChange
  /\ \E a \in DpApps :
       /\ dpApp[a].online
       /\ dpApp' = [dpApp EXCEPT ![a].online = FALSE]
  /\ UNCHANGED <<dpSlug, dpMade, dpLive, dpApproval>>

(* After the batch a deletion severs and wipes the object. *)
DpWipes ==
  /\ DpChange
  /\ \E a \in 1..dpMade \ {dpSlug} :
       /\ dpApp[a].listed
       /\ dpApp' = [dpApp EXCEPT ![a] = [@ EXCEPT !.online = FALSE, !.listed = FALSE]]
  /\ UNCHANGED <<dpSlug, dpMade, dpLive, dpApproval>>

(* app_delete's batch: the row, its grants and its approvals by the foreign
   keys.  The object is told later. *)
DpDeletes ==
  /\ DpChange /\ dpSlug # 0
  /\ dpSlug' = 0
  /\ dpApproval' = [r \in DpRows |->
       IF dpApproval[r].app = dpSlug THEN [dpApproval[r] EXCEPT !.status = "gone"]
                                     ELSE dpApproval[r]]
  /\ UNCHANGED <<dpMade, dpApp, dpLive>>

(* Another app takes the slug, under an id of its own. *)
DpCreates ==
  /\ DpChange /\ dpSlug = 0 /\ dpMade < DpMaxApps
  /\ dpSlug' = dpMade + 1 /\ dpMade' = dpMade + 1
  /\ UNCHANGED <<dpApp, dpLive, dpApproval>>

DpRevokes ==
  /\ DpChange /\ dpLive
  /\ dpLive' = FALSE
  /\ UNCHANGED <<dpSlug, dpMade, dpApp, dpApproval>>

(* decide(): the owner approves what was shown. *)
DpApproves ==
  /\ \E r \in DpRows :
       /\ dpApproval[r].status = "pending"
       /\ dpApproval' = [dpApproval EXCEPT ![r].status = "approved"]
  /\ UNCHANGED <<dpWorld, dpCall, dpEnded>>

DpNext ==
  \/ \E c \in DpCalls : DpCallStep(c)
  \/ DpSetGrants \/ DpSetRedact \/ DpArchives \/ DpLists \/ DpDrops \/ DpWipes
  \/ DpDeletes \/ DpCreates \/ DpRevokes \/ DpApproves

DpSpec == DpInit /\ [][DpNext]_dpVars

-----------------------------------------------------------------------------
(* Properties *)

DpStages ==
  {"idle", "proving", "reading", "filtering", "probing", "schema", "config",
   "checking", "claiming", "forwarding", "waiting", "settling", "recording",
   "done"}
DpOutcomes ==
  DpRefusals \cup {"none", "-32000", "ok", "error", "input_required"}
DpClasses ==
  DpDispatchedNothing \cup
  {"none", "credential_lapsed", "no_app", "app_changed", "no_grant",
   "not_in_catalog", "do_unreachable", "timeout", "disconnected"}

DpLedgerRow ==
  [outcome : DpOutcomes, class : DpClasses, approval : 0..DpMaxRows,
   bodied : BOOLEAN, args : SUBSET DpFields]
DpCall ==
  [stage : DpStages, kind : DpKinds, owner : BOOLEAN, pin : 0..DpMaxApps,
   app : 0..DpMaxApps, archived : BOOLEAN, gated : BOOLEAN,
   map : SUBSET DpFields, claim : 0..DpMaxRows, row : DpLedgerRow]

DpTypeOK ==
  /\ dpSlug \in 0..dpMade /\ dpMade \in DpApps
  /\ dpLive \in BOOLEAN /\ dpChanges \in 0..DpMaxChanges
  /\ dpApp \in [DpApps -> [archived : BOOLEAN, grant : DpModes,
       online : BOOLEAN, listed : BOOLEAN, secret : SUBSET DpFields,
       redact : SUBSET DpFields]]
  /\ dpApproval \in [DpRows ->
       [status : {"none", "pending", "approved", "used", "gone"},
        app : 0..DpMaxApps, shown : SUBSET DpFields]]
  /\ dpCall \in [DpCalls -> DpCall]
  /\ dpRan \in [DpCalls -> 0..DpMaxApps]
  /\ dpLedger \in [DpCalls -> DpLedgerRow]

(* What the owner approved is what the ledger says ran: a gated call that
   reached an app did so under an approval of that very app, and its row keeps
   in the clear exactly the fields the approval showed, whatever became of the
   schema and of the owner's list between the question and the answer
   (gateway.ts: "the approval row and the audit row of the same call can never
   be masked under different maps"). *)
DpApprovedAsShown ==
  \A c \in DpCalls :
    dpCall[c].gated /\ dpRan[c] # 0 =>
      LET r == dpCall[c].claim IN
      /\ r # 0
      /\ dpApproval[r].app = dpRan[c]
      /\ dpLedger[c].bodied => dpLedger[c].args = dpApproval[r].shown

(* The ledger does not lie about dispatch: a row that says the hub refused, or
   that names a class of failure which the consumer is told dispatched nothing,
   is of a call that reached no app; the row of a gated call that reached one
   names the approval it spent, also when it failed (errors.ts
   DISPATCHED_NOTHING, dispatchTool's merge).  And a program's operation
   reaches no app but the one its snapshot pinned. *)
DpLedgerIsTrue ==
  \A c \in DpCalls :
    /\ \/ dpLedger[c].outcome \in DpRefusals
       \/ dpLedger[c].class \in DpDispatchedNothing
       => dpRan[c] = 0
    /\ dpLedger[c].outcome # "none" /\ dpCall[c].gated /\ dpRan[c] # 0
       => dpLedger[c].approval = dpCall[c].claim /\ dpCall[c].claim # 0
    /\ dpCall[c].pin # 0 => dpRan[c] \in {0, dpCall[c].pin}

(* What a call holds: the claim it won, until it ends. *)
DpHeldRow ==
  [c \in DpCalls |->
     IF dpCall[c].gated /\ dpCall[c].stage \in {"forwarding", "waiting", "settling"}
       THEN dpCall[c].claim ELSE 0]

(* What a row's status means to the owner. *)
DpMeaning(word) ==
  CASE word = "none"     -> "none"
    [] word = "pending"  -> "asked"
    [] word = "approved" -> "granted"
    [] word = "used"     -> "taken"
    [] OTHER             -> "closed"

DpStanding == [r \in DpRows |-> DpMeaning(dpApproval[r].status)]

DpPermit == INSTANCE SinglePass WITH
  Rows <- DpRows, Calls <- DpCalls, pass <- DpStanding, holder <- DpHeldRow

(* The calls that are dispatched keep the promise of the gate, also when the
   app whose approvals they hold is deleted under them and another takes its
   slug: a row goes asked, granted, taken, and only the call that took it hands
   it back (passGate, settle, app_delete's cascade). *)
DpKeepsPermit == DpPermit!Spec
=============================================================================
