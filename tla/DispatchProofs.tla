--------------------------- MODULE DispatchProofs ---------------------------
(***************************************************************************)
(* Proofs about one call of a consumer (Dispatch).  The inductive          *)
(* invariant DpInv says of every call, stage by stage, what it holds       *)
(* (DpHolds) and what it leaves behind (DpLeaves) in terms of the call's   *)
(* own record and of the approvals' rows; a step that keeps what the rows  *)
(* show (DpKeepsRows) therefore keeps it of every other call, and the      *)
(* owner's and the app's steps keep it of all.                             *)
(***************************************************************************)
EXTENDS Dispatch, TLAPS

(* Stages of a call whose frame has not left, and of one that holds its pass. *)
DpBefore ==
  {"idle", "proving", "reading", "filtering", "probing", "schema", "config",
   "checking", "claiming", "forwarding"}
DpResolved ==
  {"filtering", "probing", "schema", "config", "checking", "claiming",
   "forwarding", "waiting", "settling"}
DpPassed == {"forwarding", "waiting", "settling"}

(* The row r is of this app and shows just these fields. *)
DpIsRow(r, app, shown) ==
  /\ r \in DpRows
  /\ dpApproval[r].status # "none"
  /\ dpApproval[r].app = app /\ dpApproval[r].shown = shown

(* What a call holds at each stage: nothing ran before the frame left, the app
   is the pinned one from the moment it is read, and a claim that is held is of
   this app and shows what the one map leaves in the clear. *)
DpHolds(k, ran) ==
  /\ k.stage \in DpBefore => ran = 0
  /\ k.stage \in {"waiting", "settling"} => ran = k.app
  /\ k.stage \in DpBefore \cup {"waiting"} => k.row = DpNoRow
  /\ k.stage = "settling" =>
       k.row.outcome \in {"ok", "error", "input_required"} /\ ~k.row.bodied
  /\ k.stage \notin {"recording", "done"} /\ k.gated => k.kind = "tool"
  /\ k.stage \in {"idle", "proving", "reading", "filtering"} => ~k.gated
  /\ k.stage \in DpResolved => k.app # 0 /\ (k.pin # 0 => k.app = k.pin)
  /\ k.stage = "claiming" \/ (k.gated /\ k.stage \in DpPassed) =>
       DpIsRow(k.claim, k.app, DpFields \ k.map)

(* A row of the ledger that is true of a call which reached the app `ran`, under
   the claim of a row that shows these fields. *)
DpTrueRow(row, k, ran, shown) ==
  /\ row.bodied => row.args = shown
  /\ row.outcome # "none" => row.approval = k.claim

(* What a call leaves behind: its outcome is true of what ran, and if it ran
   under the gate its claim is of the app it reached and shows what its body
   keeps. *)
DpLeaves(k, ran, ledger) ==
  /\ \A row \in {k.row, ledger} :
       row.outcome \in DpRefusals \/ row.class \in DpDispatchedNothing => ran = 0
  /\ k.pin # 0 => ran \in {0, k.pin}
  /\ k.gated /\ ran # 0 =>
       \E shown \in SUBSET DpFields :
         /\ DpIsRow(k.claim, ran, shown)
         /\ k.stage \in {"recording", "done"} => DpTrueRow(k.row, k, ran, shown)
         /\ DpTrueRow(ledger, k, ran, shown)
  /\ k.stage # "done" => ledger = DpNoRow

DpGood(k, ran, ledger) == DpHolds(k, ran) /\ DpLeaves(k, ran, ledger)

(* A row nobody asked for belongs to no app. *)
DpRowsBlank ==
  \A r \in DpRows : dpApproval[r].status = "none" => dpApproval[r].app = 0

DpApprovalsOK ==
  /\ dpApproval \in [DpRows ->
       [status : {"none", "pending", "approved", "used", "gone"},
        app : 0..DpMaxApps, shown : SUBSET DpFields]]
  /\ DpRowsBlank

DpInv ==
  /\ DpTypeOK /\ DpRowsBlank
  /\ \A c \in DpCalls : DpGood(dpCall[c], dpRan[c], dpLedger[c])

(* An approval keeps its app and what it shows. *)
DpKeepsRows ==
  \A r \in DpRows :
    dpApproval[r].status # "none" =>
      /\ dpApproval'[r].status # "none"
      /\ dpApproval'[r].app = dpApproval[r].app
      /\ dpApproval'[r].shown = dpApproval[r].shown

-----------------------------------------------------------------------------
LEMMA DpInitInv == DpInit => DpInv
<1> SUFFICES ASSUME DpInit PROVE DpInv
  OBVIOUS
<1>1. DpTypeOK
  <2>1. dpSlug \in 0..dpMade /\ dpMade \in DpApps
    BY DpAssumption DEF DpInit, DpApps
  <2>2. dpApp \in [DpApps -> [archived : BOOLEAN, grant : DpModes,
          online : BOOLEAN, listed : BOOLEAN, secret : SUBSET DpFields,
          redact : SUBSET DpFields]]
    <3>1. PICK redact \in SUBSET DpFields :
            dpApp = [a \in DpApps |->
              IF a = 1 THEN [DpBlank EXCEPT !.grant = "approval",
                               !.redact = redact, !.online = TRUE, !.listed = TRUE]
                       ELSE DpBlank]
      BY DEF DpInit
    <3> QED
      BY <3>1 DEF DpBlank, DpModes
  <2>3. dpApproval \in [DpRows ->
          [status : {"none", "pending", "approved", "used", "gone"},
           app : 0..DpMaxApps, shown : SUBSET DpFields]]
    BY DpAssumption DEF DpInit, DpNoApproval
  <2>4. DpIdle \in DpCall /\ DpNoRow \in DpLedgerRow
    BY DpAssumption DEF DpIdle, DpNoRow, DpCall, DpLedgerRow, DpStages, DpKinds,
         DpOutcomes, DpClasses
  <2>5. dpLive \in BOOLEAN /\ dpChanges \in 0..DpMaxChanges
          /\ dpRan \in [DpCalls -> 0..DpMaxApps]
    BY DpAssumption DEF DpInit
  <2> QED
    BY <2>1, <2>2, <2>3, <2>4, <2>5 DEF DpTypeOK, DpInit
<1>2. DpRowsBlank
  BY DEF DpInit, DpRowsBlank, DpNoApproval
<1>3. ASSUME NEW c \in DpCalls PROVE DpGood(dpCall[c], dpRan[c], dpLedger[c])
  <2>1. dpCall[c] = DpIdle /\ dpRan[c] = 0 /\ dpLedger[c] = DpNoRow
    BY DEF DpInit
  <2> QED
    BY <2>1 DEF DpGood, DpHolds, DpLeaves, DpTrueRow, DpIdle, DpNoRow, DpBefore, DpResolved,
         DpPassed, DpRefusals, DpDispatchedNothing
<1> QED
  BY <1>1, <1>2, <1>3 DEF DpInv

(* What is said of a call is said of constants and of the approvals' rows, and
   a step that keeps the rows keeps it. *)
LEMMA DpGoodStays ==
  ASSUME NEW k \in DpCall, NEW ran \in 0..DpMaxApps, NEW ledger \in DpLedgerRow,
         DpGood(k, ran, ledger), DpKeepsRows
  PROVE  DpGood(k, ran, ledger)'
<1>1. \A r, app, shown : DpIsRow(r, app, shown) => DpIsRow(r, app, shown)'
  BY DEF DpIsRow, DpKeepsRows
<1>2. DpHolds(k, ran)'
  BY <1>1 DEF DpGood, DpHolds
<1>3. DpLeaves(k, ran, ledger)'
  BY <1>1 DEF DpGood, DpLeaves
<1> QED
  BY <1>2, <1>3 DEF DpGood

(* A step of one call: it is enough to look at what that call becomes. *)
LEMMA DpMoves ==
  ASSUME DpInv, NEW c \in DpCalls,
         NEW k \in DpCall, NEW ran \in 0..DpMaxApps, NEW ledger \in DpLedgerRow,
         dpCall' = [dpCall EXCEPT ![c] = k],
         dpRan' = [dpRan EXCEPT ![c] = ran],
         dpLedger' = [dpLedger EXCEPT ![c] = ledger],
         DpGood(k, ran, ledger),
         DpApprovalsOK', DpKeepsRows, UNCHANGED dpWorld
  PROVE  DpInv'
<1>1. DpTypeOK'
  BY DEF DpInv, DpTypeOK, DpApprovalsOK, dpWorld
<1>2. DpRowsBlank'
  BY DEF DpApprovalsOK, DpRowsBlank
<1>3. ASSUME NEW d \in DpCalls PROVE DpGood(dpCall[d], dpRan[d], dpLedger[d])'
  <2>1. CASE d = c
    <3>1. dpCall'[d] = k /\ dpRan'[d] = ran /\ dpLedger'[d] = ledger
      BY <2>1 DEF DpInv, DpTypeOK
    <3>2. DpGood(k, ran, ledger)'
      BY DpGoodStays
    <3> QED
      BY <3>1, <3>2
  <2>2. CASE d # c
    <3>1. PICK kd \in DpCall, rd \in 0..DpMaxApps, ld \in DpLedgerRow :
            kd = dpCall[d] /\ rd = dpRan[d] /\ ld = dpLedger[d]
      BY DEF DpInv, DpTypeOK
    <3>2. dpCall'[d] = kd /\ dpRan'[d] = rd /\ dpLedger'[d] = ld
      BY <2>2, <3>1 DEF DpInv, DpTypeOK
    <3>3. DpGood(kd, rd, ld)
      BY <3>1 DEF DpInv
    <3>4. DpGood(kd, rd, ld)'
      BY <3>3, DpGoodStays
    <3> QED
      BY <3>2, <3>4
  <2> QED
    BY <2>1, <2>2
<1> QED
  BY <1>1, <1>2, <1>3 DEF DpInv

(* The same for a step that leaves the approvals and the records alone. *)
LEMMA DpMovesAlone ==
  ASSUME DpInv, NEW c \in DpCalls, NEW k \in DpCall, DpSet(c, k),
         DpGood(k, dpRan[c], dpLedger[c]),
         UNCHANGED <<dpWorld, dpApproval, dpEnded>>
  PROVE  DpInv'
<1>1. PICK ran \in 0..DpMaxApps, ledger \in DpLedgerRow :
        ran = dpRan[c] /\ ledger = dpLedger[c]
  BY DEF DpInv, DpTypeOK
<1>2. dpRan' = [dpRan EXCEPT ![c] = ran] /\ dpLedger' = [dpLedger EXCEPT ![c] = ledger]
  BY <1>1 DEF DpInv, DpTypeOK, dpEnded
<1>3. DpApprovalsOK' /\ DpKeepsRows
  BY DEF DpInv, DpTypeOK, DpApprovalsOK, DpKeepsRows, DpRowsBlank
<1> QED
  BY <1>1, <1>2, <1>3, DpMoves DEF DpSet

-----------------------------------------------------------------------------
(* The steps of a call *)

(* The end of a call is good when its row claims no more than is true of the
   frame, and, for a call that ran under the gate, names its claim and keeps in
   the clear what the claim showed. *)
LEMMA DpEndsWell ==
  ASSUME DpInv, NEW c \in DpCalls, dpCall[c].stage \notin {"recording", "done"},
         NEW stage \in {"recording", "done"}, NEW row \in DpLedgerRow,
         row.outcome \in DpRefusals \/ row.class \in DpDispatchedNothing
           => dpRan[c] = 0,
         dpCall[c].gated /\ dpRan[c] # 0 =>
           DpTrueRow(row, dpCall[c], dpRan[c], DpShown(c)),
         NEW k, k = DpOver(c, stage, row)
  PROVE  k \in DpCall /\ DpGood(k, dpRan[c], dpLedger[c])
<1> DEFINE held == dpCall[c]
<1>1. /\ held \in DpCall /\ dpRan[c] \in 0..DpMaxApps
      /\ DpHolds(held, dpRan[c]) /\ DpLeaves(held, dpRan[c], dpLedger[c])
  BY DEF DpInv, DpTypeOK, DpGood
<1>2. /\ k.stage = stage /\ k.pin = held.pin /\ k.gated = held.gated
      /\ k.claim = held.claim /\ k.row = row
  BY DEF DpOver
<1>3. k \in DpCall
  BY <1>1, DpAssumption DEF DpOver, DpCall, DpStages, DpKinds
<1>4. DpHolds(k, dpRan[c])
  BY <1>2 DEF DpHolds, DpBefore, DpResolved, DpPassed
<1>5. dpLedger[c] = DpNoRow
  BY <1>1 DEF DpLeaves
<1>6. ASSUME held.gated, dpRan[c] # 0
      PROVE  DpIsRow(held.claim, dpRan[c], DpShown(c))
  <2>1. held.stage \in {"waiting", "settling"}
    BY <1>1, <1>6 DEF DpHolds, DpBefore, DpCall, DpStages
  <2> QED
    BY <2>1, <1>1, <1>6 DEF DpHolds, DpPassed, DpShown
<1>7. DpLeaves(k, dpRan[c], dpLedger[c])
  <2>1. k.pin # 0 => dpRan[c] \in {0, k.pin}
    BY <1>1, <1>2 DEF DpLeaves
  <2>2. k.gated /\ dpRan[c] # 0 =>
       \E shown \in SUBSET DpFields :
         /\ DpIsRow(k.claim, dpRan[c], shown)
         /\ k.stage \in {"recording", "done"} => DpTrueRow(k.row, k, dpRan[c], shown)
         /\ DpTrueRow(dpLedger[c], k, dpRan[c], shown)
    <3> SUFFICES ASSUME k.gated, dpRan[c] # 0
                 PROVE  /\ DpShown(c) \in SUBSET DpFields
                        /\ DpIsRow(k.claim, dpRan[c], DpShown(c))
                        /\ DpTrueRow(k.row, k, dpRan[c], DpShown(c))
                        /\ DpTrueRow(dpLedger[c], k, dpRan[c], DpShown(c))
      OBVIOUS
    <3>1. DpShown(c) \in SUBSET DpFields /\ DpIsRow(k.claim, dpRan[c], DpShown(c))
      BY <1>2, <1>6 DEF DpShown
    <3>2. DpTrueRow(k.row, k, dpRan[c], DpShown(c))
      BY <1>2 DEF DpTrueRow
    <3>3. DpTrueRow(dpLedger[c], k, dpRan[c], DpShown(c))
      BY <1>5 DEF DpTrueRow, DpNoRow
    <3> QED
      BY <3>1, <3>2, <3>3
  <2>3. \A r \in {k.row, dpLedger[c]} :
          r.outcome \in DpRefusals \/ r.class \in DpDispatchedNothing => dpRan[c] = 0
    BY <1>2, <1>5 DEF DpNoRow, DpRefusals, DpDispatchedNothing
  <2> QED
    BY <2>1, <2>2, <2>3, <1>5 DEF DpLeaves
<1> QED
  BY <1>3, <1>4, <1>7 DEF DpGood

(* An error ends a call well wherever it is thrown, provided it claims no more
   than is true of the frame. *)
LEMMA DpThrownIsGood ==
  ASSUME DpInv, NEW c \in DpCalls, dpCall[c].stage \notin {"recording", "done"},
         NEW code \in DpOutcomes, NEW class \in DpClasses,
         code \in DpRefusals \/ class \in DpDispatchedNothing => dpRan[c] = 0,
         DpThrows(c, code, class),
         UNCHANGED <<dpWorld, dpApproval, dpEnded>>
  PROVE  DpInv'
<1>1. PICK row : row = [outcome |-> code, class |-> class,
                        approval |-> dpCall[c].claim, bodied |-> FALSE, args |-> {}]
  OBVIOUS
<1>2. row \in DpLedgerRow /\ row.outcome = code /\ row.class = class
        /\ row.approval = dpCall[c].claim /\ ~row.bodied
  BY <1>1 DEF DpInv, DpTypeOK, DpCall, DpLedgerRow
<1>3. DpTrueRow(row, dpCall[c], dpRan[c], DpShown(c))
  BY <1>2 DEF DpTrueRow
<1>4. PICK k : k = DpOver(c, "recording", row)
  OBVIOUS
<1>5. k \in DpCall /\ DpGood(k, dpRan[c], dpLedger[c])
  BY <1>2, <1>3, <1>4, DpEndsWell
<1>6. DpSet(c, k)
  BY <1>1, <1>4 DEF DpThrows, DpEnds
<1> QED
  BY <1>5, <1>6, DpMovesAlone
(* What is known of the call that moves. *)
LEMMA DpHeld ==
  ASSUME DpInv, NEW c \in DpCalls
  PROVE  /\ dpCall[c] \in DpCall /\ dpRan[c] \in 0..DpMaxApps
         /\ dpLedger[c] \in DpLedgerRow
         /\ DpHolds(dpCall[c], dpRan[c]) /\ DpLeaves(dpCall[c], dpRan[c], dpLedger[c])
BY DEF DpInv, DpTypeOK, DpGood

LEMMA DpAppRead ==
  ASSUME DpInv, NEW c \in DpCalls, dpCall[c].stage \in DpResolved
  PROVE  dpCall[c].app \in DpApps
<1>1. dpCall[c].app # 0
  BY DpHeld DEF DpHolds
<1>2. dpCall[c].app \in 0..DpMaxApps
  BY DpHeld DEF DpCall
<1> QED
  BY <1>1, <1>2, DpAssumption DEF DpApps

(* Before the frame leaves a call has nothing behind it, and may hold what it
   likes of its own as long as it holds no pass. *)
LEMMA DpStillBefore ==
  ASSUME DpInv, NEW c \in DpCalls, dpCall[c].stage \in DpBefore, NEW k \in DpCall,
         k.stage \in DpBefore, k.pin = dpCall[c].pin, k.row = dpCall[c].row,
         DpHolds(k, 0), DpSet(c, k), UNCHANGED <<dpWorld, dpApproval, dpEnded>>
  PROVE  DpInv'
<1>1. /\ dpRan[c] = 0 /\ DpLeaves(dpCall[c], 0, dpLedger[c])
  BY DpHeld DEF DpHolds
<1>2. DpLeaves(k, 0, dpLedger[c])
  BY <1>1 DEF DpLeaves, DpBefore
<1> QED
  BY <1>1, <1>2, DpMovesAlone DEF DpGood

LEMMA DpEnterKeeps ==
  ASSUME DpInv, NEW c \in DpCalls, NEW kind \in DpKinds, NEW owner \in BOOLEAN,
         NEW pinned \in 0..dpMade, DpEnter(c, kind, owner, pinned)
  PROVE  DpInv'
<1>1. pinned \in 0..DpMaxApps
  BY DpAssumption DEF DpInv, DpTypeOK, DpApps
<1>2. PICK k : k = [DpIdle EXCEPT !.stage = IF pinned # 0 THEN "proving" ELSE "reading",
                                  !.kind = kind, !.owner = owner, !.pin = pinned]
  OBVIOUS
<1>3. DpNoRow \in DpLedgerRow /\ 0 \in 0..DpMaxApps
  BY DpAssumption DEF DpNoRow, DpLedgerRow, DpOutcomes, DpClasses
<1>4. k \in DpCall
  <2>1. /\ DpIdle \in DpCall
        /\ (IF pinned # 0 THEN "proving" ELSE "reading") \in DpStages
    BY <1>3, DpAssumption DEF DpIdle, DpCall, DpStages, DpKinds
  <2> QED
    BY <1>1, <1>2, <2>1 DEF DpCall
<1>5. DpGood(k, 0, DpNoRow)
  BY <1>2 DEF DpIdle, DpGood, DpHolds, DpLeaves, DpNoRow, DpBefore, DpResolved,
       DpPassed, DpRefusals, DpDispatchedNothing
<1>6. DpApprovalsOK' /\ DpKeepsRows
  BY DEF DpEnter, DpInv, DpTypeOK, DpApprovalsOK, DpKeepsRows, DpRowsBlank
<1> QED
  BY <1>2, <1>3, <1>4, <1>5, <1>6, DpMoves DEF DpEnter, DpSet

LEMMA DpProvesKeeps ==
  ASSUME DpInv, NEW c \in DpCalls, DpProves(c) PROVE DpInv'
<1>1. dpRan[c] = 0
  BY DpHeld DEF DpHolds, DpBefore, DpProves, DpAt
<1>2. CASE dpLive
  <2>1. PICK k : k = [dpCall[c] EXCEPT !.stage = "reading"]
    OBVIOUS
  <2>2. k \in DpCall /\ k.stage = "reading" /\ k.pin = dpCall[c].pin /\ k.row = dpCall[c].row
          /\ k.gated = dpCall[c].gated /\ k.kind = dpCall[c].kind
    BY <2>1, DpHeld DEF DpCall, DpStages
  <2>3. DpHolds(k, 0)
    BY <1>1, <2>2, DpHeld DEF DpHolds, DpBefore, DpResolved, DpPassed, DpProves, DpAt
  <2> QED
    BY <1>2, <2>1, <2>2, <2>3, DpStillBefore DEF DpProves, DpAt, DpBefore
<1>3. CASE ~dpLive
  <2>1. "-32001" \in DpOutcomes /\ "credential_lapsed" \in DpClasses
    BY DEF DpOutcomes, DpRefusals, DpClasses
  <2> QED
    BY <1>1, <1>3, <2>1, DpThrownIsGood DEF DpProves, DpAt
<1> QED
  BY <1>2, <1>3

LEMMA DpReadsAppKeeps ==
  ASSUME DpInv, NEW c \in DpCalls, DpReadsApp(c) PROVE DpInv'
<1>1. dpRan[c] = 0
  BY DpHeld DEF DpHolds, DpBefore, DpReadsApp, DpAt
<1>2. CASE DpResolves(c)
  <2>1. PICK k : k = [dpCall[c] EXCEPT !.stage = "filtering", !.app = dpSlug,
                        !.archived = dpApp[dpSlug].archived]
    OBVIOUS
  <2>2. /\ dpSlug # 0 /\ dpSlug \in 0..DpMaxApps
        /\ dpApp[dpSlug].archived \in BOOLEAN
    BY <1>2, DpAssumption DEF DpInv, DpTypeOK, DpApps, DpResolves
  <2>3. /\ k \in DpCall /\ k.stage = "filtering" /\ k.app = dpSlug
        /\ k.pin = dpCall[c].pin /\ k.row = dpCall[c].row
        /\ k.gated = dpCall[c].gated /\ k.kind = dpCall[c].kind
    BY <2>1, <2>2, DpHeld DEF DpCall, DpStages
  <2>4. DpHolds(k, 0)
    BY <1>1, <1>2, <2>2, <2>3, DpHeld
    DEF DpHolds, DpBefore, DpResolved, DpPassed, DpReadsApp, DpAt, DpResolves
  <2> QED
    BY <1>2, <2>1, <2>3, <2>4, DpStillBefore DEF DpReadsApp, DpAt, DpBefore
<1>3. CASE ~DpResolves(c)
  <2>1. PICK class : class = IF dpSlug = 0 THEN "no_app" ELSE "app_changed"
    OBVIOUS
  <2>2. "-32001" \in DpOutcomes /\ class \in DpClasses
    BY <2>1 DEF DpOutcomes, DpRefusals, DpClasses
  <2> QED
    BY <1>1, <1>3, <2>1, <2>2, DpThrownIsGood DEF DpReadsApp, DpAt
<1> QED
  BY <1>2, <1>3

LEMMA DpFiltersKeeps ==
  ASSUME DpInv, NEW c \in DpCalls, DpFilters(c) PROVE DpInv'
<1>1. dpRan[c] = 0
  BY DpHeld DEF DpHolds, DpBefore, DpFilters, DpAt
<1>2. CASE DpMode(c) # "deny" /\ ~dpCall[c].archived
  <2>1. PICK gated : gated = (dpCall[c].kind = "tool" /\ DpMode(c) = "approval")
    OBVIOUS
  <2>2. PICK k : k = [dpCall[c] EXCEPT !.stage = "probing", !.owner = FALSE,
                                       !.gated = gated]
    OBVIOUS
  <2>3. /\ k \in DpCall /\ k.stage = "probing" /\ k.app = dpCall[c].app
        /\ k.pin = dpCall[c].pin /\ k.row = dpCall[c].row
        /\ k.gated = gated /\ k.kind = dpCall[c].kind
    BY <2>1, <2>2, DpHeld DEF DpCall, DpStages
  <2>4. DpHolds(k, 0)
    BY <1>1, <2>1, <2>3, DpHeld
    DEF DpHolds, DpBefore, DpResolved, DpPassed, DpFilters, DpAt
  <2> QED
    BY <1>2, <2>1, <2>2, <2>3, <2>4, DpStillBefore DEF DpFilters, DpAt, DpBefore
<1>3. CASE DpMode(c) = "deny" \/ dpCall[c].archived
  <2>1. /\ {"-32001", "-32002"} \subseteq DpOutcomes
        /\ {"no_grant", "none"} \subseteq DpClasses
    BY DEF DpOutcomes, DpRefusals, DpClasses
  <2> QED
    BY <1>1, <1>3, <2>1, DpThrownIsGood DEF DpFilters, DpAt
<1> QED
  BY <1>2, <1>3

LEMMA DpProbesKeeps ==
  ASSUME DpInv, NEW c \in DpCalls, DpProbes(c) PROVE DpInv'
<1>1. dpRan[c] = 0
  BY DpHeld DEF DpHolds, DpBefore, DpProbes, DpAt
<1>2. ASSUME NEW stage \in {"schema", "forwarding"},
             stage = IF dpCall[c].kind = "tool" THEN "schema" ELSE "forwarding",
             DpSet(c, [dpCall[c] EXCEPT !.stage = stage])
      PROVE  DpInv'
  <2>1. PICK k : k = [dpCall[c] EXCEPT !.stage = stage]
    OBVIOUS
  <2>2. /\ k \in DpCall /\ k.stage = stage /\ k.app = dpCall[c].app
        /\ k.pin = dpCall[c].pin /\ k.row = dpCall[c].row
        /\ k.gated = dpCall[c].gated /\ k.kind = dpCall[c].kind
    BY <2>1, DpHeld DEF DpCall, DpStages
  <2>3. k.stage = "forwarding" => ~k.gated
    BY <1>2, <2>2, DpHeld DEF DpHolds, DpProbes, DpAt
  <2>4. DpHolds(k, 0)
    BY <1>1, <2>2, <2>3, DpHeld
    DEF DpHolds, DpBefore, DpResolved, DpPassed, DpProbes, DpAt
  <2> QED
    BY <1>2, <2>1, <2>2, <2>4, DpStillBefore DEF DpProbes, DpAt, DpBefore
<1>3. CASE DpThrows(c, "-32000", "offline")
  <2>1. "-32000" \in DpOutcomes /\ "offline" \in DpClasses
    BY DEF DpOutcomes, DpClasses, DpDispatchedNothing
  <2> QED
    BY <1>1, <1>3, <2>1, DpThrownIsGood DEF DpProbes, DpAt
<1> QED
  BY <1>2, <1>3 DEF DpProbes

LEMMA DpSchemaKeeps ==
  ASSUME DpInv, NEW c \in DpCalls, DpSchema(c) PROVE DpInv'
<1>1. dpRan[c] = 0
  BY DpHeld DEF DpHolds, DpBefore, DpSchema, DpAt
<1>2. PICK app : app = dpApp[dpCall[c].app]
  OBVIOUS
<1>3. app.secret \in SUBSET DpFields
  <2>1. dpCall[c].app \in DpApps
    BY DpAppRead DEF DpSchema, DpAt, DpResolved
  <2> QED
    BY <1>2, <2>1 DEF DpInv, DpTypeOK
<1>4. CASE DpSet(c, [dpCall[c] EXCEPT !.stage = "config", !.map = app.secret])
  <2>1. PICK k : k = [dpCall[c] EXCEPT !.stage = "config", !.map = app.secret]
    OBVIOUS
  <2>2. /\ k \in DpCall /\ k.stage = "config" /\ k.app = dpCall[c].app
        /\ k.pin = dpCall[c].pin /\ k.row = dpCall[c].row
        /\ k.gated = dpCall[c].gated /\ k.kind = dpCall[c].kind
    BY <1>3, <2>1, DpHeld DEF DpCall, DpStages
  <2>3. DpHolds(k, 0)
    BY <1>1, <2>2, DpHeld
    DEF DpHolds, DpBefore, DpResolved, DpPassed, DpSchema, DpAt
  <2> QED
    BY <1>4, <2>1, <2>2, <2>3, DpStillBefore DEF DpSchema, DpAt, DpBefore
<1>5. CASE \/ DpThrows(c, "-32000", "catalog_unreachable")
           \/ DpThrows(c, "-32001", "not_in_catalog")
  <2>1. /\ {"-32000", "-32001"} \subseteq DpOutcomes
        /\ {"catalog_unreachable", "not_in_catalog"} \subseteq DpClasses
    BY DEF DpOutcomes, DpRefusals, DpClasses, DpDispatchedNothing
  <2> QED
    BY <1>1, <1>5, <2>1, DpThrownIsGood DEF DpSchema, DpAt
<1> QED
  BY <1>2, <1>4, <1>5 DEF DpSchema

LEMMA DpConfigKeeps ==
  ASSUME DpInv, NEW c \in DpCalls, DpConfig(c) PROVE DpInv'
<1>1. dpRan[c] = 0
  BY DpHeld DEF DpHolds, DpBefore, DpConfig, DpAt
<1>2. PICK map : map = dpCall[c].map \cup DpNamed(dpCall[c].app)
  OBVIOUS
<1>3. map \in SUBSET DpFields
  <2>1. dpCall[c].app \in DpApps
    BY DpAppRead DEF DpConfig, DpAt, DpResolved
  <2> QED
    BY <1>2, <2>1, DpHeld DEF DpInv, DpTypeOK, DpNamed, DpCall
<1>4. PICK stage : stage = IF dpCall[c].gated THEN "checking" ELSE "forwarding"
  OBVIOUS
<1>5. PICK k : k = [dpCall[c] EXCEPT !.stage = stage, !.map = map]
  OBVIOUS
<1>6. /\ k \in DpCall /\ k.stage = stage /\ k.app = dpCall[c].app
      /\ k.pin = dpCall[c].pin /\ k.row = dpCall[c].row
      /\ k.gated = dpCall[c].gated /\ k.kind = dpCall[c].kind
  BY <1>3, <1>4, <1>5, DpHeld DEF DpCall, DpStages
<1>7. DpHolds(k, 0)
  BY <1>1, <1>4, <1>6, DpHeld
  DEF DpHolds, DpBefore, DpResolved, DpPassed, DpConfig, DpAt
<1>8. DpSet(c, k)
  BY <1>2, <1>4, <1>5, DpHeld DEF DpConfig, DpCall
<1> QED
  BY <1>4, <1>6, <1>7, <1>8, DpStillBefore DEF DpConfig, DpAt, DpBefore

(* Steps that touch an approval's row keep what the rows show. *)
LEMMA DpStatusStays ==
  ASSUME DpInv, NEW r \in DpRows, dpApproval[r].status # "none",
         NEW status \in {"pending", "approved", "used", "gone"},
         dpApproval' = [dpApproval EXCEPT ![r].status = status]
  PROVE  DpApprovalsOK' /\ DpKeepsRows
BY DEF DpInv, DpTypeOK, DpApprovalsOK, DpKeepsRows, DpRowsBlank

LEMMA DpSameRows ==
  ASSUME DpInv, UNCHANGED dpApproval
  PROVE  DpApprovalsOK' /\ DpKeepsRows
BY DEF DpInv, DpTypeOK, DpApprovalsOK, DpKeepsRows, DpRowsBlank

(* A step of one call that may touch the rows but not its records. *)
LEMMA DpMovesWithRows ==
  ASSUME DpInv, NEW c \in DpCalls, NEW k \in DpCall, DpSet(c, k),
         DpGood(k, dpRan[c], dpLedger[c]),
         DpApprovalsOK', DpKeepsRows, UNCHANGED <<dpWorld, dpEnded>>
  PROVE  DpInv'
<1>1. PICK ran \in 0..DpMaxApps, ledger \in DpLedgerRow :
        ran = dpRan[c] /\ ledger = dpLedger[c]
  BY DpHeld
<1>2. dpRan' = [dpRan EXCEPT ![c] = ran] /\ dpLedger' = [dpLedger EXCEPT ![c] = ledger]
  BY <1>1 DEF DpInv, DpTypeOK, dpEnded
<1> QED
  BY <1>1, <1>2, DpMoves DEF DpSet

(* A call that ends while nothing ran ends well whatever its row names, and it
   may have asked for an approval. *)
LEMMA DpEndsUnrun ==
  ASSUME DpInv, NEW c \in DpCalls, dpCall[c].stage \in DpBefore, dpRan[c] = 0,
         NEW code \in DpOutcomes, NEW class \in DpClasses, NEW r \in 0..DpMaxRows,
         DpEnds(c, code, class, r, FALSE, {}),
         DpApprovalsOK', DpKeepsRows, UNCHANGED <<dpWorld, dpEnded>>
  PROVE  DpInv'
<1>1. PICK row : row = [outcome |-> code, class |-> class, approval |-> r,
                        bodied |-> FALSE, args |-> {}]
  OBVIOUS
<1>2. row \in DpLedgerRow
  BY <1>1 DEF DpLedgerRow
<1>3. PICK k : k = DpOver(c, "recording", row)
  OBVIOUS
<1>4. k \in DpCall /\ DpGood(k, dpRan[c], dpLedger[c])
  BY <1>2, <1>3, DpEndsWell DEF DpBefore
<1>5. DpSet(c, k)
  BY <1>1, <1>3 DEF DpEnds
<1> QED
  BY <1>4, <1>5, DpMovesWithRows

LEMMA DpChecksKeeps ==
  ASSUME DpInv, NEW c \in DpCalls, DpChecks(c) PROVE DpInv'
<1>1. dpRan[c] = 0 /\ dpCall[c].stage \in DpBefore /\ dpCall[c].stage = "checking"
  BY DpHeld DEF DpHolds, DpBefore, DpChecks, DpAt
<1>2. UNCHANGED <<dpWorld, dpEnded>>
  BY DEF DpChecks
<1>3. /\ "-32003" \in DpOutcomes /\ "error" \in DpOutcomes /\ "none" \in DpClasses
      /\ \A r \in DpRows : r \in 0..DpMaxRows
  BY DpAssumption DEF DpOutcomes, DpRefusals, DpClasses, DpRows
<1>4. ASSUME NEW r \in DpLiveRows(c, "approved"), UNCHANGED dpApproval,
             DpSet(c, [dpCall[c] EXCEPT !.stage = "claiming", !.claim = r])
      PROVE  DpInv'
  <2>1. PICK k : k = [dpCall[c] EXCEPT !.stage = "claiming", !.claim = r]
    OBVIOUS
  <2>2. r \in DpRows /\ DpIsRow(r, dpCall[c].app, DpFields \ dpCall[c].map)
    BY <1>4 DEF DpLiveRows, DpIsRow, DpShown
  <2>3. /\ k \in DpCall /\ k.stage = "claiming" /\ k.app = dpCall[c].app
        /\ k.pin = dpCall[c].pin /\ k.row = dpCall[c].row /\ k.claim = r
        /\ k.gated = dpCall[c].gated /\ k.kind = dpCall[c].kind
        /\ k.map = dpCall[c].map
    BY <1>3, <2>1, <2>2, DpHeld DEF DpCall, DpStages
  <2>4. DpHolds(k, 0)
    BY <1>1, <2>2, <2>3, DpHeld DEF DpHolds, DpBefore, DpResolved, DpPassed
  <2> QED
    BY <1>1, <1>2, <1>4, <2>1, <2>3, <2>4, DpStillBefore DEF DpBefore
<1>5. ASSUME NEW r \in DpRows, UNCHANGED dpApproval, DpOwed(c, r)
      PROVE  DpInv'
  BY <1>1, <1>2, <1>3, <1>5, DpSameRows, DpEndsUnrun DEF DpOwed
<1>6. ASSUME UNCHANGED dpApproval, DpThrows(c, "error", "none")
      PROVE  DpInv'
  BY <1>1, <1>2, <1>3, <1>6, DpThrownIsGood DEF DpRefusals, DpDispatchedNothing
<1>7. ASSUME NEW r \in DpRows, dpApproval[r].status = "none",
             dpApproval' = [dpApproval EXCEPT ![r] =
               [status |-> "pending", app |-> dpCall[c].app, shown |-> DpShown(c)]],
             DpOwed(c, r)
      PROVE  DpInv'
  <2>1. dpCall[c].app \in 0..DpMaxApps /\ DpShown(c) \in SUBSET DpFields
    BY DpHeld DEF DpCall, DpShown
  <2>2. DpApprovalsOK' /\ DpKeepsRows
    BY <1>7, <2>1 DEF DpInv, DpTypeOK, DpApprovalsOK, DpKeepsRows, DpRowsBlank
  <2> QED
    BY <1>1, <1>2, <1>3, <1>7, <2>2, DpEndsUnrun DEF DpOwed
<1> QED
  BY <1>4, <1>5, <1>6, <1>7 DEF DpChecks, DpLiveRows

LEMMA DpClaimsKeeps ==
  ASSUME DpInv, NEW c \in DpCalls, DpClaims(c) PROVE DpInv'
<1>1. PICK r : r = dpCall[c].claim
  OBVIOUS
<1>2. /\ dpRan[c] = 0 /\ dpCall[c].stage = "claiming"
      /\ r \in DpRows /\ dpApproval[r].status # "none"
      /\ DpIsRow(r, dpCall[c].app, DpFields \ dpCall[c].map)
      /\ DpLeaves(dpCall[c], 0, dpLedger[c])
  BY <1>1, DpHeld DEF DpHolds, DpBefore, DpClaims, DpAt, DpIsRow
<1>3. CASE dpApproval[r].status = "approved"
  <2>1. PICK k : k = [dpCall[c] EXCEPT !.stage = "forwarding"]
    OBVIOUS
  <2>2. /\ k \in DpCall /\ k.stage = "forwarding" /\ k.app = dpCall[c].app
        /\ k.pin = dpCall[c].pin /\ k.row = dpCall[c].row /\ k.claim = r
        /\ k.gated = dpCall[c].gated /\ k.kind = dpCall[c].kind
        /\ k.map = dpCall[c].map
    BY <1>1, <2>1, DpHeld DEF DpCall, DpStages
  <2>3. DpHolds(k, 0)
    BY <1>2, <2>2, DpHeld DEF DpHolds, DpBefore, DpResolved, DpPassed
  <2>4. DpLeaves(k, 0, dpLedger[c])
    BY <1>2, <2>2 DEF DpLeaves
  <2>5. DpApprovalsOK' /\ DpKeepsRows
    BY <1>1, <1>2, <1>3, DpStatusStays DEF DpClaims
  <2>6. DpSet(c, k) /\ UNCHANGED <<dpWorld, dpEnded>>
    BY <1>1, <1>3, <2>1 DEF DpClaims
  <2> QED
    BY <1>2, <2>2, <2>3, <2>4, <2>5, <2>6, DpMovesWithRows DEF DpGood
<1>4. CASE dpApproval[r].status # "approved"
  <2>1. PICK k : k = [dpCall[c] EXCEPT !.stage = "checking", !.claim = 0]
    OBVIOUS
  <2>2. /\ k \in DpCall /\ k.stage = "checking" /\ k.app = dpCall[c].app
        /\ k.pin = dpCall[c].pin /\ k.row = dpCall[c].row
        /\ k.gated = dpCall[c].gated /\ k.kind = dpCall[c].kind
    <3>1. 0 \in 0..DpMaxRows
      BY DpAssumption
    <3> QED
      BY <2>1, <3>1, DpHeld DEF DpCall, DpStages
  <2>3. DpHolds(k, 0)
    BY <1>2, <2>2, DpHeld DEF DpHolds, DpBefore, DpResolved, DpPassed
  <2>4. DpSet(c, k) /\ UNCHANGED <<dpWorld, dpApproval, dpEnded>>
    BY <1>1, <1>4, <2>1 DEF DpClaims
  <2> QED
    BY <1>2, <2>2, <2>3, <2>4, DpStillBefore DEF DpBefore
<1> QED
  BY <1>3, <1>4

LEMMA DpForwardsKeeps ==
  ASSUME DpInv, NEW c \in DpCalls, DpForwards(c) PROVE DpInv'
<1>1. dpRan[c] = 0 /\ dpCall[c].stage = "forwarding"
  BY DpHeld DEF DpHolds, DpBefore, DpForwards, DpAt
<1>2. CASE DpSet(c, [dpCall[c] EXCEPT !.stage = "waiting"])
           /\ dpRan' = [dpRan EXCEPT ![c] = dpCall[c].app]
  <2>1. PICK k, ran : k = [dpCall[c] EXCEPT !.stage = "waiting"] /\ ran = dpCall[c].app
    OBVIOUS
  <2>2. /\ k \in DpCall /\ k.stage = "waiting" /\ k.app = ran
        /\ k.pin = dpCall[c].pin /\ k.row = dpCall[c].row
        /\ k.claim = dpCall[c].claim /\ k.map = dpCall[c].map
        /\ k.gated = dpCall[c].gated /\ k.kind = dpCall[c].kind
        /\ ran \in 0..DpMaxApps
    BY <2>1, DpHeld DEF DpCall, DpStages
  <2>3. PICK ledger \in DpLedgerRow : ledger = dpLedger[c]
    BY DpHeld
  <2>4. ledger = DpNoRow
    BY <1>1, <2>3, DpHeld DEF DpLeaves
  <2>5. /\ k.row = DpNoRow /\ ran # 0 /\ (k.pin # 0 => ran = k.pin)
        /\ k.gated => k.kind = "tool"
        /\ k.gated => DpIsRow(k.claim, ran, DpFields \ k.map)
    BY <1>1, <2>1, <2>2, DpHeld DEF DpHolds, DpBefore, DpResolved, DpPassed
  <2>6. DpHolds(k, ran)
    BY <2>2, <2>5 DEF DpHolds, DpBefore, DpResolved, DpPassed
  <2>7. DpLeaves(k, ran, ledger)
    <3>1. \A row \in {k.row, ledger} :
            ~(row.outcome \in DpRefusals \/ row.class \in DpDispatchedNothing)
      BY <2>4, <2>5 DEF DpNoRow, DpRefusals, DpDispatchedNothing
    <3>2. \A shown : DpTrueRow(ledger, k, ran, shown)
      BY <2>4 DEF DpTrueRow, DpNoRow
    <3> QED
      BY <2>2, <2>4, <2>5, <3>1, <3>2 DEF DpLeaves
  <2>8. DpApprovalsOK' /\ DpKeepsRows
    BY DpSameRows DEF DpForwards
  <2>9. dpLedger' = [dpLedger EXCEPT ![c] = ledger]
    BY <2>3 DEF DpForwards, DpInv, DpTypeOK
  <2> QED
    BY <1>2, <2>1, <2>2, <2>6, <2>7, <2>8, <2>9, DpMoves
    DEF DpForwards, DpSet, DpGood
<1>3. ASSUME NEW class \in {"deadline_passed", "offline", "do_unreachable"},
             DpThrows(c, "-32000", class), UNCHANGED dpRan
      PROVE  DpInv'
  <2>1. "-32000" \in DpOutcomes /\ class \in DpClasses
    BY DEF DpOutcomes, DpClasses, DpDispatchedNothing
  <2> QED
    BY <1>1, <1>3, <2>1, DpThrownIsGood DEF DpForwards, dpEnded
<1> QED
  BY <1>2, <1>3 DEF DpForwards

LEMMA DpAnsweredKeeps ==
  ASSUME DpInv, NEW c \in DpCalls, DpAnswered(c) PROVE DpInv'
<1>1. dpCall[c].stage = "waiting"
  BY DEF DpAnswered, DpAt
<1>2. ASSUME NEW outcome \in {"ok", "error", "input_required"},
             DpSet(c, [dpCall[c] EXCEPT !.stage = "settling", !.row.outcome = outcome])
      PROVE  DpInv'
  <2>1. PICK row : row = [DpNoRow EXCEPT !.outcome = outcome]
    OBVIOUS
  <2>2. /\ row \in DpLedgerRow /\ row.outcome = outcome /\ row.class = "none"
        /\ row.bodied = FALSE
    <3>1. DpNoRow \in DpLedgerRow /\ outcome \in DpOutcomes
      BY DpAssumption DEF DpNoRow, DpLedgerRow, DpOutcomes, DpClasses
    <3> QED
      BY <2>1, <3>1 DEF DpNoRow, DpLedgerRow
  <2>3. dpCall[c].row = DpNoRow
    BY <1>1, DpHeld DEF DpHolds
  <2>4. PICK k : k = [dpCall[c] EXCEPT !.stage = "settling", !.row = row]
    OBVIOUS
  <2>5. /\ k \in DpCall /\ k.stage = "settling" /\ k.app = dpCall[c].app
        /\ k.pin = dpCall[c].pin /\ k.row = row
        /\ k.claim = dpCall[c].claim /\ k.map = dpCall[c].map
        /\ k.gated = dpCall[c].gated /\ k.kind = dpCall[c].kind
    BY <2>2, <2>4, DpHeld DEF DpCall, DpStages
  <2>6. DpSet(c, k)
    BY <1>2, <2>1, <2>3, <2>4, DpHeld DEF DpCall, DpSet
  <2>7. DpHolds(k, dpRan[c])
    BY <1>1, <2>2, <2>5, DpHeld DEF DpHolds, DpBefore, DpResolved, DpPassed
  <2>8. DpLeaves(k, dpRan[c], dpLedger[c])
    <3>1. \A shown : DpTrueRow(dpLedger[c], k, dpRan[c], shown)
                       <=> DpTrueRow(dpLedger[c], dpCall[c], dpRan[c], shown)
      BY <2>5 DEF DpTrueRow
    <3>2. ~(row.outcome \in DpRefusals \/ row.class \in DpDispatchedNothing)
      BY <2>2 DEF DpRefusals, DpDispatchedNothing
    <3> QED
      BY <1>1, <2>5, <3>1, <3>2, DpHeld DEF DpLeaves
  <2> QED
    BY <2>5, <2>6, <2>7, <2>8, DpMovesAlone DEF DpAnswered, DpGood
<1>3. ASSUME NEW class \in {"timeout", "disconnected", "do_unreachable"},
             DpThrows(c, "-32000", class)
      PROVE  DpInv'
  <2>1. /\ "-32000" \in DpOutcomes /\ class \in DpClasses
        /\ "-32000" \notin DpRefusals /\ class \notin DpDispatchedNothing
    BY DEF DpOutcomes, DpClasses, DpDispatchedNothing, DpRefusals
  <2> QED
    BY <1>1, <1>3, <2>1, DpThrownIsGood DEF DpAnswered
<1> QED
  BY <1>2, <1>3 DEF DpAnswered

LEMMA DpSettlesKeeps ==
  ASSUME DpInv, NEW c \in DpCalls, DpSettles(c) PROVE DpInv'
<1>1. PICK r : r = dpCall[c].claim
  OBVIOUS
<1>2. dpCall[c].stage = "settling" /\ r \in 0..DpMaxRows
  BY <1>1, DpHeld DEF DpSettles, DpAt, DpCall
<1>3. PICK outcome : outcome = IF dpCall[c].row.outcome = "input_required" THEN "ok"
                               ELSE dpCall[c].row.outcome
  OBVIOUS
<1>4. /\ outcome \in {"ok", "error"} /\ outcome \in DpOutcomes
      /\ outcome \notin DpRefusals
  BY <1>2, <1>3, DpHeld DEF DpHolds, DpOutcomes, DpRefusals
<1>5. PICK row : row = [outcome |-> outcome, class |-> "none", approval |-> r,
                        bodied |-> TRUE, args |-> DpBodies(c)]
  OBVIOUS
<1>6. DpBodies(c) \in SUBSET DpFields
  BY DEF DpBodies, DpShown
<1>7. /\ row \in DpLedgerRow /\ row.outcome = outcome /\ row.class = "none"
      /\ row.approval = dpCall[c].claim /\ row.args = DpBodies(c)
  BY <1>1, <1>2, <1>4, <1>5, <1>6 DEF DpLedgerRow, DpClasses
<1>8. dpCall[c].gated => DpTrueRow(row, dpCall[c], dpRan[c], DpShown(c))
  BY <1>2, <1>7, DpHeld DEF DpHolds, DpBodies, DpTrueRow
<1>9. PICK k : k = DpOver(c, "recording", row)
  OBVIOUS
<1>10. k \in DpCall /\ DpGood(k, dpRan[c], dpLedger[c])
  BY <1>2, <1>4, <1>7, <1>8, <1>9, DpEndsWell DEF DpDispatchedNothing
<1>11. DpSet(c, k) /\ UNCHANGED <<dpWorld, dpEnded>>
  BY <1>1, <1>3, <1>5, <1>9 DEF DpSettles, DpEnds
<1>12. DpApprovalsOK' /\ DpKeepsRows
  <2>1. CASE UNCHANGED dpApproval
    BY <2>1, DpSameRows
  <2>2. CASE /\ r # 0 /\ dpApproval[r].status = "used"
             /\ dpApproval' = [dpApproval EXCEPT ![r].status = "approved"]
    <3>1. r \in DpRows
      BY <1>2, <2>2, DpAssumption DEF DpRows
    <3> QED
      BY <2>2, <3>1, DpStatusStays
  <2> QED
    BY <1>1, <2>1, <2>2 DEF DpSettles
<1> QED
  BY <1>10, <1>11, <1>12, DpMovesWithRows

LEMMA DpBreaksKeeps ==
  ASSUME DpInv, NEW c \in DpCalls, DpBreaks(c) PROVE DpInv'
<1>1. PICK r : r = IF DpAt(c, "claiming") THEN 0 ELSE dpCall[c].claim
  OBVIOUS
<1>2. r \in 0..DpMaxRows
  BY <1>1, DpHeld, DpAssumption DEF DpCall
<1>3. PICK row : row = [outcome |-> "error", class |-> "none", approval |-> r,
                        bodied |-> FALSE, args |-> {}]
  OBVIOUS
<1>4. /\ row \in DpLedgerRow /\ row.outcome = "error" /\ row.class = "none"
      /\ row.approval = r /\ ~row.bodied
  BY <1>2, <1>3 DEF DpLedgerRow, DpOutcomes, DpClasses
<1>5. DpAt(c, "claiming") => dpRan[c] = 0
  BY DpHeld DEF DpHolds, DpBefore, DpAt
<1>6. dpRan[c] # 0 => DpTrueRow(row, dpCall[c], dpRan[c], DpShown(c))
  BY <1>1, <1>4, <1>5 DEF DpTrueRow
<1>7. PICK k : k = DpOver(c, "recording", row)
  OBVIOUS
<1>8. k \in DpCall /\ DpGood(k, dpRan[c], dpLedger[c])
  BY <1>4, <1>6, <1>7, DpEndsWell DEF DpBreaks, DpRefusals, DpDispatchedNothing
<1>9. DpSet(c, k) /\ UNCHANGED <<dpWorld, dpEnded>>
  BY <1>1, <1>3, <1>7 DEF DpBreaks, DpEnds
<1>10. DpApprovalsOK' /\ DpKeepsRows
  <2>1. CASE UNCHANGED dpApproval
    BY <2>1, DpSameRows
  <2>2. CASE /\ DpAt(c, "claiming") /\ dpApproval[dpCall[c].claim].status = "approved"
             /\ dpApproval' = [dpApproval EXCEPT ![dpCall[c].claim].status = "used"]
    <3>1. dpCall[c].claim \in DpRows
      BY <2>2, DpHeld DEF DpHolds, DpIsRow, DpAt
    <3> QED
      BY <2>2, <3>1, DpStatusStays
  <2> QED
    BY <2>1, <2>2 DEF DpBreaks
<1> QED
  BY <1>8, <1>9, <1>10, DpMovesWithRows

(* A call that is done, its row written or lost. *)
LEMMA DpDoneIsGood ==
  ASSUME DpInv, NEW c \in DpCalls, dpCall[c].stage = "recording",
         NEW ledger \in {dpCall[c].row, dpLedger[c]},
         NEW k, k = DpOver(c, "done", DpNoRow)
  PROVE  k \in DpCall /\ DpGood(k, dpRan[c], ledger)
<1>1. /\ k.stage = "done" /\ k.pin = dpCall[c].pin /\ k.gated = dpCall[c].gated
      /\ k.claim = dpCall[c].claim /\ k.row = DpNoRow
  BY DEF DpOver
<1>2. k \in DpCall
  <2>1. DpNoRow \in DpLedgerRow /\ 0 \in 0..DpMaxApps
    BY DpAssumption DEF DpNoRow, DpLedgerRow, DpOutcomes, DpClasses
  <2> QED
    BY <2>1, DpHeld DEF DpOver, DpCall, DpStages, DpKinds
<1>3. DpHolds(k, dpRan[c])
  BY <1>1 DEF DpHolds, DpBefore, DpResolved, DpPassed
<1>4. DpLeaves(k, dpRan[c], ledger)
  <2>1. \A row \in {k.row, ledger} :
          row.outcome \in DpRefusals \/ row.class \in DpDispatchedNothing
            => dpRan[c] = 0
    BY <1>1, DpHeld DEF DpLeaves, DpNoRow, DpRefusals, DpDispatchedNothing
  <2>2. ASSUME k.gated, dpRan[c] # 0
        PROVE  \E shown \in SUBSET DpFields :
                 /\ DpIsRow(k.claim, dpRan[c], shown)
                 /\ DpTrueRow(k.row, k, dpRan[c], shown)
                 /\ DpTrueRow(ledger, k, dpRan[c], shown)
    <3>1. PICK shown \in SUBSET DpFields :
            /\ DpIsRow(dpCall[c].claim, dpRan[c], shown)
            /\ DpTrueRow(dpCall[c].row, dpCall[c], dpRan[c], shown)
            /\ DpTrueRow(dpLedger[c], dpCall[c], dpRan[c], shown)
      BY <1>1, <2>2, DpHeld DEF DpLeaves
    <3>2. DpTrueRow(ledger, k, dpRan[c], shown)
      BY <1>1, <3>1 DEF DpTrueRow
    <3>3. DpTrueRow(k.row, k, dpRan[c], shown)
      BY <1>1 DEF DpTrueRow, DpNoRow
    <3> QED
      BY <1>1, <3>1, <3>2, <3>3
  <2>3. k.pin # 0 => dpRan[c] \in {0, k.pin}
    BY <1>1, DpHeld DEF DpLeaves
  <2> QED
    BY <1>1, <2>1, <2>2, <2>3 DEF DpLeaves
<1> QED
  BY <1>2, <1>3, <1>4 DEF DpGood

LEMMA DpRecordsKeeps ==
  ASSUME DpInv, NEW c \in DpCalls, DpRecords(c) PROVE DpInv'
<1>1. PICK k, ran, ledger :
        k = DpOver(c, "done", DpNoRow) /\ ran = dpRan[c] /\ ledger = dpCall[c].row
  OBVIOUS
<1>2. k \in DpCall /\ DpGood(k, ran, ledger)
  BY <1>1, DpDoneIsGood DEF DpRecords, DpAt
<1>3. /\ ran \in 0..DpMaxApps /\ ledger \in DpLedgerRow
      /\ dpRan' = [dpRan EXCEPT ![c] = ran]
  BY <1>1, DpHeld DEF DpRecords, DpInv, DpTypeOK, DpCall
<1>4. DpApprovalsOK' /\ DpKeepsRows
  BY DpSameRows DEF DpRecords
<1> QED
  BY <1>1, <1>2, <1>3, <1>4, DpMoves DEF DpRecords, DpSet

LEMMA DpDiesKeeps ==
  ASSUME DpInv, NEW c \in DpCalls, DpDies(c) PROVE DpInv'
<1>1. PICK k : k = DpOver(c, "done", DpNoRow)
  OBVIOUS
<1>2. k \in DpCall /\ DpGood(k, dpRan[c], dpLedger[c])
  <2>1. CASE dpCall[c].stage = "recording"
    BY <1>1, <2>1, DpDoneIsGood
  <2>2. CASE dpCall[c].stage # "recording"
    <3>1. /\ DpNoRow \in DpLedgerRow
          /\ DpTrueRow(DpNoRow, dpCall[c], dpRan[c], DpShown(c))
          /\ DpNoRow.outcome \notin DpRefusals
          /\ DpNoRow.class \notin DpDispatchedNothing
      BY DpAssumption DEF DpNoRow, DpLedgerRow, DpOutcomes, DpClasses, DpTrueRow,
           DpRefusals, DpDispatchedNothing
    <3> QED
      BY <1>1, <2>2, <3>1, DpEndsWell DEF DpDies
  <2> QED
    BY <2>1, <2>2
<1> QED
  BY <1>1, <1>2, DpMovesAlone DEF DpDies

-----------------------------------------------------------------------------
(* The steps of the owner and the app leave every call alone *)

LEMMA DpWorldKeeps ==
  ASSUME DpInv, DpTypeOK', DpApprovalsOK', DpKeepsRows,
         UNCHANGED <<dpCall, dpEnded>>
  PROVE  DpInv'
<1>1. ASSUME NEW c \in DpCalls PROVE DpGood(dpCall[c], dpRan[c], dpLedger[c])'
  <2>1. PICK k \in DpCall, ran \in 0..DpMaxApps, ledger \in DpLedgerRow :
          k = dpCall[c] /\ ran = dpRan[c] /\ ledger = dpLedger[c]
    BY DpHeld
  <2>2. DpGood(k, ran, ledger)'
    BY <2>1, DpGoodStays DEF DpInv
  <2>3. dpCall'[c] = k /\ dpRan'[c] = ran /\ dpLedger'[c] = ledger
    BY <2>1 DEF dpEnded
  <2> QED
    BY <2>2, <2>3
<1> QED
  BY <1>1 DEF DpInv, DpApprovalsOK, DpRowsBlank

(* An edit of the row of the app that stands. *)
LEMMA DpEditKeeps ==
  ASSUME DpInv, DpChange, dpSlug # 0,
         NEW app \in [archived : BOOLEAN, grant : DpModes, online : BOOLEAN,
                      listed : BOOLEAN, secret : SUBSET DpFields,
                      redact : SUBSET DpFields],
         DpEdits(app)
  PROVE  DpInv'
<1>1. dpChanges' \in 0..DpMaxChanges
  BY DpAssumption DEF DpInv, DpTypeOK, DpChange
<1>2. DpTypeOK'
  BY <1>1 DEF DpInv, DpTypeOK, DpChange, DpEdits, dpEnded
<1> QED
  BY <1>2, DpSameRows, DpWorldKeeps DEF DpChange, DpEdits

LEMMA DpSlugApp ==
  ASSUME DpInv, dpSlug # 0
  PROVE  /\ dpSlug \in DpApps
         /\ dpApp[dpSlug] \in [archived : BOOLEAN, grant : DpModes,
              online : BOOLEAN, listed : BOOLEAN, secret : SUBSET DpFields,
              redact : SUBSET DpFields]
<1>1. dpSlug \in DpApps
  BY DpAssumption DEF DpInv, DpTypeOK, DpApps
<1> QED
  BY <1>1 DEF DpInv, DpTypeOK

LEMMA DpOwnerKeeps ==
  ASSUME DpInv, DpSetGrants \/ DpSetRedact \/ DpArchives \/ DpLists
  PROVE  DpInv'
<1>1. dpSlug # 0 /\ DpChange
  BY DEF DpSetGrants, DpSetRedact, DpArchives, DpLists
<1>2. CASE DpSetGrants
  <2>1. PICK grant \in DpModes : DpEdits([dpApp[dpSlug] EXCEPT !.grant = grant])
    BY <1>2 DEF DpSetGrants
  <2> QED
    BY <1>1, <2>1, DpSlugApp, DpEditKeeps
<1>3. CASE DpSetRedact
  <2>1. PICK names \in SUBSET DpFields :
          DpEdits([dpApp[dpSlug] EXCEPT !.redact = names])
    BY <1>3 DEF DpSetRedact
  <2> QED
    BY <1>1, <2>1, DpSlugApp, DpEditKeeps
<1>4. CASE DpArchives
  <2>1. DpEdits([dpApp[dpSlug] EXCEPT !.archived = ~@])
    BY <1>4 DEF DpArchives
  <2> QED
    BY <1>1, <2>1, DpSlugApp, DpEditKeeps
<1>5. CASE DpLists
  <2>1. PICK secret \in SUBSET DpFields :
          DpEdits([dpApp[dpSlug] EXCEPT !.online = TRUE, !.listed = TRUE,
                                        !.secret = secret])
    BY <1>5 DEF DpLists
  <2> QED
    BY <1>1, <2>1, DpSlugApp, DpEditKeeps
<1> QED
  BY <1>2, <1>3, <1>4, <1>5

(* The object's own steps, and a credential that lapses. *)
LEMMA DpObjectKeeps ==
  ASSUME DpInv, DpDrops \/ DpWipes \/ DpRevokes
  PROVE  DpInv'
<1>1. dpChanges' \in 0..DpMaxChanges
  <2>1. DpChange
    BY DEF DpDrops, DpWipes, DpRevokes
  <2> QED
    BY <2>1, DpAssumption DEF DpInv, DpTypeOK, DpChange
<1>2. UNCHANGED <<dpCall, dpEnded, dpApproval, dpSlug, dpMade>>
  BY DEF DpChange, DpDrops, DpWipes, DpRevokes
<1>3. dpLive' \in BOOLEAN
  BY DEF DpDrops, DpWipes, DpRevokes, DpInv, DpTypeOK
<1>4. dpApp' \in [DpApps -> [archived : BOOLEAN, grant : DpModes,
        online : BOOLEAN, listed : BOOLEAN, secret : SUBSET DpFields,
        redact : SUBSET DpFields]]
  <2>1. ASSUME NEW a \in DpApps, NEW app,
               app = [dpApp[a] EXCEPT !.online = FALSE]
                 \/ app = [dpApp[a] EXCEPT !.online = FALSE, !.listed = FALSE],
               dpApp' = [dpApp EXCEPT ![a] = app]
        PROVE  dpApp' \in [DpApps -> [archived : BOOLEAN, grant : DpModes,
                 online : BOOLEAN, listed : BOOLEAN, secret : SUBSET DpFields,
                 redact : SUBSET DpFields]]
    <3>1. dpApp[a] \in [archived : BOOLEAN, grant : DpModes, online : BOOLEAN,
                        listed : BOOLEAN, secret : SUBSET DpFields,
                        redact : SUBSET DpFields]
      BY DEF DpInv, DpTypeOK
    <3>2. app \in [archived : BOOLEAN, grant : DpModes, online : BOOLEAN,
                   listed : BOOLEAN, secret : SUBSET DpFields,
                   redact : SUBSET DpFields]
      BY <2>1, <3>1
    <3> QED
      BY <2>1, <3>2 DEF DpInv, DpTypeOK
  <2>2. CASE DpDrops
    <3>1. PICK a \in DpApps : dpApp' = [dpApp EXCEPT ![a].online = FALSE]
      BY <2>2 DEF DpDrops
    <3> QED
      BY <2>1, <3>1
  <2>3. CASE DpWipes
    <3>1. PICK a \in 1..dpMade \ {dpSlug} :
            dpApp' = [dpApp EXCEPT ![a] = [@ EXCEPT !.online = FALSE, !.listed = FALSE]]
      BY <2>3 DEF DpWipes
    <3>2. a \in DpApps
      BY <3>1, DpAssumption DEF DpInv, DpTypeOK, DpApps
    <3> QED
      BY <2>1, <3>1, <3>2
  <2>4. CASE DpRevokes
    BY <2>4 DEF DpRevokes, DpInv, DpTypeOK
  <2> QED
    BY <2>2, <2>3, <2>4
<1>5. DpTypeOK'
  BY <1>1, <1>2, <1>3, <1>4 DEF DpInv, DpTypeOK, dpEnded
<1> QED
  BY <1>2, <1>5, DpSameRows, DpWorldKeeps

LEMMA DpDeletesKeeps ==
  ASSUME DpInv, DpDeletes
  PROVE  DpInv'
<1>1. DpApprovalsOK' /\ DpKeepsRows
  BY DEF DpDeletes, DpInv, DpTypeOK, DpApprovalsOK, DpKeepsRows, DpRowsBlank
<1>2. dpChanges' \in 0..DpMaxChanges /\ dpSlug' \in 0..dpMade'
  BY DpAssumption DEF DpInv, DpTypeOK, DpChange, DpDeletes, DpApps
<1>3. DpTypeOK'
  BY <1>1, <1>2 DEF DpInv, DpTypeOK, DpApprovalsOK, DpChange, DpDeletes, dpEnded
<1> QED
  BY <1>1, <1>3, DpWorldKeeps DEF DpDeletes, DpChange

LEMMA DpCreatesKeeps ==
  ASSUME DpInv, DpCreates
  PROVE  DpInv'
<1>1. /\ dpChanges' \in 0..DpMaxChanges
      /\ dpMade' \in DpApps /\ dpSlug' \in 0..dpMade'
  BY DpAssumption DEF DpInv, DpTypeOK, DpChange, DpCreates, DpApps
<1>2. DpTypeOK'
  BY <1>1 DEF DpInv, DpTypeOK, DpChange, DpCreates, dpEnded
<1> QED
  BY <1>2, DpSameRows, DpWorldKeeps DEF DpCreates, DpChange

LEMMA DpApprovesKeeps ==
  ASSUME DpInv, DpApproves
  PROVE  DpInv'
<1>1. DpApprovalsOK' /\ DpKeepsRows
  <2>1. PICK r \in DpRows :
          /\ dpApproval[r].status = "pending"
          /\ dpApproval' = [dpApproval EXCEPT ![r].status = "approved"]
    BY DEF DpApproves
  <2> QED
    BY <2>1, DpStatusStays
<1>2. DpTypeOK'
  BY <1>1 DEF DpInv, DpTypeOK, DpApprovalsOK, DpApproves, dpWorld, dpEnded
<1> QED
  BY <1>1, <1>2, DpWorldKeeps DEF DpApproves

LEMMA DpCallKeeps ==
  ASSUME DpInv, NEW c \in DpCalls, DpCallStep(c)
  PROVE  DpInv'
<1>1. CASE \E kind \in DpKinds, owner \in BOOLEAN, pinned \in 0..dpMade :
             DpEnter(c, kind, owner, pinned)
  BY <1>1, DpEnterKeeps
<1>2. CASE ~ \E kind \in DpKinds, owner \in BOOLEAN, pinned \in 0..dpMade :
               DpEnter(c, kind, owner, pinned)
  BY <1>2, DpProvesKeeps, DpReadsAppKeeps, DpFiltersKeeps, DpProbesKeeps,
     DpSchemaKeeps, DpConfigKeeps, DpChecksKeeps, DpClaimsKeeps, DpForwardsKeeps,
     DpAnsweredKeeps, DpSettlesKeeps, DpBreaksKeeps, DpRecordsKeeps, DpDiesKeeps
  DEF DpCallStep
<1> QED
  BY <1>1, <1>2

LEMMA DpNextInv == DpInv /\ [DpNext]_dpVars => DpInv'
<1> SUFFICES ASSUME DpInv, [DpNext]_dpVars PROVE DpInv'
  OBVIOUS
<1>1. CASE \E c \in DpCalls : DpCallStep(c)
  BY <1>1, DpCallKeeps
<1>2. CASE DpSetGrants \/ DpSetRedact \/ DpArchives \/ DpLists
  BY <1>2, DpOwnerKeeps
<1>3. CASE DpDrops \/ DpWipes \/ DpRevokes
  BY <1>3, DpObjectKeeps
<1>4. CASE DpDeletes
  BY <1>4, DpDeletesKeeps
<1>5. CASE DpCreates
  BY <1>5, DpCreatesKeeps
<1>6. CASE DpApproves
  BY <1>6, DpApprovesKeeps
<1>7. CASE UNCHANGED dpVars
  <2>1. DpTypeOK'
    BY <1>7 DEF DpInv, DpTypeOK, dpVars
  <2> QED
    BY <1>7, <2>1, DpSameRows, DpWorldKeeps DEF dpVars, dpEnded
<1> QED
  BY <1>1, <1>2, <1>3, <1>4, <1>5, <1>6, <1>7 DEF DpNext

-----------------------------------------------------------------------------
(* DpTypeOK for every number of calls, fields, rows, apps and changes: what
   dispatchTool holds at each of its awaits is what the rows it read can give. *)
THEOREM DpTypeCorrect == DpSpec => []DpTypeOK
<1>1. DpInv => DpTypeOK
  BY DEF DpInv
<1> QED
  BY <1>1, DpInitInv, DpNextInv, PTL DEF DpSpec

(* DpApprovedAsShown: whatever the owner and the app change between the reads of
   a call, a gated call that reached an app did so under an approval of that app,
   and its audit row keeps in the clear what the approval showed. *)
THEOREM DpApprovalsAreKept == DpSpec => []DpApprovedAsShown
<1>1. DpInv => DpApprovedAsShown
  <2> SUFFICES ASSUME DpInv, NEW c \in DpCalls, dpCall[c].gated, dpRan[c] # 0
               PROVE  /\ dpCall[c].claim # 0
                      /\ dpApproval[dpCall[c].claim].app = dpRan[c]
                      /\ dpLedger[c].bodied =>
                           dpLedger[c].args = dpApproval[dpCall[c].claim].shown
    BY DEF DpApprovedAsShown
  <2>1. PICK shown \in SUBSET DpFields :
          /\ DpIsRow(dpCall[c].claim, dpRan[c], shown)
          /\ DpTrueRow(dpLedger[c], dpCall[c], dpRan[c], shown)
    BY DpHeld DEF DpLeaves
  <2> QED
    BY <2>1, DpAssumption DEF DpIsRow, DpTrueRow, DpRows
<1> QED
  BY <1>1, DpInitInv, DpNextInv, PTL DEF DpSpec

(* DpLedgerIsTrue: an audit row that says nothing was dispatched is of a call
   that reached no app, the row of a gated call names the approval it spent, and
   an operation of a program reaches no app but the one its snapshot pinned. *)
THEOREM DpLedgerIsAlwaysTrue == DpSpec => []DpLedgerIsTrue
<1>1. DpInv => DpLedgerIsTrue
  <2> SUFFICES ASSUME DpInv, NEW c \in DpCalls
               PROVE  /\ \/ dpLedger[c].outcome \in DpRefusals
                         \/ dpLedger[c].class \in DpDispatchedNothing
                         => dpRan[c] = 0
                      /\ dpLedger[c].outcome # "none" /\ dpCall[c].gated
                           /\ dpRan[c] # 0
                         => /\ dpLedger[c].approval = dpCall[c].claim
                            /\ dpCall[c].claim # 0
                      /\ dpCall[c].pin # 0 => dpRan[c] \in {0, dpCall[c].pin}
    BY DEF DpLedgerIsTrue
  <2>1. ASSUME dpLedger[c].outcome # "none", dpCall[c].gated, dpRan[c] # 0
        PROVE  dpLedger[c].approval = dpCall[c].claim /\ dpCall[c].claim # 0
    <3>1. PICK shown \in SUBSET DpFields :
            /\ DpIsRow(dpCall[c].claim, dpRan[c], shown)
            /\ DpTrueRow(dpLedger[c], dpCall[c], dpRan[c], shown)
      BY <2>1, DpHeld DEF DpLeaves
    <3> QED
      BY <2>1, <3>1, DpAssumption DEF DpIsRow, DpTrueRow, DpRows
  <2> QED
    BY <2>1, DpHeld DEF DpLeaves
<1> QED
  BY <1>1, DpInitInv, DpNextInv, PTL DEF DpSpec

-----------------------------------------------------------------------------
(* The promise of the gate *)

(* Only a gated call names a claim, and only a gated call enters the gate. *)
DpOwnClaim(k) ==
  /\ ~k.gated => k.claim = 0
  /\ k.stage \in {"checking", "claiming"} => k.gated

DpClaimsOwn == \A c \in DpCalls : DpOwnClaim(dpCall[c])

(* What a call that looks like this holds. *)
DpHeldBy(k) == IF k.gated /\ k.stage \in DpPassed THEN k.claim ELSE 0

LEMMA DpHeldIs ==
  ASSUME NEW c \in DpCalls PROVE DpHeldRow[c] = DpHeldBy(dpCall[c])
BY DEF DpHeldRow, DpHeldBy, DpPassed

LEMMA DpHeldMoves ==
  ASSUME DpInv, NEW c \in DpCalls, NEW k, DpSet(c, k)
  PROVE  DpHeldRow' = [DpHeldRow EXCEPT ![c] = DpHeldBy(k)]
BY DEF DpInv, DpTypeOK, DpSet, DpHeldRow, DpHeldBy, DpPassed

LEMMA DpStandingMoves ==
  ASSUME DpInv, NEW r \in DpRows, NEW word,
         dpApproval' = [dpApproval EXCEPT ![r].status = word]
  PROVE  DpStanding' = [DpStanding EXCEPT ![r] = DpMeaning(word)]
<1>1. \A q \in DpRows :
        dpApproval'[q].status = IF q = r THEN word ELSE dpApproval[q].status
  BY DEF DpInv, DpTypeOK
<1> QED BY <1>1 DEF DpStanding, DpMeaning

(* A call that is past its claim keeps what it holds or lets go of it. *)
LEMMA DpLetsGo ==
  ASSUME DpInv, NEW c \in DpCalls, NEW k, DpSet(c, k), UNCHANGED dpApproval,
         DpHeldBy(k) \in {0, DpHeldBy(dpCall[c])}
  PROVE  DpPermit!PassNext \/ UNCHANGED DpPermit!passVars
<1>1. DpHeldRow' = [DpHeldRow EXCEPT ![c] = DpHeldBy(k)]
  BY DpHeldMoves
<1>2. DpStanding' = DpStanding
  BY DEF DpStanding
<1>3. CASE DpHeldBy(k) = DpHeldRow[c]
  <2>1. DpHeldRow' = DpHeldRow
    BY <1>1, <1>3 DEF DpHeldRow
  <2> QED BY <1>2, <2>1 DEF DpPermit!passVars
<1>4. CASE DpHeldBy(k) # DpHeldRow[c]
  <2>1. DpHeldBy(k) = 0 /\ DpHeldRow[c] # 0
    BY <1>4, DpHeldIs
  <2>2. DpPermit!LetGo(c)
    BY <1>1, <1>2, <2>1 DEF DpPermit!LetGo
  <2> QED BY <2>2 DEF DpPermit!PassNext
<1> QED BY <1>3, <1>4

(* The steps that leave the approvals alone: what the call becomes. *)
LEMMA DpQuietSteps ==
  ASSUME DpInv, DpClaimsOwn, NEW c \in DpCalls,
         \/ \E kind \in DpKinds, owner \in BOOLEAN, pinned \in 0..dpMade :
              DpEnter(c, kind, owner, pinned)
         \/ DpProves(c) \/ DpReadsApp(c) \/ DpFilters(c) \/ DpProbes(c)
         \/ DpSchema(c) \/ DpConfig(c) \/ DpForwards(c) \/ DpAnswered(c)
         \/ DpRecords(c) \/ DpDies(c)
  PROVE  /\ UNCHANGED dpApproval
         /\ \E k : /\ DpSet(c, k) /\ DpOwnClaim(k)
                   /\ DpHeldBy(k) \in {0, DpHeldBy(dpCall[c])}
<1>0. dpCall[c] \in DpCall /\ DpOwnClaim(dpCall[c]) /\ DpHolds(dpCall[c], dpRan[c])
  BY DpHeld DEF DpClaimsOwn
<1>1. ASSUME NEW row, NEW stage \in {"recording", "done"},
             DpSet(c, DpOver(c, stage, row))
      PROVE  \E k : /\ DpSet(c, k) /\ DpOwnClaim(k)
                    /\ DpHeldBy(k) \in {0, DpHeldBy(dpCall[c])}
  BY <1>0, <1>1 DEF DpOver, DpOwnClaim, DpHeldBy, DpPassed
<1>2. ASSUME NEW k, DpSet(c, k), k.gated = dpCall[c].gated,
             k.claim = dpCall[c].claim,
             k.stage \in {"checking", "claiming"} => k.gated,
             k.stage \in DpPassed /\ k.gated => dpCall[c].stage \in DpPassed
      PROVE  \E j : /\ DpSet(c, j) /\ DpOwnClaim(j)
                    /\ DpHeldBy(j) \in {0, DpHeldBy(dpCall[c])}
  BY <1>0, <1>2 DEF DpOwnClaim, DpHeldBy
<1>3. CASE \E kind \in DpKinds, owner \in BOOLEAN, pinned \in 0..dpMade :
             DpEnter(c, kind, owner, pinned)
  <2>1. PICK kind \in DpKinds, owner \in BOOLEAN, pinned \in 0..dpMade :
          DpEnter(c, kind, owner, pinned)
    BY <1>3
  <2> DEFINE k == [DpIdle EXCEPT
                     !.stage = IF pinned # 0 THEN "proving" ELSE "reading",
                     !.kind = kind, !.owner = owner, !.pin = pinned]
  <2>2. DpOwnClaim(k) /\ DpHeldBy(k) = 0
    BY DEF DpIdle, DpOwnClaim, DpHeldBy, DpPassed
  <2>3. DpSet(c, k) /\ UNCHANGED dpApproval
    BY <2>1 DEF DpEnter
  <2> QED BY <2>2, <2>3
<1>4. CASE DpProves(c)
  BY <1>0, <1>1, <1>2, <1>4 DEF DpProves, DpThrows, DpEnds, DpCall, DpPassed
<1>5. CASE DpReadsApp(c)
  BY <1>0, <1>1, <1>2, <1>5 DEF DpReadsApp, DpThrows, DpEnds, DpCall, DpPassed
<1>6. CASE DpFilters(c)
  <2> DEFINE k == [dpCall[c] EXCEPT !.stage = "probing", !.owner = FALSE,
                     !.gated = dpCall[c].kind = "tool" /\ DpMode(c) = "approval"]
  <2>1. CASE DpSet(c, k)
    <3>1. k.stage = "probing" /\ k.claim = 0
      BY <1>0, <1>6 DEF DpFilters, DpAt, DpHolds, DpOwnClaim, DpCall
    <3>2. DpOwnClaim(k) /\ DpHeldBy(k) = 0
      BY <3>1 DEF DpOwnClaim, DpHeldBy, DpPassed
    <3> QED BY <1>6, <2>1, <3>2 DEF DpFilters
  <2> QED BY <1>1, <1>6, <2>1 DEF DpFilters, DpThrows, DpEnds
<1>7. CASE DpProbes(c)
  <2>1. ASSUME NEW stage \in {"schema", "forwarding"},
               stage = "forwarding" => ~dpCall[c].gated,
               DpSet(c, [dpCall[c] EXCEPT !.stage = stage])
        PROVE  \E k : /\ DpSet(c, k) /\ DpOwnClaim(k)
                      /\ DpHeldBy(k) \in {0, DpHeldBy(dpCall[c])}
    BY <1>0, <1>2, <2>1 DEF DpCall, DpPassed
  <2>2. dpCall[c].kind # "tool" => ~dpCall[c].gated
    BY <1>0, <1>7 DEF DpProbes, DpAt, DpHolds
  <2> QED BY <1>1, <1>7, <2>1, <2>2 DEF DpProbes, DpThrows, DpEnds
<1>8. CASE DpSchema(c)
  BY <1>0, <1>1, <1>2, <1>8 DEF DpSchema, DpThrows, DpEnds, DpCall, DpPassed
<1>9. CASE DpConfig(c)
  BY <1>0, <1>2, <1>9 DEF DpConfig, DpAt, DpCall, DpPassed
<1>10. CASE DpForwards(c)
  BY <1>0, <1>1, <1>2, <1>10 DEF DpForwards, DpAt, DpThrows, DpEnds, DpCall, DpPassed
<1>11. CASE DpAnswered(c)
  BY <1>0, <1>1, <1>2, <1>11 DEF DpAnswered, DpAt, DpThrows, DpEnds, DpCall, DpPassed
<1>12. CASE DpRecords(c) \/ DpDies(c)
  BY <1>1, <1>12 DEF DpRecords, DpDies
<1> QED BY <1>3, <1>4, <1>5, <1>6, <1>7, <1>8, <1>9, <1>10, <1>11, <1>12

LEMMA DpChecksPermits ==
  ASSUME DpInv, DpClaimsOwn, NEW c \in DpCalls, DpChecks(c)
  PROVE  /\ DpPermit!PassNext \/ UNCHANGED DpPermit!passVars
         /\ \E k : DpSet(c, k) /\ DpOwnClaim(k)
<1>0. /\ dpCall[c] \in DpCall /\ DpOwnClaim(dpCall[c])
      /\ dpCall[c].stage = "checking" /\ dpCall[c].gated
  BY DpHeld DEF DpClaimsOwn, DpOwnClaim, DpChecks, DpAt
<1>1. ASSUME NEW r \in DpRows, UNCHANGED dpApproval,
             DpSet(c, [dpCall[c] EXCEPT !.stage = "claiming", !.claim = r])
      PROVE  /\ DpPermit!PassNext \/ UNCHANGED DpPermit!passVars
             /\ \E k : DpSet(c, k) /\ DpOwnClaim(k)
  <2> DEFINE k == [dpCall[c] EXCEPT !.stage = "claiming", !.claim = r]
  <2>1. DpOwnClaim(k) /\ DpHeldBy(k) = 0
    BY <1>0 DEF DpOwnClaim, DpHeldBy, DpPassed, DpCall
  <2> QED BY <1>1, <2>1, DpLetsGo
<1>2. ASSUME NEW row, DpSet(c, DpOver(c, "recording", row))
      PROVE  /\ DpHeldRow' = DpHeldRow
             /\ \E k : DpSet(c, k) /\ DpOwnClaim(k)
  <2> DEFINE k == DpOver(c, "recording", row)
  <2>1. DpOwnClaim(k) /\ DpHeldBy(k) = 0 /\ DpHeldRow[c] = 0
    BY <1>0, DpHeldIs DEF DpOwnClaim, DpHeldBy, DpPassed, DpOver
  <2>2. DpHeldRow' = [DpHeldRow EXCEPT ![c] = 0]
    BY <1>2, <2>1, DpHeldMoves
  <2> QED BY <1>2, <2>1, <2>2 DEF DpHeldRow
<1>3. ASSUME NEW r \in DpRows, dpApproval[r].status = "none",
             dpApproval' = [dpApproval EXCEPT ![r] =
               [status |-> "pending", app |-> dpCall[c].app, shown |-> DpShown(c)]],
             DpHeldRow' = DpHeldRow
      PROVE  DpPermit!PassNext
  <2>1. \A q \in DpRows :
          dpApproval'[q].status = IF q = r THEN "pending" ELSE dpApproval[q].status
    BY <1>3 DEF DpInv, DpTypeOK
  <2>2. DpStanding[r] = "none" /\ DpMeaning("pending") = "asked"
    BY <1>3 DEF DpStanding, DpMeaning
  <2>4. DpStanding' = [DpStanding EXCEPT ![r] = "asked"]
    BY <2>1, <2>2 DEF DpStanding, DpMeaning
  <2>3. DpPermit!Ask(r)
    BY <1>3, <2>2, <2>4 DEF DpPermit!Ask
  <2> QED BY <2>3 DEF DpPermit!PassNext
<1>4. ASSUME UNCHANGED dpApproval, DpHeldRow' = DpHeldRow
      PROVE  UNCHANGED DpPermit!passVars
  BY <1>4 DEF DpStanding, DpPermit!passVars
<1> QED BY <1>1, <1>2, <1>3, <1>4
        DEF DpChecks, DpLiveRows, DpOwed, DpThrows, DpEnds

LEMMA DpClaimsPermits ==
  ASSUME DpInv, DpClaimsOwn, NEW c \in DpCalls, DpClaims(c)
  PROVE  /\ DpPermit!PassNext \/ UNCHANGED DpPermit!passVars
         /\ \E k : DpSet(c, k) /\ DpOwnClaim(k)
<1>0. /\ dpCall[c] \in DpCall /\ dpCall[c].stage = "claiming" /\ dpCall[c].gated
      /\ dpCall[c].claim \in DpRows
  BY DpHeld DEF DpClaimsOwn, DpOwnClaim, DpClaims, DpAt, DpHolds, DpIsRow
<1>1. CASE dpApproval[dpCall[c].claim].status = "approved"
  <2> DEFINE k == [dpCall[c] EXCEPT !.stage = "forwarding"]
  <2>1. PICK r \in DpRows : r = dpCall[c].claim
    BY <1>0
  <2>2. DpOwnClaim(k) /\ DpHeldBy(k) = r /\ DpHeldRow[c] = 0
    BY <1>0, <2>1, DpHeldIs DEF DpOwnClaim, DpHeldBy, DpPassed, DpCall
  <2>3. DpSet(c, k) /\ dpApproval' = [dpApproval EXCEPT ![r].status = "used"]
    BY <1>1, <2>1 DEF DpClaims
  <2>4. DpHeldRow' = [DpHeldRow EXCEPT ![c] = r]
    BY <2>2, <2>3, DpHeldMoves
  <2>5. DpStanding' = [DpStanding EXCEPT ![r] = "taken"] /\ DpStanding[r] = "granted"
    BY <1>1, <2>1, <2>3, DpStandingMoves DEF DpStanding, DpMeaning
  <2>6. DpPermit!Take(c, r)
    BY <2>2, <2>4, <2>5 DEF DpPermit!Take
  <2> QED BY <2>2, <2>3, <2>6 DEF DpPermit!PassNext
<1>2. CASE dpApproval[dpCall[c].claim].status # "approved"
  <2> DEFINE k == [dpCall[c] EXCEPT !.stage = "checking", !.claim = 0]
  <2>1. DpOwnClaim(k) /\ DpHeldBy(k) = 0
    BY <1>0 DEF DpOwnClaim, DpHeldBy, DpPassed, DpCall
  <2>2. DpSet(c, k) /\ UNCHANGED dpApproval
    BY <1>2 DEF DpClaims
  <2> QED BY <2>1, <2>2, DpLetsGo
<1> QED BY <1>1, <1>2

LEMMA DpSettlesPermits ==
  ASSUME DpInv, DpClaimsOwn, NEW c \in DpCalls, DpSettles(c)
  PROVE  /\ DpPermit!PassNext \/ UNCHANGED DpPermit!passVars
         /\ \E k : DpSet(c, k) /\ DpOwnClaim(k)
<1>0. /\ dpCall[c] \in DpCall /\ dpCall[c].stage = "settling"
      /\ DpOwnClaim(dpCall[c])
  BY DpHeld DEF DpClaimsOwn, DpSettles, DpAt
<1>1. PICK row : DpSet(c, DpOver(c, "recording", row))
  BY DEF DpSettles, DpEnds
<1> DEFINE k == DpOver(c, "recording", row)
<1>2. DpOwnClaim(k) /\ DpHeldBy(k) = 0
  BY <1>0 DEF DpOwnClaim, DpHeldBy, DpPassed, DpOver
<1>3. CASE UNCHANGED dpApproval
  BY <1>1, <1>2, <1>3, DpLetsGo
<1>4. CASE /\ dpCall[c].claim # 0 /\ dpApproval[dpCall[c].claim].status = "used"
           /\ dpApproval' = [dpApproval EXCEPT ![dpCall[c].claim].status = "approved"]
  <2>1. PICK r \in DpRows : r = dpCall[c].claim
    BY <1>0, <1>4, DpAssumption DEF DpCall, DpRows
  <2>2. DpHeldRow[c] = r /\ r # 0
    BY <1>0, <1>4, <2>1, DpHeldIs DEF DpOwnClaim, DpHeldBy, DpPassed
  <2>3. DpHeldRow' = [DpHeldRow EXCEPT ![c] = 0]
    BY <1>1, <1>2, DpHeldMoves
  <2>4. DpStanding' = [DpStanding EXCEPT ![r] = "granted"] /\ DpStanding[r] = "taken"
    BY <1>4, <2>1, DpStandingMoves DEF DpStanding, DpMeaning
  <2>5. DpPermit!HandBack(c)
    BY <2>2, <2>3, <2>4 DEF DpPermit!HandBack
  <2> QED BY <1>1, <1>2, <2>5 DEF DpPermit!PassNext
<1> QED BY <1>3, <1>4 DEF DpSettles

LEMMA DpBreaksPermits ==
  ASSUME DpInv, DpClaimsOwn, NEW c \in DpCalls, DpBreaks(c)
  PROVE  /\ DpPermit!PassNext \/ UNCHANGED DpPermit!passVars
         /\ \E k : DpSet(c, k) /\ DpOwnClaim(k)
<1>0. dpCall[c] \in DpCall /\ DpOwnClaim(dpCall[c])
  BY DpHeld DEF DpClaimsOwn
<1>1. PICK row : DpSet(c, DpOver(c, "recording", row))
  BY DEF DpBreaks, DpEnds
<1> DEFINE k == DpOver(c, "recording", row)
<1>2. DpOwnClaim(k) /\ DpHeldBy(k) = 0
  BY <1>0 DEF DpOwnClaim, DpHeldBy, DpPassed, DpOver
<1>3. CASE UNCHANGED dpApproval
  BY <1>1, <1>2, <1>3, DpLetsGo
<1>4. CASE /\ DpAt(c, "claiming")
           /\ dpApproval[dpCall[c].claim].status = "approved"
           /\ dpApproval' = [dpApproval EXCEPT ![dpCall[c].claim].status = "used"]
  <2>1. PICK r \in DpRows : r = dpCall[c].claim
    BY <1>4, DpHeld DEF DpAt, DpHolds, DpIsRow
  <2>2. DpHeldRow[c] = 0
    BY <1>4, DpHeldIs DEF DpAt, DpHeldBy, DpPassed
  <2>3. DpHeldRow' = DpHeldRow
    <3>1. DpHeldRow' = [DpHeldRow EXCEPT ![c] = 0]
      BY <1>1, <1>2, DpHeldMoves
    <3> QED BY <2>2, <3>1 DEF DpHeldRow
  <2>4. DpStanding' = [DpStanding EXCEPT ![r] = "taken"] /\ DpStanding[r] = "granted"
    BY <1>4, <2>1, DpStandingMoves DEF DpStanding, DpMeaning
  <2>5. DpPermit!Spend(r)
    BY <2>3, <2>4 DEF DpPermit!Spend
  <2> QED BY <1>1, <1>2, <2>5 DEF DpPermit!PassNext
<1> QED BY <1>3, <1>4 DEF DpBreaks

LEMMA DpCallPermits ==
  ASSUME DpInv, DpClaimsOwn, NEW c \in DpCalls, DpCallStep(c)
  PROVE  /\ DpPermit!PassNext \/ UNCHANGED DpPermit!passVars
         /\ DpClaimsOwn'
<1>1. /\ DpPermit!PassNext \/ UNCHANGED DpPermit!passVars
      /\ \E k : DpSet(c, k) /\ DpOwnClaim(k)
  <2>1. CASE DpChecks(c) \/ DpClaims(c) \/ DpSettles(c) \/ DpBreaks(c)
    BY <2>1, DpChecksPermits, DpClaimsPermits, DpSettlesPermits, DpBreaksPermits
  <2>2. CASE ~(DpChecks(c) \/ DpClaims(c) \/ DpSettles(c) \/ DpBreaks(c))
    <3>1. /\ UNCHANGED dpApproval
          /\ \E k : /\ DpSet(c, k) /\ DpOwnClaim(k)
                    /\ DpHeldBy(k) \in {0, DpHeldBy(dpCall[c])}
      BY <2>2, DpQuietSteps DEF DpCallStep
    <3> QED BY <3>1, DpLetsGo
  <2> QED BY <2>1, <2>2
<1>2. DpClaimsOwn'
  <2>1. PICK k : dpCall' = [dpCall EXCEPT ![c] = k] /\ DpOwnClaim(k)
    BY <1>1 DEF DpSet
  <2>2. \A d \in DpCalls : dpCall'[d] = IF d = c THEN k ELSE dpCall[d]
    BY <2>1 DEF DpInv, DpTypeOK
  <2> QED BY <2>1, <2>2 DEF DpClaimsOwn
<1> QED BY <1>1, <1>2

(* The owner grants; a deletion forgets the rows of its app. *)
LEMMA DpWorldPermits ==
  ASSUME DpInv, UNCHANGED dpCall,
         DpApproves \/ DpDeletes \/ UNCHANGED dpApproval
  PROVE  DpPermit!PassNext \/ UNCHANGED DpPermit!passVars
<1>1. DpHeldRow' = DpHeldRow
  BY DEF DpHeldRow
<1>2. CASE UNCHANGED dpApproval
  BY <1>1, <1>2 DEF DpStanding, DpPermit!passVars
<1>3. CASE DpApproves
  <2>1. PICK r \in DpRows :
          /\ dpApproval[r].status = "pending"
          /\ dpApproval' = [dpApproval EXCEPT ![r].status = "approved"]
    BY <1>3 DEF DpApproves
  <2>2. DpStanding' = [DpStanding EXCEPT ![r] = "granted"] /\ DpStanding[r] = "asked"
    BY <2>1, DpStandingMoves DEF DpStanding, DpMeaning
  <2>3. DpPermit!Grant(r)
    BY <1>1, <2>2 DEF DpPermit!Grant
  <2> QED BY <2>3 DEF DpPermit!PassNext
<1>4. CASE DpDeletes
  <2>1. PICK old \in SUBSET DpRows : old = {r \in DpRows : dpApproval[r].app = dpSlug}
    OBVIOUS
  <2>2. \A r \in DpRows : dpApproval'[r].status =
          IF r \in old THEN "gone" ELSE dpApproval[r].status
    BY <1>4, <2>1 DEF DpDeletes, DpInv, DpTypeOK
  <2>3. DpStanding' =
          [r \in DpRows |-> IF r \in old THEN "closed" ELSE DpStanding[r]]
    BY <2>2 DEF DpStanding, DpMeaning
  <2>4. DpPermit!Forget(old)
    BY <1>1, <2>3 DEF DpPermit!Forget
  <2> QED BY <2>4 DEF DpPermit!PassNext
<1> QED BY <1>2, <1>3, <1>4

LEMMA DpPermitStep ==
  DpInv /\ DpClaimsOwn /\ [DpNext]_dpVars =>
    DpClaimsOwn' /\ [DpPermit!PassNext]_(DpPermit!passVars)
<1> SUFFICES ASSUME DpInv, DpClaimsOwn, [DpNext]_dpVars
             PROVE  /\ DpClaimsOwn'
                    /\ DpPermit!PassNext \/ UNCHANGED DpPermit!passVars
  OBVIOUS
<1>1. CASE \E c \in DpCalls : DpCallStep(c)
  BY <1>1, DpCallPermits
<1>2. CASE ~ \E c \in DpCalls : DpCallStep(c)
  <2>1. UNCHANGED dpCall /\ (DpApproves \/ DpDeletes \/ UNCHANGED dpApproval)
    BY <1>2 DEF DpNext, dpVars, DpChange, DpEdits, DpSetGrants, DpSetRedact,
         DpArchives, DpLists, DpDrops, DpWipes, DpDeletes, DpCreates, DpRevokes,
         DpApproves
  <2> QED BY <2>1, DpWorldPermits DEF DpClaimsOwn
<1> QED BY <1>1, <1>2

(* DpKeepsPermit: whatever the owner and the app change between the reads of a
   call, the calls and the approvals take only steps of the single-use pass. *)
THEOREM DpPassIsSingleUse == DpSpec => DpKeepsPermit
<1>1. DpInit => DpClaimsOwn /\ DpPermit!PassInit
  BY DEF DpInit, DpIdle, DpClaimsOwn, DpOwnClaim, DpNoApproval, DpStanding,
         DpMeaning, DpHeldRow, DpPermit!PassInit
<1> QED
  BY <1>1, DpInitInv, DpNextInv, DpPermitStep, PTL
     DEF DpSpec, DpKeepsPermit, DpPermit!Spec

(* No two calls hold one approval. *)
DpHeldAlone ==
  \A c, d \in DpCalls : DpHeldRow[c] # 0 /\ DpHeldRow[d] = DpHeldRow[c] => c = d

(* The promise keeps it so: what a call holds is open to nobody. *)
DpHeldClosed ==
  /\ DpHeldAlone
  /\ \A c \in DpCalls : DpHeldRow[c] # 0 =>
       DpHeldRow[c] \in DpRows /\ DpStanding[DpHeldRow[c]] \in {"taken", "closed"}

LEMMA DpPromiseIsAlone ==
  DpHeldClosed /\ [DpPermit!PassNext]_(DpPermit!passVars) => DpHeldClosed'
<1> SUFFICES ASSUME DpHeldClosed, [DpPermit!PassNext]_(DpPermit!passVars)
             PROVE  DpHeldClosed'
  OBVIOUS
<1>0. PICK S, T : DpStanding \in [DpRows -> S] /\ DpHeldRow \in [DpCalls -> T]
  <2>1. /\ DpStanding \in [DpRows -> {DpStanding[r] : r \in DpRows}]
        /\ DpHeldRow \in [DpCalls -> {DpHeldRow[c] : c \in DpCalls}]
    BY DEF DpStanding, DpHeldRow
  <2> QED BY <2>1
<1>1. ASSUME NEW r \in DpRows, NEW w \in {"asked", "granted", "closed", "taken"},
             DpStanding[r] \in {"none", "asked", "granted"},
             DpStanding' = [DpStanding EXCEPT ![r] = w], UNCHANGED DpHeldRow
      PROVE  DpHeldClosed'
  BY <1>0, <1>1 DEF DpHeldClosed, DpHeldAlone
<1>2. CASE \E r \in DpRows : \/ DpPermit!Ask(r) \/ DpPermit!Grant(r)
                             \/ DpPermit!Refuse(r) \/ DpPermit!Spend(r)
  BY <1>1, <1>2
     DEF DpPermit!Ask, DpPermit!Grant, DpPermit!Refuse, DpPermit!Spend
<1>3. ASSUME NEW c \in DpCalls, NEW r \in DpRows, DpPermit!Take(c, r)
      PROVE  DpHeldClosed'
  BY <1>0, <1>3 DEF DpPermit!Take, DpHeldClosed, DpHeldAlone
<1>4. ASSUME NEW c \in DpCalls, DpPermit!HandBack(c) PROVE DpHeldClosed'
  <2>1. PICK r \in DpRows : r = DpHeldRow[c] /\ r # 0
    BY <1>4 DEF DpPermit!HandBack, DpHeldClosed
  <2>2. /\ \A q \in DpRows : DpStanding'[q] = IF q = r THEN "granted" ELSE DpStanding[q]
        /\ \A d \in DpCalls : DpHeldRow'[d] = IF d = c THEN 0 ELSE DpHeldRow[d]
    BY <1>0, <1>4, <2>1 DEF DpPermit!HandBack
  <2>3. \A d \in DpCalls \ {c} : DpHeldRow[d] # r
    BY <2>1 DEF DpHeldClosed, DpHeldAlone
  <2> QED BY <2>2, <2>3 DEF DpHeldClosed, DpHeldAlone
<1>5. ASSUME NEW c \in DpCalls, DpPermit!LetGo(c) PROVE DpHeldClosed'
  BY <1>0, <1>5 DEF DpPermit!LetGo, DpHeldClosed, DpHeldAlone
<1>6. ASSUME NEW old \in SUBSET DpRows, DpPermit!Forget(old) PROVE DpHeldClosed'
  BY <1>6 DEF DpPermit!Forget, DpHeldClosed, DpHeldAlone
<1>7. CASE UNCHANGED DpPermit!passVars
  BY <1>7 DEF DpPermit!passVars, DpHeldClosed, DpHeldAlone
<1> QED BY <1>2, <1>3, <1>4, <1>5, <1>6, <1>7 DEF DpPermit!PassNext

(* An approval is behind one call at a time, also of calls that resolved the
   slug to different apps. *)
THEOREM DpOneHolder == DpSpec => []DpHeldAlone
<1>1. DpInit => DpHeldClosed
  BY DEF DpInit, DpIdle, DpHeldRow, DpHeldClosed, DpHeldAlone
<1>2. DpHeldClosed => DpHeldAlone
  BY DEF DpHeldClosed
<1>3. DpSpec => [][DpPermit!PassNext]_(DpPermit!passVars)
  BY DpPassIsSingleUse, PTL DEF DpKeepsPermit, DpPermit!Spec
<1> QED BY <1>1, <1>2, <1>3, DpPromiseIsAlone, PTL DEF DpSpec
=============================================================================
