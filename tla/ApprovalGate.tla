---------------------------- MODULE ApprovalGate ----------------------------
(***************************************************************************)
(* The approval gate of server/src/approvals.ts and the part of            *)
(* server/src/gateway.ts dispatchTool that drives it: identical calls of   *)
(* one agent that check, claim, dispatch and settle, the owner who         *)
(* decides, and the readers and the daily sweep that expire and prune.     *)
(*                                                                         *)
(* All of it runs in stateless workers over one D1 table, so every query   *)
(* is a step of its own and anything may happen between two of them.       *)
(* Every query the calls make names one (agent, app, tool, args_hash), so  *)
(* the model keeps the rows of one binding.                                *)
(***************************************************************************)
EXTENDS Integers, FiniteSets

CONSTANTS Calls,       \* identical calls the agent makes
          Deciders,    \* decide() requests in progress at once
          Readers,     \* list() and sweepExpired() requests at once
          MaxRows,     \* bound on the rows ever inserted
          Window,      \* limits.APPROVAL_WINDOW_MS, in clock units
          Retention,   \* config.retentionDays, same units
          MaxNow       \* bound on the clock

Rows == 1 .. MaxRows

ASSUME GateAssumption ==
  /\ MaxRows \in Nat
  /\ Window \in Nat \ {0}
  /\ Retention \in Nat /\ Window <= Retention  \* an hour, and whole days
  /\ MaxNow \in Nat

VARIABLES
  now,        \* config.now()
  status,     \* approval.status, "none" before the insert, "pruned" after
  expires,    \* approval.expires_at
  online,     \* probeAvailability's verdict
  stage,      \* call -> where it is parked, or how it ended
  pass,       \* call -> the row it is about, 0 for none
  stale,      \* call -> the past-expiry pending row its check() read
  asOf,       \* call -> the instant its check() read the clock
  ruling,     \* decide() -> the row and the verdict it is about to write
  reading,    \* list() or sweepExpired() -> what it read
  \* history
  ledger,     \* row -> event -> audit rows written, 2 for several
  ran         \* calls whose frame left for the app

rowVars == <<status, expires, ledger>>
callVars == <<stage, pass, stale, asOf, ran>>
vars == <<now, online, rowVars, callVars, ruling, reading>>

Statuses == {"none", "pending", "approved", "rejected", "expired", "used",
             "pruned"}
Gate     == {"checking", "flipping", "claiming", "inserting", "rereading"}
Holding  == {"claimed", "running", "settling"}
Ended    == {"unavailable", "required", "failed", "done", "offline",
             "timeout", "dead"}
Verdicts == {"approved", "rejected"}
Events   == Verdicts \cup {"requested", "expired"}
NoRuling == [row |-> 0, verdict |-> "none", lapsed |-> FALSE]
NoReading == [busy |-> FALSE, sweep |-> FALSE, todo |-> {}, at |-> 0]

TypeOK ==
  /\ now \in Nat
  /\ status \in [Rows -> Statuses]
  /\ expires \in [Rows -> Nat]
  /\ online \in BOOLEAN
  /\ stage \in [Calls -> {"idle"} \cup Gate \cup Holding \cup Ended]
  /\ pass \in [Calls -> 0 .. MaxRows]
  /\ stale \in [Calls -> 0 .. MaxRows]
  /\ asOf \in [Calls -> Nat]
  /\ ruling \in [Deciders -> [row : 0 .. MaxRows, verdict : Verdicts \cup {"none"},
                              lapsed : BOOLEAN]]
  /\ reading \in [Readers -> [busy : BOOLEAN, sweep : BOOLEAN,
                              todo : SUBSET Rows, at : Nat]]
  /\ ledger \in [Rows -> [Events -> 0 .. 2]]
  /\ ran \subseteq Calls

Init ==
  /\ now = 0
  /\ status = [i \in Rows |-> "none"]
  /\ expires = [i \in Rows |-> 0]
  /\ online \in BOOLEAN
  /\ stage = [c \in Calls |-> "idle"]
  /\ pass = [c \in Calls |-> 0]
  /\ stale = [c \in Calls |-> 0]
  /\ asOf = [c \in Calls |-> 0]
  /\ ruling = [d \in Deciders |-> NoRuling]
  /\ reading = [r \in Readers |-> NoReading]
  /\ ledger = [i \in Rows |-> [e \in Events |-> 0]]
  /\ ran = {}

-----------------------------------------------------------------------------
(* The table *)

With(word) == {i \in Rows : status[i] = word}

(* Expiry is an interpretation at read time: expires_at >= now is live. *)
LiveAt(t) == {i \in Rows : expires[i] >= t}

OneOf(S) == IF S = {} THEN {0} ELSE S

(* One more audit row. *)
Recorded(i, event) ==
  [ledger EXCEPT ![i][event] = IF @ < 2 THEN @ + 1 ELSE @]

(* Fault: the audit row does not wait for the changed-row count. *)
Flip_Unconditional(i) ==
  /\ status' = [status EXCEPT ![i] = IF @ = "pending" THEN "expired" ELSE @]
  /\ ledger' = Recorded(i, "expired")

(* flipExpired(): the update is conditional on pending, and the caller whose
   update changed the row writes the audit row. *)
Flip(i) ==
  IF status[i] = "pending"
    THEN /\ status' = [status EXCEPT ![i] = "expired"]
         /\ ledger' = Recorded(i, "expired")
    ELSE UNCHANGED <<status, ledger>>

Goto(c, place) == stage' = [stage EXCEPT ![c] = place]

-----------------------------------------------------------------------------
(* A gated call: dispatchTool and passGate *)

(* Availability is tested once, before the gate. *)
Probe(c) ==
  /\ stage[c] = "idle"
  /\ Goto(c, IF online THEN "checking" ELSE "unavailable")
  /\ UNCHANGED <<now, online, rowVars, pass, stale, asOf, ran, ruling,
                 reading>>

(* Fault: an approved row answers ok whether or not it is still live. *)
CheckReads_AnyApproved(c) ==
  /\ stage[c] = "checking"
  /\ \E ok \in OneOf(With("approved")),
        asked \in OneOf(With("pending") \cap LiveAt(now)),
        lapsed \in OneOf(With("pending") \ LiveAt(now)) :
       /\ pass' = [pass EXCEPT ![c] = IF ok # 0 THEN ok ELSE asked]
       /\ stale' = [stale EXCEPT ![c] = lapsed]
       /\ Goto(c, IF lapsed # 0 THEN "flipping"
                  ELSE IF ok # 0 THEN "claiming"
                  ELSE IF asked # 0 THEN "required" ELSE "inserting")
  /\ asOf' = [asOf EXCEPT ![c] = now]
  /\ UNCHANGED <<now, online, rowVars, ran, ruling, reading>>

(* check(): one read of the live and the lapsed rows decides; a lapsed
   pending row is flipped before anything else is done. *)
CheckReads(c) ==
  /\ stage[c] = "checking"
  /\ \E ok \in OneOf(With("approved") \cap LiveAt(now)),
        asked \in OneOf(With("pending") \cap LiveAt(now)),
        lapsed \in OneOf(With("pending") \ LiveAt(now)) :
       /\ pass' = [pass EXCEPT ![c] = IF ok # 0 THEN ok ELSE asked]
       /\ stale' = [stale EXCEPT ![c] = lapsed]
       /\ Goto(c, IF lapsed # 0 THEN "flipping"
                  ELSE IF ok # 0 THEN "claiming"
                  ELSE IF asked # 0 THEN "required" ELSE "inserting")
  /\ asOf' = [asOf EXCEPT ![c] = now]
  /\ UNCHANGED <<now, online, rowVars, ran, ruling, reading>>

(* The index allows one pending row, so next to a lapsed one the read found
   an approved row or none. *)
FlipLapsed(c) ==
  /\ stage[c] = "flipping"
  /\ Flip(stale[c])
  /\ Goto(c, IF pass[c] # 0 THEN "claiming" ELSE "inserting")
  /\ UNCHANGED <<now, online, expires, pass, stale, asOf, ran, ruling,
                 reading>>

(* Fault: the window is counted backwards. *)
ExpiryOf_Backwards(at) == at - Window

(* expires_at of a row created at that instant. *)
ExpiryOf(at) == at + Window

(* The insert, through approval_pending_binding: one pending row at most.
   The owner's notification goes out with the audit row. *)
InsertWins(c) ==
  LET i == 1 + Cardinality(Rows \ With("none")) IN
  /\ stage[c] = "inserting"
  /\ i \in With("none")
  /\ With("pending") = {}
  /\ status' = [status EXCEPT ![i] = "pending"]
  /\ expires' = [expires EXCEPT ![i] = ExpiryOf(asOf[c])]
  /\ ledger' = Recorded(i, "requested")
  /\ pass' = [pass EXCEPT ![c] = i]
  /\ Goto(c, "required")
  /\ UNCHANGED <<now, online, stale, asOf, ran, ruling, reading>>

InsertLoses(c) ==
  /\ stage[c] = "inserting"
  /\ With("pending") # {}
  /\ Goto(c, "rereading")
  /\ UNCHANGED <<now, online, rowVars, pass, stale, asOf, ran, ruling,
                 reading>>

(* The loser answers the winner's row; without one it rethrows. *)
Reread(c) ==
  /\ stage[c] = "rereading"
  /\ \E winner \in OneOf(With("pending") \cap LiveAt(asOf[c])) :
       /\ pass' = [pass EXCEPT ![c] = winner]
       /\ Goto(c, IF winner # 0 THEN "required" ELSE "failed")
  /\ UNCHANGED <<now, online, rowVars, stale, asOf, ran, ruling,
                 reading>>

(* Fault: the update does not ask for an approved row. *)
ClaimWins_NoCompare(c) ==
  /\ stage[c] = "claiming"
  /\ pass[c] \in LiveAt(now)
  /\ status' = [status EXCEPT ![pass[c]] = "used"]
  /\ Goto(c, "claimed")
  /\ UNCHANGED <<now, online, expires, ledger, pass, stale, asOf, ran,
                 ruling, reading>>

(* claim(): the compare-and-set won, or lost and checked again. *)
ClaimWins(c) ==
  /\ stage[c] = "claiming"
  /\ pass[c] \in With("approved") \cap LiveAt(now)
  /\ status' = [status EXCEPT ![pass[c]] = "used"]
  /\ Goto(c, "claimed")
  /\ UNCHANGED <<now, online, expires, ledger, pass, stale, asOf, ran,
                 ruling, reading>>

ClaimLoses(c) ==
  /\ stage[c] = "claiming"
  /\ pass[c] \notin With("approved") \cap LiveAt(now)
  /\ Goto(c, "checking")
  /\ UNCHANGED <<now, online, rowVars, pass, stale, asOf, ran, ruling,
                 reading>>

(* boundedCall: the frame leaves, or the app turns out to be offline. *)
Dispatch(c) ==
  /\ stage[c] = "claimed"
  /\ IF online
       THEN Goto(c, "running") /\ ran' = ran \cup {c}
       ELSE Goto(c, "offline") /\ UNCHANGED ran
  /\ UNCHANGED <<now, online, rowVars, pass, stale, asOf, ruling,
                 reading>>

(* An input_required leg goes on to settle, any other answer ends the call
   with its pass spent. *)
Answered(c, inputRequired) ==
  /\ stage[c] = "running"
  /\ Goto(c, IF inputRequired THEN "settling" ELSE "done")
  /\ UNCHANGED <<now, online, rowVars, pass, stale, asOf, ran, ruling,
                 reading>>

(* settle(): only a row that is still used is restored. *)
Settle(c) ==
  /\ stage[c] = "settling"
  /\ status' = [status EXCEPT ![pass[c]] = IF @ = "used" THEN "approved" ELSE @]
  /\ Goto(c, "done")
  /\ UNCHANGED <<now, online, expires, ledger, pass, stale, asOf, ran,
                 ruling, reading>>

(* No answer within the budget, or no budget left: settle() is skipped. *)
TimesOut(c) ==
  /\ stage[c] \in {"claimed", "running"}
  /\ Goto(c, "timeout")
  /\ UNCHANGED <<now, online, rowVars, pass, stale, asOf, ran, ruling,
                 reading>>

(* The worker of the call is gone between two queries. *)
Dies(c) ==
  /\ stage[c] \in Gate \cup Holding
  /\ Goto(c, "dead")
  /\ UNCHANGED <<now, online, rowVars, pass, stale, asOf, ran, ruling,
                 reading>>

(* The agent's identical retry of a call that was told to wait for approval, a
   new request that remembers nothing.  The bound leaves a row for every call
   that may still insert one. *)
Retries(c) ==
  /\ stage[c] = "required"
  /\ Cardinality(With("none"))
       > Cardinality({d \in Calls : stage[d] \in {"idle"} \cup Gate})
  /\ Goto(c, "idle")
  /\ pass' = [pass EXCEPT ![c] = 0]
  /\ stale' = [stale EXCEPT ![c] = 0]
  /\ asOf' = [asOf EXCEPT ![c] = 0]
  /\ UNCHANGED <<now, online, rowVars, ran, ruling, reading>>

-----------------------------------------------------------------------------
(* The owner: decide() *)

(* The row is read; one that is not pending is refused and leaves nothing. *)
DecideReads(d, i, verdict) ==
  /\ ruling[d] = NoRuling
  /\ status[i] = "pending"
  /\ ruling' = [ruling EXCEPT ![d] =
       [row |-> i, verdict |-> verdict, lapsed |-> i \notin LiveAt(now)]]
  /\ UNCHANGED <<now, online, rowVars, callVars, reading>>

(* A lapsed row is flipped and refused. *)
DecideRefuses(d) ==
  /\ ruling[d].lapsed
  /\ Flip(ruling[d].row)
  /\ ruling' = [ruling EXCEPT ![d] = NoRuling]
  /\ UNCHANGED <<now, online, expires, callVars, reading>>

(* Fault: the verdict is written whatever became of the row. *)
DecideWrites_NoCompare(d) ==
  LET i == ruling[d].row IN
  /\ i # 0
  /\ ~ruling[d].lapsed
  /\ status' = [status EXCEPT ![i] = ruling[d].verdict]
  /\ ledger' = Recorded(i, ruling[d].verdict)
  /\ ruling' = [ruling EXCEPT ![d] = NoRuling]
  /\ UNCHANGED <<now, online, expires, callVars, reading>>

(* The update is conditional on pending; the audit row and the answer are
   not. *)
DecideWrites(d) ==
  LET i == ruling[d].row IN
  /\ i # 0
  /\ ~ruling[d].lapsed
  /\ status' = [status EXCEPT ![i] = IF @ = "pending" THEN ruling[d].verdict
                                                       ELSE @]
  /\ ledger' = Recorded(i, ruling[d].verdict)
  /\ ruling' = [ruling EXCEPT ![d] = NoRuling]
  /\ UNCHANGED <<now, online, expires, callVars, reading>>

-----------------------------------------------------------------------------
(* list() and sweepExpired() *)

ReadsTable(r, sweep) ==
  /\ ~reading[r].busy
  /\ reading' = [reading EXCEPT ![r] =
       [busy |-> TRUE, sweep |-> sweep,
        todo |-> With("pending") \ LiveAt(now), at |-> now]]
  /\ UNCHANGED <<now, online, rowVars, callVars, ruling>>

FlipRead(r, i) ==
  /\ i \in reading[r].todo
  /\ Flip(i)
  /\ reading' = [reading EXCEPT ![r].todo = @ \ {i}]
  /\ UNCHANGED <<now, online, expires, callVars, ruling>>

(* Rows created before at - Retention. *)
PastRetention(at) == {i \in Rows \ With("none") :
                        expires[i] - Window < at - Retention}

(* Fault: rows are pruned before the lapsed ones are flipped. *)
EndsReading_PruneFirst(r) ==
  /\ reading[r].busy
  /\ status' = [i \in Rows |->
       IF reading[r].sweep /\ i \in PastRetention(reading[r].at)
         THEN "pruned" ELSE status[i]]
  /\ reading' = [reading EXCEPT ![r] = NoReading]
  /\ UNCHANGED <<now, online, expires, ledger, callVars, ruling>>

(* Flip first, prune second. *)
EndsReading(r) ==
  /\ reading[r].busy
  /\ reading[r].todo = {}
  /\ status' = [i \in Rows |->
       IF reading[r].sweep /\ i \in PastRetention(reading[r].at)
         THEN "pruned" ELSE status[i]]
  /\ reading' = [reading EXCEPT ![r] = NoReading]
  /\ UNCHANGED <<now, online, expires, ledger, callVars, ruling>>

-----------------------------------------------------------------------------
(* The environment *)

AppTurns ==
  /\ online' = ~online
  /\ UNCHANGED <<now, rowVars, stage, pass, stale, asOf, ran, ruling, reading>>

(* A worker lives for seconds, the window is an hour: no request is still at
   work when a whole window has gone by since it read the clock. *)
Prompt ==
  /\ \A c \in Calls :
       stage[c] \in (Gate \cup Holding) \ {"checking"} => now < asOf[c] + Window
  /\ \A r \in Readers : reading[r].busy => now < reading[r].at + Window

Tick ==
  /\ now < MaxNow
  /\ Prompt
  /\ now' = now + 1
  /\ UNCHANGED <<online, rowVars, callVars, ruling, reading>>

-----------------------------------------------------------------------------
Step(c) ==
  \/ Probe(c) \/ CheckReads(c) \/ FlipLapsed(c)
  \/ InsertWins(c) \/ InsertLoses(c) \/ Reread(c)
  \/ ClaimWins(c) \/ ClaimLoses(c) \/ Dispatch(c)
  \/ \E inputRequired \in BOOLEAN : Answered(c, inputRequired)
  \/ Settle(c) \/ TimesOut(c)

Next ==
  \/ \E c \in Calls : Step(c) \/ Dies(c) \/ Retries(c)
  \/ \E d \in Deciders, i \in Rows, verdict \in Verdicts :
       DecideReads(d, i, verdict)
  \/ \E d \in Deciders : DecideRefuses(d) \/ DecideWrites(d)
  \/ \E r \in Readers, sweep \in BOOLEAN : ReadsTable(r, sweep)
  \/ \E r \in Readers, i \in Rows : FlipRead(r, i)
  \/ \E r \in Readers : EndsReading(r)
  \/ AppTurns
  \/ Tick

Spec == Init /\ [][Next]_vars

(* D1 answers and a call has a budget: a call that has started goes on. *)
FairSpec ==
  Spec /\ \A c \in Calls : WF_vars(stage[c] # "idle" /\ Step(c))

-----------------------------------------------------------------------------
(* The promise *)

Held == [c \in Calls |-> IF stage[c] \in Holding THEN pass[c] ELSE 0]

(* What a stored status means to the owner. *)
Meaning(word) ==
  CASE word = "none"     -> "none"
    [] word = "pending"  -> "asked"
    [] word = "approved" -> "granted"
    [] word = "used"     -> "taken"
    [] OTHER             -> "closed"

Standing == [i \in Rows |-> Meaning(status[i])]

Permit == INSTANCE SinglePass WITH pass <- Standing, holder <- Held

(* The gate keeps its promise: a row goes asked, granted, taken; a call holds
   it alone; only its holder hands it back (check, claim, settle, decide). *)
KeepsPermit == Permit!Spec

(* Safety *)

(* Of N identical calls one holds an approval, and an approval anyone holds
   is not open to the next claim (claim, settle). *)
OneHolder ==
  \A c \in Calls : stage[c] \in Holding =>
    /\ pass[c] \in Rows /\ status[pass[c]] \in {"used", "pruned"}
    /\ \A d \in Calls : stage[d] \in Holding /\ pass[d] = pass[c] => d = c

(* However many readers race, a row is recorded as expired at most once, and
   only when it did expire (flipExpired). *)
ExpiredOnce ==
  \A i \in Rows :
    /\ ledger[i]["expired"] <= 1
    /\ ledger[i]["expired"] = 1 => status[i] \in {"expired", "pruned"}

(* Flip first, prune second: no row is pruned while it is pending, so each
   leaves its last audit row behind (sweepExpired). *)
PrunedWasSettled ==
  [][\A i \in Rows : status'[i] = "pruned" => status[i] # "pending"]_vars

(* A rejection in the owner's ledger means that no call runs under the row
   (decide). *)
RejectionHolds ==
  \A c \in ran : ledger[pass[c]]["rejected"] = 0

(* Liveness *)

(* passGate's loop ends: a call that entered the gate leaves it with an
   answer or a pass, whoever else claims, restores or lets rows expire. *)
GateAnswers == \A c \in Calls : stage[c] \in Gate ~> stage[c] \notin Gate
=============================================================================
