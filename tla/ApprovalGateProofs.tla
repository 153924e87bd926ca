------------------------- MODULE ApprovalGateProofs -------------------------
(* Theorems about ApprovalGate, for every number of calls, deciders,
   readers and rows, every window and every retention. *)
EXTENDS ApprovalGate, TLAPS

LEMMA RowsAreRows ==
  /\ \A i \in Rows : i # 0 /\ i \in 0 .. MaxRows
  /\ 0 \in 0 .. MaxRows
  /\ \A S : S \subseteq Rows => \A i \in OneOf(S) : i \in 0 .. MaxRows
BY GateAssumption DEF Rows, OneOf

LEMMA RecordedType ==
  ASSUME ledger \in [Rows -> [Events -> 0 .. 2]], NEW i \in Rows,
         NEW event \in Events
  PROVE  Recorded(i, event) \in [Rows -> [Events -> 0 .. 2]]
BY DEF Recorded

(* A request that is about to flip a row, or to rule on one, names it. *)
NamesRow ==
  /\ \A c \in Calls : stage[c] = "flipping" => stale[c] \in Rows
  /\ \A d \in Deciders : ruling[d].lapsed => ruling[d].row \in Rows
  /\ \A d \in Deciders : ruling[d].row # 0 => ruling[d].verdict \in Verdicts

LEMMA FlipType ==
  ASSUME TypeOK, NEW i \in Rows, Flip(i)
  PROVE  /\ status' \in [Rows -> Statuses]
         /\ ledger' \in [Rows -> [Events -> 0 .. 2]]
<1>1. CASE status[i] = "pending"
  <2>1. /\ status' = [status EXCEPT ![i] = "expired"]
        /\ ledger' = Recorded(i, "expired")
    BY <1>1 DEF Flip
  <2>2. "expired" \in Events /\ "expired" \in Statuses
    BY DEF Events, Statuses
  <2>3. ledger' \in [Rows -> [Events -> 0 .. 2]]
    BY <2>1, <2>2, RecordedType DEF TypeOK
  <2> QED BY <2>1, <2>2, <2>3 DEF TypeOK
<1>2. CASE status[i] # "pending"
  BY <1>2 DEF Flip, TypeOK
<1> QED BY <1>1, <1>2

LEMMA GotoType ==
  ASSUME TypeOK, NEW c \in Calls,
         NEW place \in {"idle"} \cup Gate \cup Holding \cup Ended,
         Goto(c, place)
  PROVE  stage' \in [Calls -> {"idle"} \cup Gate \cup Holding \cup Ended]
BY DEF Goto, TypeOK

LEMMA TypeInit == Init => TypeOK /\ NamesRow
BY GateAssumption, RowsAreRows
   DEF Init, TypeOK, NamesRow, Statuses, NoRuling, NoReading, Verdicts, Rows

LEMMA TypeStep == TypeOK /\ NamesRow /\ [Next]_vars => TypeOK' /\ NamesRow'
<1> SUFFICES ASSUME TypeOK, NamesRow, [Next]_vars PROVE TypeOK' /\ NamesRow'
  OBVIOUS
<1> USE DEF rowVars, callVars
<1>1. ASSUME NEW c \in Calls, Probe(c) PROVE TypeOK' /\ NamesRow'
  BY <1>1 DEF Probe, Goto, TypeOK, NamesRow, Gate, Ended
<1>2. ASSUME NEW c \in Calls, CheckReads(c) PROVE TypeOK' /\ NamesRow'
  <2> PICK ok \in OneOf(With("approved") \cap LiveAt(now)),
           asked \in OneOf(With("pending") \cap LiveAt(now)),
           lapsed \in OneOf(With("pending") \ LiveAt(now)) :
         /\ pass' = [pass EXCEPT ![c] = IF ok # 0 THEN ok ELSE asked]
         /\ stale' = [stale EXCEPT ![c] = lapsed]
         /\ Goto(c, IF lapsed # 0 THEN "flipping"
                    ELSE IF ok # 0 THEN "claiming"
                    ELSE IF asked # 0 THEN "required" ELSE "inserting")
    BY <1>2 DEF CheckReads
  <2>1. /\ ok \in 0 .. MaxRows /\ asked \in 0 .. MaxRows
        /\ lapsed \in 0 .. MaxRows
        /\ lapsed # 0 => lapsed \in Rows
    BY RowsAreRows DEF With, OneOf
  <2>2. stage' \in [Calls -> {"idle"} \cup Gate \cup Holding \cup Ended]
    BY DEF Goto, TypeOK, Gate, Ended
  <2>3. /\ pass' \in [Calls -> 0 .. MaxRows]
        /\ stale' \in [Calls -> 0 .. MaxRows]
    BY <2>1 DEF TypeOK
  <2>4. /\ UNCHANGED <<now, online, status, expires, ledger, ran, ruling,
                       reading>>
        /\ asOf' = [asOf EXCEPT ![c] = now]
    BY <1>2 DEF CheckReads, TypeOK
  <2>5. TypeOK'
    BY <2>2, <2>3, <2>4 DEF TypeOK
  <2>6. NamesRow'
    BY <2>1, <2>4 DEF NamesRow, Goto, TypeOK
  <2> QED BY <2>5, <2>6
<1>3. ASSUME NEW c \in Calls, FlipLapsed(c) PROVE TypeOK' /\ NamesRow'
  <2>1. stale[c] \in Rows /\ Flip(stale[c])
    BY <1>3 DEF FlipLapsed, NamesRow
  <2> QED BY <1>3, <2>1, FlipType DEF FlipLapsed, Goto, TypeOK, NamesRow, Gate
<1>4. ASSUME NEW c \in Calls, InsertWins(c) PROVE TypeOK' /\ NamesRow'
  <2> DEFINE i == 1 + Cardinality(Rows \ With("none"))
  <2>1. /\ i \in Rows /\ i \in 0 .. MaxRows
        /\ status' = [status EXCEPT ![i] = "pending"]
        /\ expires' = [expires EXCEPT ![i] = asOf[c] + Window]
        /\ ledger' = Recorded(i, "requested")
        /\ pass' = [pass EXCEPT ![c] = i]
        /\ stage' = [stage EXCEPT ![c] = "required"]
        /\ UNCHANGED <<now, online, stale, asOf, ran, ruling, reading>>
    BY <1>4, RowsAreRows DEF InsertWins, ExpiryOf, With, Goto
  <2> HIDE DEF i
  <2>2. asOf[c] + Window \in Nat
    BY GateAssumption DEF TypeOK
  <2>3. ledger' \in [Rows -> [Events -> 0 .. 2]]
    BY <2>1, RecordedType DEF TypeOK, Events
  <2> QED BY <2>1, <2>2, <2>3 DEF TypeOK, NamesRow, Statuses, Ended
<1>5. ASSUME NEW c \in Calls, InsertLoses(c) \/ ClaimLoses(c)
      PROVE  TypeOK' /\ NamesRow'
  BY <1>5 DEF InsertLoses, ClaimLoses, Goto, TypeOK, NamesRow, Gate
<1>6. ASSUME NEW c \in Calls, Reread(c) PROVE TypeOK' /\ NamesRow'
  <2> PICK winner \in OneOf(With("pending") \cap LiveAt(asOf[c])) :
         /\ pass' = [pass EXCEPT ![c] = winner]
         /\ Goto(c, IF winner # 0 THEN "required" ELSE "failed")
    BY <1>6 DEF Reread
  <2>1. winner \in 0 .. MaxRows
    BY RowsAreRows DEF With
  <2> QED BY <1>6, <2>1 DEF Reread, Goto, TypeOK, NamesRow, Ended
<1>7. ASSUME NEW c \in Calls, ClaimWins(c) PROVE TypeOK' /\ NamesRow'
  BY <1>7 DEF ClaimWins, With, Goto, TypeOK, NamesRow, Statuses, Holding
<1>8. ASSUME NEW c \in Calls,
             \/ Dispatch(c) \/ TimesOut(c) \/ Dies(c) \/ Retries(c)
             \/ \E b \in BOOLEAN : Answered(c, b)
      PROVE  TypeOK' /\ NamesRow'
  <2>1. CASE Retries(c)
    <3>1. 0 \in 0 .. MaxRows /\ 0 \in Nat
      BY GateAssumption
    <3> QED BY <2>1, <3>1 DEF Retries, rowVars, Goto, TypeOK, NamesRow
  <2>2. CASE ~Retries(c)
    BY <1>8, <2>2 DEF Dispatch, Answered, TimesOut, Dies, Goto, TypeOK, NamesRow,
                      Holding, Ended
  <2> QED BY <2>1, <2>2
<1>9. ASSUME NEW c \in Calls, Settle(c) PROVE TypeOK' /\ NamesRow'
  BY <1>9 DEF Settle, Goto, TypeOK, NamesRow, Statuses, Ended
<1>10. ASSUME NEW d \in Deciders, NEW i \in Rows, NEW v \in Verdicts,
              DecideReads(d, i, v)
       PROVE  TypeOK' /\ NamesRow'
  BY <1>10, RowsAreRows DEF DecideReads, TypeOK, NamesRow, Verdicts
<1>11. ASSUME NEW d \in Deciders, DecideRefuses(d)
       PROVE  TypeOK' /\ NamesRow'
  <2>1. ruling[d].row \in Rows
    BY <1>11 DEF DecideRefuses, NamesRow
  <2> QED BY <1>11, <2>1, FlipType, RowsAreRows
          DEF DecideRefuses, TypeOK, NamesRow, NoRuling
<1>12. ASSUME NEW d \in Deciders, DecideWrites(d)
       PROVE  TypeOK' /\ NamesRow'
  <2> DEFINE i == ruling[d].row
  <2>1. i \in Rows
    BY <1>12, GateAssumption DEF DecideWrites, TypeOK, Rows
  <2>2. ruling[d].verdict \in Verdicts
    BY <1>12 DEF DecideWrites, NamesRow
  <2>3. ledger' \in [Rows -> [Events -> 0 .. 2]]
    BY <1>12, <2>1, <2>2, RecordedType DEF DecideWrites, TypeOK, Events
  <2> QED BY <1>12, <2>1, <2>2, <2>3, RowsAreRows
          DEF DecideWrites, TypeOK, NamesRow, NoRuling, Verdicts, Statuses
<1>13. ASSUME NEW r \in Readers, NEW sweep \in BOOLEAN, ReadsTable(r, sweep)
       PROVE  TypeOK' /\ NamesRow'
  <2>1. With("pending") \ LiveAt(now) \in SUBSET Rows
    BY DEF With
  <2>2. [busy |-> TRUE, sweep |-> sweep, todo |-> With("pending") \ LiveAt(now),
         at |-> now]
          \in [busy : BOOLEAN, sweep : BOOLEAN, todo : SUBSET Rows, at : Nat]
    BY <2>1 DEF TypeOK
  <2> QED BY <1>13, <2>2 DEF ReadsTable, TypeOK, NamesRow
<1>14. ASSUME NEW r \in Readers, EndsReading(r) PROVE TypeOK' /\ NamesRow'
  <2>1. status' \in [Rows -> Statuses]
    BY <1>14 DEF EndsReading, TypeOK, Statuses
  <2>2. NoReading \in [busy : BOOLEAN, sweep : BOOLEAN, todo : SUBSET Rows,
                       at : Nat]
    BY DEF NoReading
  <2> QED BY <1>14, <2>1, <2>2 DEF EndsReading, TypeOK, NamesRow
<1>15. ASSUME NEW r \in Readers, NEW i \in Rows, FlipRead(r, i)
       PROVE  TypeOK' /\ NamesRow'
  <2>1. [reading[r] EXCEPT !.todo = @ \ {i}]
          \in [busy : BOOLEAN, sweep : BOOLEAN, todo : SUBSET Rows, at : Nat]
    BY DEF TypeOK
  <2>2. reading' = [reading EXCEPT ![r] = [reading[r] EXCEPT !.todo = @ \ {i}]]
    BY <1>15 DEF FlipRead
  <2>3. reading' \in [Readers -> [busy : BOOLEAN, sweep : BOOLEAN,
                                  todo : SUBSET Rows, at : Nat]]
    BY <2>1, <2>2 DEF TypeOK
  <2>4. Flip(i) /\ UNCHANGED <<now, online, expires, callVars, ruling>>
    BY <1>15 DEF FlipRead
  <2>5. /\ status' \in [Rows -> Statuses]
        /\ ledger' \in [Rows -> [Events -> 0 .. 2]]
    BY <2>4, FlipType
  <2>6. TypeOK'
    BY <2>3, <2>4, <2>5 DEF TypeOK
  <2>7. NamesRow'
    BY <2>4 DEF NamesRow
  <2> QED BY <2>6, <2>7
<1>16. CASE AppTurns
  <2>1. online' \in BOOLEAN
    BY <1>16, Zenon DEF AppTurns, TypeOK
  <2>2. UNCHANGED <<now, status, expires, ledger, stage, pass, stale, asOf, ran,
                    ruling, reading>>
    BY <1>16 DEF AppTurns
  <2> QED BY <2>1, <2>2 DEF TypeOK, NamesRow
<1>17. CASE Tick
  BY <1>17 DEF Tick, TypeOK, NamesRow
<1>18. CASE UNCHANGED vars
  BY <1>18 DEF vars, TypeOK, NamesRow
<1> QED
  BY <1>1, <1>2, <1>3, <1>4, <1>5, <1>6, <1>7, <1>8, <1>9, <1>10, <1>11,
     <1>12, <1>13, <1>14, <1>15, <1>16, <1>17, <1>18 DEF Next, Step

(* TypeOK holds of every reachable state. *)
THEOREM GateTypeCorrect == Spec => []TypeOK
<1> QED BY TypeInit, TypeStep, PTL DEF Spec

-----------------------------------------------------------------------------
(* One holder.  OneHolder is inductive next to the types: only a claim starts
   to hold a row, and the row it claims was approved, so nobody held it. *)

(* A step after which every holder held the same row before. *)
LEMMA HoldersKept ==
  ASSUME TypeOK, OneHolder,
         \A c \in Calls : stage'[c] \in Holding =>
           stage[c] \in Holding /\ pass'[c] = pass[c],
         \A i \in Rows : status[i] \in {"used", "pruned"} =>
           status'[i] \in {"used", "pruned"}
  PROVE  OneHolder'
BY DEF OneHolder

LEMMA FlipSpares ==
  ASSUME TypeOK, NEW i \in Rows, Flip(i)
  PROVE  /\ \A j \in Rows : status[j] # "pending" => status'[j] = status[j]
         /\ \A j \in Rows : j # i => status'[j] = status[j]
         /\ status'[i] # "pending"
BY DEF Flip, TypeOK

LEMMA OneHolderStep ==
  TypeOK /\ NamesRow /\ OneHolder /\ [Next]_vars => OneHolder'
<1> SUFFICES ASSUME TypeOK, NamesRow, OneHolder, [Next]_vars
             PROVE  OneHolder'
  OBVIOUS
<1> USE DEF rowVars, callVars
<1>1. ASSUME NEW c \in Calls,
             Probe(c) \/ InsertLoses(c) \/ Reread(c) \/ ClaimLoses(c)
      PROVE  OneHolder'
  BY <1>1, HoldersKept
     DEF Probe, InsertLoses, Reread, ClaimLoses, Goto, TypeOK, Holding
<1>2. ASSUME NEW c \in Calls, CheckReads(c) PROVE OneHolder'
  BY <1>2, HoldersKept DEF CheckReads, Goto, TypeOK, Holding
<1>3. ASSUME NEW c \in Calls, FlipLapsed(c) PROVE OneHolder'
  BY <1>3, HoldersKept, FlipSpares
     DEF FlipLapsed, NamesRow, Goto, TypeOK, Holding
<1>4. ASSUME NEW c \in Calls, InsertWins(c) PROVE OneHolder'
  BY <1>4, HoldersKept DEF InsertWins, With, Goto, TypeOK, Holding
<1>5. ASSUME NEW c \in Calls, ClaimWins(c) PROVE OneHolder'
  <2>1. /\ pass[c] \in Rows /\ status[pass[c]] = "approved"
        /\ status' = [status EXCEPT ![pass[c]] = "used"]
        /\ stage' = [stage EXCEPT ![c] = "claimed"]
        /\ pass' = pass
    BY <1>5 DEF ClaimWins, With, Goto
  <2>2. \A d \in Calls : stage[d] \in Holding => pass[d] # pass[c]
    BY <2>1 DEF OneHolder
  <2> QED BY <2>1, <2>2 DEF OneHolder, TypeOK, Holding
<1>6. ASSUME NEW c \in Calls,
             \/ Dispatch(c) \/ TimesOut(c) \/ Dies(c) \/ Retries(c)
             \/ \E b \in BOOLEAN : Answered(c, b)
      PROVE  OneHolder'
  BY <1>6, HoldersKept
     DEF Dispatch, Answered, TimesOut, Dies, Retries, Goto, TypeOK, Holding
<1>7. ASSUME NEW c \in Calls, Settle(c) PROVE OneHolder'
  <2>1. \A d \in Calls : stage'[d] \in Holding =>
          /\ stage[d] \in Holding /\ d # c
          /\ pass'[d] = pass[d]
    BY <1>7 DEF Settle, Goto, TypeOK, Holding
  <2>2. \A d \in Calls : stage'[d] \in Holding => pass[d] # pass[c]
    BY <1>7, <2>1 DEF OneHolder, Settle, Holding
  <2>3. \A i \in Rows : i # pass[c] => status'[i] = status[i]
    BY <1>7 DEF Settle, TypeOK
  <2> QED BY <2>1, <2>2, <2>3 DEF OneHolder
<1>8. ASSUME NEW d \in Deciders, NEW i \in Rows, NEW v \in Verdicts,
             DecideReads(d, i, v)
      PROVE  OneHolder'
  BY <1>8, HoldersKept DEF DecideReads
<1>9. ASSUME NEW d \in Deciders, DecideRefuses(d) PROVE OneHolder'
  BY <1>9, HoldersKept, FlipSpares DEF DecideRefuses, NamesRow
<1>10. ASSUME NEW d \in Deciders, DecideWrites(d) PROVE OneHolder'
  BY <1>10, HoldersKept DEF DecideWrites, TypeOK
<1>11. ASSUME NEW r \in Readers,
              \/ \E sweep \in BOOLEAN : ReadsTable(r, sweep)
              \/ EndsReading(r)
       PROVE  OneHolder'
  BY <1>11, HoldersKept DEF ReadsTable, EndsReading
<1>12. ASSUME NEW r \in Readers, NEW i \in Rows, FlipRead(r, i)
       PROVE  OneHolder'
  BY <1>12, HoldersKept, FlipSpares DEF FlipRead
<1>13. CASE AppTurns \/ Tick \/ UNCHANGED vars
  BY <1>13, HoldersKept DEF AppTurns, Tick, vars
<1> QED
  BY <1>1, <1>2, <1>3, <1>4, <1>5, <1>6, <1>7, <1>8, <1>9, <1>10, <1>11,
     <1>12, <1>13 DEF Next, Step

(* However many identical calls race, one of them holds an approval at a
   time, and the next claim finds it closed until the holder hands it back. *)
THEOREM OneCallHolds == Spec => []OneHolder
<1>1. Init => OneHolder
  BY DEF Init, OneHolder, Holding
<1> QED BY <1>1, TypeInit, TypeStep, OneHolderStep, PTL DEF Spec

-----------------------------------------------------------------------------
(* Expiry is recorded once. *)

LEMMA FlipRecordsOnce ==
  ASSUME TypeOK, ExpiredOnce, NEW i \in Rows, Flip(i)
  PROVE  ExpiredOnce'
<1>1. CASE status[i] = "pending"
  <2>1. "expired" \in Events
    BY DEF Events
  <2>2. ledger[i]["expired"] = 0
    BY <1>1, <2>1 DEF ExpiredOnce, TypeOK
  <2>3. /\ ledger'[i]["expired"] = 1
        /\ status'[i] = "expired"
        /\ \A j \in Rows : j # i =>
             ledger'[j] = ledger[j] /\ status'[j] = status[j]
    BY <1>1, <2>1, <2>2 DEF Flip, Recorded, TypeOK
  <2> QED BY <2>3 DEF ExpiredOnce
<1>2. CASE status[i] # "pending"
  BY <1>2 DEF Flip, ExpiredOnce
<1> QED BY <1>1, <1>2

(* Another event in the ledger says nothing of expiry. *)
LEMMA OtherEvents ==
  ASSUME TypeOK, NEW i \in Rows, NEW event \in Events \ {"expired"},
         ledger' = Recorded(i, event)
  PROVE  \A j \in Rows : ledger'[j]["expired"] = ledger[j]["expired"]
BY DEF Recorded, TypeOK, Events

(* A step that writes no expiry and leaves lapsed rows alone. *)
LEMMA ExpiryKept ==
  ASSUME TypeOK, ExpiredOnce,
         \A i \in Rows : ledger'[i]["expired"] = ledger[i]["expired"],
         \A i \in Rows : status[i] \in {"expired", "pruned"} =>
           status'[i] \in {"expired", "pruned"}
  PROVE  ExpiredOnce'
BY DEF ExpiredOnce

LEMMA ExpiryStep ==
  TypeOK /\ NamesRow /\ OneHolder /\ ExpiredOnce /\ [Next]_vars => ExpiredOnce'
<1> SUFFICES ASSUME TypeOK, NamesRow, OneHolder, ExpiredOnce, [Next]_vars
             PROVE  ExpiredOnce'
  OBVIOUS
<1> USE DEF rowVars, callVars
<1>1. CASE /\ \/ UNCHANGED rowVars
              \/ AppTurns \/ Tick
  BY <1>1 DEF AppTurns, Tick, ExpiredOnce
<1>2. ASSUME NEW c \in Calls, Step(c) \/ Dies(c) \/ Retries(c), ~UNCHANGED rowVars
      PROVE  ExpiredOnce'
  <2>1. CASE FlipLapsed(c)
    BY <2>1, FlipRecordsOnce DEF FlipLapsed, NamesRow
  <2>2. CASE InsertWins(c)
    <3>1. PICK i \in Rows : /\ status[i] = "none"
                            /\ status' = [status EXCEPT ![i] = "pending"]
                            /\ ledger' = Recorded(i, "requested")
      BY <2>2 DEF InsertWins, With
    <3>2. "requested" \in Events \ {"expired"}
      BY DEF Events
    <3> QED BY <3>1, <3>2, OtherEvents, ExpiryKept DEF TypeOK
  <2>3. CASE ClaimWins(c)
    BY <2>3, ExpiryKept DEF ClaimWins, With, TypeOK
  <2>4. CASE Settle(c)
    BY <2>4, ExpiryKept DEF Settle, TypeOK
  <2> QED BY <1>2, <2>1, <2>2, <2>3, <2>4
          DEF Step, Dies, Retries, Probe, CheckReads, InsertLoses, Reread, ClaimLoses,
              Dispatch, Answered, TimesOut
<1>3. ASSUME NEW d \in Deciders, DecideRefuses(d) PROVE ExpiredOnce'
  BY <1>3, FlipRecordsOnce DEF DecideRefuses, NamesRow
<1>4. ASSUME NEW d \in Deciders, DecideWrites(d) PROVE ExpiredOnce'
  <2>1. ruling[d].row \in Rows /\ ruling[d].verdict \in Events \ {"expired"}
    BY <1>4, GateAssumption DEF DecideWrites, NamesRow, TypeOK, Rows, Events,
                                Verdicts
  <2> QED BY <1>4, <2>1, OtherEvents, ExpiryKept DEF DecideWrites, TypeOK
<1>5. ASSUME NEW r \in Readers, EndsReading(r) PROVE ExpiredOnce'
  BY <1>5, ExpiryKept DEF EndsReading, TypeOK
<1>6. ASSUME NEW r \in Readers, NEW i \in Rows, FlipRead(r, i)
      PROVE  ExpiredOnce'
  BY <1>6, FlipRecordsOnce DEF FlipRead
<1> QED
  BY <1>1, <1>2, <1>3, <1>4, <1>5, <1>6 DEF Next, DecideReads, ReadsTable, vars

(* However many readers, deciders and sweeps meet a lapsed row, its expiry is
   recorded at most once, and never for a row that was decided. *)
THEOREM ExpiryRecordedOnce == Spec => []ExpiredOnce
<1>1. Init => ExpiredOnce
  BY DEF Init, ExpiredOnce, Events
<1>2. Init => OneHolder
  BY DEF Init, OneHolder, Holding
<1> QED BY <1>1, <1>2, TypeInit, TypeStep, OneHolderStep, ExpiryStep, PTL
        DEF Spec

-----------------------------------------------------------------------------
(* The gate implements SinglePass. *)

LEMMA HeldKept ==
  ASSUME \A c \in Calls : /\ stage'[c] \in Holding <=> stage[c] \in Holding
                          /\ stage[c] \in Holding => pass'[c] = pass[c]
  PROVE  Held' = Held
BY DEF Held

LEMMA HeldDropped ==
  ASSUME TypeOK, NEW c \in Calls, NEW place, place \notin Holding,
         stage[c] \in Holding, stage' = [stage EXCEPT ![c] = place],
         pass' = pass
  PROVE  Held' = [Held EXCEPT ![c] = 0]
BY DEF Held, TypeOK

LEMMA StandingMoves ==
  ASSUME TypeOK, NEW i \in Rows, NEW word,
         status' = [status EXCEPT ![i] = word]
  PROVE  /\ Standing[i] = Meaning(status[i])
         /\ Standing' = [Standing EXCEPT ![i] = Meaning(word)]
BY DEF Standing, TypeOK

LEMMA Meanings ==
  /\ Meaning("none") = "none"
  /\ Meaning("pending") = "asked"
  /\ Meaning("approved") = "granted"
  /\ Meaning("used") = "taken"
  /\ \A word \in {"rejected", "expired", "pruned"} : Meaning(word) = "closed"
BY DEF Meaning

(* A flip refuses a pending row, or does nothing. *)
LEMMA FlipPermits ==
  ASSUME TypeOK, NEW i \in Rows, Flip(i), Held' = Held
  PROVE  Permit!Refuse(i) \/ UNCHANGED Permit!passVars
<1>1. CASE status[i] = "pending"
  <2>1. Standing[i] = "asked"
    BY <1>1, Meanings DEF Standing
  <2>2. Standing' = [Standing EXCEPT ![i] = "closed"]
    BY <1>1, Meanings, StandingMoves DEF Flip
  <2> QED BY <2>1, <2>2 DEF Permit!Refuse
<1>2. CASE status[i] # "pending"
  BY <1>2 DEF Flip, Standing, Permit!passVars
<1> QED BY <1>1, <1>2

LEMMA PermitCallStep ==
  ASSUME TypeOK, NamesRow, OneHolder, NEW c \in Calls, Step(c) \/ Dies(c) \/ Retries(c)
  PROVE  Permit!PassNext \/ UNCHANGED Permit!passVars
<1> USE DEF rowVars
<1>1. CASE Probe(c) \/ InsertLoses(c) \/ Reread(c) \/ ClaimLoses(c)
  <2>1. Held' = Held
    BY <1>1, HeldKept
       DEF Probe, InsertLoses, Reread, ClaimLoses, Goto, TypeOK, Holding
  <2> QED BY <1>1, <2>1 DEF Probe, InsertLoses, Reread, ClaimLoses, Standing,
                            Permit!passVars
<1>2. CASE CheckReads(c)
  <2>1. Held' = Held
    BY <1>2, HeldKept DEF CheckReads, Goto, TypeOK, Holding
  <2> QED BY <1>2, <2>1 DEF CheckReads, Standing, Permit!passVars
<1>3. CASE FlipLapsed(c)
  <2>1. Held' = Held
    BY <1>3, HeldKept DEF FlipLapsed, Goto, TypeOK, Holding
  <2> QED BY <1>3, <2>1, FlipPermits DEF FlipLapsed, NamesRow, Permit!PassNext
<1>4. CASE InsertWins(c)
  <2>1. PICK i \in Rows : /\ status[i] = "none"
                          /\ status' = [status EXCEPT ![i] = "pending"]
    BY <1>4 DEF InsertWins, With
  <2>2. Held' = Held
    BY <1>4, HeldKept DEF InsertWins, Goto, TypeOK, Holding
  <2>3. /\ Standing[i] = Meaning("none")
        /\ Standing' = [Standing EXCEPT ![i] = Meaning("pending")]
    BY <2>1, StandingMoves
  <2>4. Standing[i] = "none" /\ Standing' = [Standing EXCEPT ![i] = "asked"]
    BY <2>3, Meanings
  <2> QED BY <2>2, <2>4 DEF Permit!Ask, Permit!PassNext
<1>5. CASE ClaimWins(c)
  <2>1. /\ pass[c] \in Rows /\ status[pass[c]] = "approved"
        /\ status' = [status EXCEPT ![pass[c]] = "used"]
        /\ stage' = [stage EXCEPT ![c] = "claimed"]
        /\ pass' = pass /\ stage[c] = "claiming"
    BY <1>5 DEF ClaimWins, With, Goto
  <2>2. Held[c] = 0 /\ Held' = [Held EXCEPT ![c] = pass[c]]
    BY <2>1 DEF Held, TypeOK, Holding
  <2>3. /\ Standing[pass[c]] = "granted"
        /\ Standing' = [Standing EXCEPT ![pass[c]] = "taken"]
    <3>1. /\ Standing[pass[c]] = Meaning("approved")
          /\ Standing' = [Standing EXCEPT ![pass[c]] = Meaning("used")]
      BY <2>1, StandingMoves
    <3> QED BY <3>1, Meanings
  <2> QED BY <2>1, <2>2, <2>3 DEF Permit!Take, Permit!PassNext
<1>6. ASSUME stage[c] \in Holding, UNCHANGED <<status, pass>>,
             NEW place, place \notin Holding, Goto(c, place)
      PROVE  Permit!PassNext
  <2>1. Held' = [Held EXCEPT ![c] = 0] /\ Standing' = Standing
    BY <1>6, HeldDropped DEF Goto, Standing
  <2>2. Held[c] # 0
    BY <1>6, RowsAreRows DEF Held, OneHolder
  <2> QED BY <2>1, <2>2 DEF Permit!LetGo, Permit!PassNext
<1>7. ASSUME stage[c] \in Holding, UNCHANGED <<status, pass>>,
             NEW place \in Holding, Goto(c, place)
      PROVE  UNCHANGED Permit!passVars
  <2>1. Held' = Held
    BY <1>7, HeldKept DEF Goto, TypeOK
  <2> QED BY <1>7, <2>1 DEF Standing, Permit!passVars
<1>8. CASE Dispatch(c)
  BY <1>6, <1>7, <1>8 DEF Dispatch, Holding
<1>9. CASE \E b \in BOOLEAN : Answered(c, b)
  BY <1>6, <1>7, <1>9 DEF Answered, Holding
<1>10. CASE TimesOut(c)
  BY <1>6, <1>10 DEF TimesOut, Holding
<1>11. CASE Settle(c)
  <2>1. /\ pass[c] \in Rows /\ pass[c] # 0
        /\ stage[c] \in Holding /\ Held[c] = pass[c]
        /\ "done" \notin Holding
    BY <1>11, RowsAreRows DEF Settle, OneHolder, Holding, Held
  <2>2. CASE status[pass[c]] = "used"
    <3>1. /\ Standing[pass[c]] = "taken"
          /\ Standing' = [Standing EXCEPT ![pass[c]] = "granted"]
      <4>1. status' = [status EXCEPT ![pass[c]] = "approved"]
        BY <1>11, <2>2 DEF Settle
      <4>2. /\ Standing[pass[c]] = Meaning("used")
            /\ Standing' = [Standing EXCEPT ![pass[c]] = Meaning("approved")]
        BY <2>1, <2>2, <4>1, StandingMoves
      <4> QED BY <4>2, Meanings
    <3>2. Held' = [Held EXCEPT ![c] = 0]
      BY <1>11, <2>1, HeldDropped DEF Settle, Goto
    <3> QED BY <2>1, <3>1, <3>2 DEF Permit!HandBack, Permit!PassNext
  <2>3. CASE status[pass[c]] # "used"
    BY <1>6, <1>11, <2>1, <2>3 DEF Settle, TypeOK
  <2> QED BY <2>2, <2>3
<1>12. CASE Dies(c)
  <2>1. CASE stage[c] \in Holding
    BY <1>6, <1>12, <2>1 DEF Dies, Holding
  <2>2. CASE stage[c] \notin Holding
    <3>1. Held' = Held
      BY <1>12, <2>2, HeldKept DEF Dies, Goto, TypeOK, Holding
    <3> QED BY <1>12, <3>1 DEF Dies, Standing, Permit!passVars
  <2> QED BY <2>1, <2>2
<1>13. CASE Retries(c)
  <2>1. Held' = Held
    BY <1>13, HeldKept DEF Retries, Goto, TypeOK, Holding
  <2> QED BY <1>13, <2>1 DEF Retries, Standing, Permit!passVars
<1> QED BY <1>1, <1>2, <1>3, <1>4, <1>5, <1>8, <1>9, <1>10, <1>11, <1>12,
           <1>13 DEF Step

LEMMA PermitStep ==
  TypeOK /\ NamesRow /\ OneHolder /\ [Next]_vars
    => [Permit!PassNext]_(Permit!passVars)
<1> SUFFICES ASSUME TypeOK, NamesRow, OneHolder, [Next]_vars
             PROVE  Permit!PassNext \/ UNCHANGED Permit!passVars
  OBVIOUS
<1> USE DEF rowVars, callVars
<1>1. CASE \E c \in Calls : Step(c) \/ Dies(c) \/ Retries(c)
  BY <1>1, PermitCallStep
<1>2. ASSUME UNCHANGED <<stage, pass>> PROVE Held' = Held
  BY <1>2 DEF Held
<1>3. ASSUME NEW d \in Deciders, DecideRefuses(d)
      PROVE  Permit!PassNext \/ UNCHANGED Permit!passVars
  BY <1>2, <1>3, FlipPermits DEF DecideRefuses, NamesRow, Permit!PassNext
<1>4. ASSUME NEW d \in Deciders, DecideWrites(d)
      PROVE  Permit!PassNext \/ UNCHANGED Permit!passVars
  <2> DEFINE i == ruling[d].row
             v == ruling[d].verdict
  <2>1. i \in Rows /\ v \in Verdicts
    BY <1>4, GateAssumption DEF DecideWrites, NamesRow, TypeOK, Rows
  <2>2. Held' = Held
    BY <1>2, <1>4 DEF DecideWrites
  <2>3. CASE status[i] = "pending"
    <3>1. status' = [status EXCEPT ![i] = v]
      BY <1>4, <2>3 DEF DecideWrites
    <3>2. /\ Standing[i] = "asked"
          /\ Standing' = [Standing EXCEPT ![i] = Meaning(v)]
      BY <2>1, <2>3, <3>1, Meanings, StandingMoves
    <3>3. Meaning(v) \in {"granted", "closed"}
      BY <2>1, Meanings DEF Verdicts
    <3> QED BY <2>1, <2>2, <3>2, <3>3
            DEF Permit!Grant, Permit!Refuse, Permit!PassNext
  <2>4. CASE status[i] # "pending"
    BY <1>4, <2>1, <2>2, <2>4 DEF DecideWrites, TypeOK, Standing,
                                  Permit!passVars
  <2> QED BY <2>3, <2>4
<1>5. ASSUME NEW r \in Readers, EndsReading(r)
      PROVE  Permit!PassNext \/ UNCHANGED Permit!passVars
  <2> DEFINE old == {i \in Rows : /\ reading[r].sweep
                                  /\ i \in PastRetention(reading[r].at)}
  <2>1. Standing' = [i \in Rows |-> IF i \in old THEN "closed" ELSE Standing[i]]
    BY <1>5, Meanings DEF EndsReading, Standing
  <2>2. Held' = Held /\ old \in SUBSET Rows
    BY <1>2, <1>5 DEF EndsReading
  <2> QED BY <2>1, <2>2 DEF Permit!Forget, Permit!PassNext
<1>6. ASSUME NEW r \in Readers, NEW i \in Rows, FlipRead(r, i)
      PROVE  Permit!PassNext \/ UNCHANGED Permit!passVars
  BY <1>2, <1>6, FlipPermits DEF FlipRead, Permit!PassNext
<1>7. CASE UNCHANGED <<status, stage, pass>>
  BY <1>2, <1>7 DEF Standing, Permit!passVars
<1> QED BY <1>1, <1>3, <1>4, <1>5, <1>6, <1>7
        DEF Next, DecideReads, ReadsTable, AppTurns, Tick, vars

(* The gate implements the single-use pass of its contract: a row goes asked,
   granted, taken; one call holds it; only that call hands it back. *)
THEOREM PassIsSingleUse == Spec => KeepsPermit
<1>1. Init => Permit!PassInit
  BY DEF Init, Permit!PassInit, Held, Standing, Meaning, Holding
<1>2. Init => OneHolder
  BY DEF Init, OneHolder, Holding
<1> QED BY <1>1, <1>2, TypeInit, TypeStep, OneHolderStep, PermitStep, PTL
        DEF Spec, KeepsPermit, Permit!Spec

-----------------------------------------------------------------------------
(* Flip first, prune second. *)

(* A call past its read is within a window of it, so what it inserts was
   created within a window of now; and what a reader will prune is lapsed at
   its reading, the retention being no shorter than the window: a row of these
   that is still pending is on its list. *)
GateSweepInv ==
  /\ \A c \in Calls : stage[c] \in Gate \ {"checking"} => now <= asOf[c] + Window
  /\ \A r \in Readers : reading[r].busy =>
       /\ reading[r].at <= now
       /\ \A i \in PastRetention(reading[r].at) :
            status[i] = "pending" => i \in reading[r].todo

LEMMA PastRetentionIs ==
  ASSUME NEW i \in Rows, NEW at
  PROVE  i \in PastRetention(at) <=>
           status[i] # "none" /\ expires[i] - Window < at - Retention
BY DEF PastRetention, With

(* A step that asks for nothing anew: no row becomes pending, none that exists
   moves in time, and the readers' lists and the clock stand. *)
LEMMA SweepKept ==
  ASSUME TypeOK, GateSweepInv, UNCHANGED <<now, asOf, reading, expires>>,
         \A c \in Calls : stage'[c] \in Gate \ {"checking"} =>
           stage[c] \in Gate \ {"checking"},
         \A i \in Rows : status'[i] = "pending" => status[i] = "pending"
  PROVE  GateSweepInv'
<1>1. ASSUME NEW r \in Readers, reading[r].busy, NEW i \in Rows,
             i \in PastRetention(reading[r].at)', status'[i] = "pending"
      PROVE  i \in reading[r].todo
  <2>1. status[i] = "pending" /\ expires[i] - Window < reading[r].at - Retention
    BY <1>1 DEF PastRetention, With
  <2>2. i \in PastRetention(reading[r].at)
    BY <2>1, PastRetentionIs
  <2> QED BY <1>1, <2>1, <2>2 DEF GateSweepInv
<1>2. \A r \in Readers : PastRetention(reading[r].at)' \subseteq Rows
  BY DEF PastRetention
<1> QED BY <1>1, <1>2 DEF GateSweepInv

LEMMA SweepStep ==
  TypeOK /\ NamesRow /\ GateSweepInv /\ [Next]_vars => GateSweepInv'
<1> SUFFICES ASSUME TypeOK, NamesRow, GateSweepInv, [Next]_vars
             PROVE  GateSweepInv'
  OBVIOUS
<1> USE DEF rowVars, callVars
<1>n. /\ Window \in Nat /\ Retention \in Nat /\ Window <= Retention
      /\ now \in Nat /\ \A i \in Rows : expires[i] \in Nat
      /\ \A c \in Calls : asOf[c] \in Nat
      /\ \A r \in Readers : reading[r].at \in Nat
  BY GateAssumption DEF TypeOK
<1>1. ASSUME NEW c \in Calls,
             \/ Probe(c) \/ FlipLapsed(c) \/ InsertLoses(c) \/ Reread(c) \/ ClaimWins(c)
             \/ ClaimLoses(c) \/ Dispatch(c) \/ \E b \in BOOLEAN : Answered(c, b)
             \/ Settle(c) \/ TimesOut(c) \/ Dies(c)
      PROVE  GateSweepInv'
  <2>1. UNCHANGED <<now, asOf, reading, expires>>
    BY <1>1 DEF Probe, FlipLapsed, InsertLoses, Reread, ClaimWins, ClaimLoses, Dispatch,
                Answered, Settle, TimesOut, Dies
  <2>2. \A d \in Calls : stage'[d] \in Gate \ {"checking"} =>
          stage[d] \in Gate \ {"checking"}
    BY <1>1 DEF Probe, FlipLapsed, InsertLoses, Reread, ClaimWins, ClaimLoses, Dispatch,
                Answered, Settle, TimesOut, Dies, Goto, TypeOK, Gate
  <2>3. \A i \in Rows : status'[i] = "pending" => status[i] = "pending"
    <3>1. CASE FlipLapsed(c)
      BY <3>1, FlipSpares DEF FlipLapsed, NamesRow
    <3>2. CASE ~FlipLapsed(c)
      BY <1>1, <3>2 DEF Probe, InsertLoses, Reread, ClaimWins, ClaimLoses, Dispatch,
                  Answered, Settle, TimesOut, Dies, TypeOK
    <3> QED BY <3>1, <3>2
  <2> QED BY <2>1, <2>2, <2>3, SweepKept
<1>2. ASSUME NEW c \in Calls, CheckReads(c) \/ Retries(c) PROVE GateSweepInv'
  <2>1. UNCHANGED <<now, reading, expires, status>>
    BY <1>2 DEF CheckReads, Retries
  <2>2. /\ \A d \in Calls \ {c} : stage'[d] = stage[d] /\ asOf'[d] = asOf[d]
        /\ stage'[c] = "idle" \/ asOf'[c] = now
    BY <1>2 DEF CheckReads, Retries, Goto, TypeOK
  <2>3. \A d \in Calls : stage'[d] \in Gate \ {"checking"} => now' <= asOf'[d] + Window
    BY <1>n, <2>1, <2>2 DEF GateSweepInv, Gate
  <2>4. \A r \in Readers : PastRetention(reading[r].at)' = PastRetention(reading[r].at)
    BY <2>1 DEF PastRetention, With
  <2> QED BY <2>1, <2>3, <2>4 DEF GateSweepInv
<1>3. ASSUME NEW c \in Calls, InsertWins(c) PROVE GateSweepInv'
  <2>1. PICK i \in Rows : /\ status[i] = "none"
                          /\ status' = [status EXCEPT ![i] = "pending"]
                          /\ expires' = [expires EXCEPT ![i] = asOf[c] + Window]
    BY <1>3 DEF InsertWins, With, ExpiryOf
  <2>2. stage[c] = "inserting" /\ UNCHANGED <<now, asOf, reading>>
        /\ stage' = [stage EXCEPT ![c] = "required"]
    BY <1>3 DEF InsertWins, Goto
  <2>3. now <= asOf[c] + Window
    BY <2>2 DEF GateSweepInv, Gate
  <2>4. ASSUME NEW r \in Readers, reading[r].busy, NEW j \in Rows,
               j \in PastRetention(reading[r].at)', status'[j] = "pending"
        PROVE  j \in reading[r].todo
    <3>1. expires'[j] - Window < reading[r].at - Retention
      BY <2>2, <2>4 DEF PastRetention
    <3>2. reading[r].at <= now
      BY <2>4 DEF GateSweepInv
    <3>3. j # i
      <4>1. SUFFICES ASSUME j = i PROVE FALSE
        OBVIOUS
      <4>2. expires'[j] = asOf[c] + Window
        BY <2>1, <4>1 DEF TypeOK
      <4> QED BY <1>n, <2>3, <3>1, <3>2, <4>2
    <3>4. status[j] = "pending" /\ expires'[j] = expires[j]
      BY <2>1, <2>4, <3>3 DEF TypeOK
    <3>5. j \in PastRetention(reading[r].at)
      BY <3>1, <3>4, PastRetentionIs
    <3> QED BY <2>4, <3>4, <3>5 DEF GateSweepInv
  <2>5. \A d \in Calls : stage'[d] \in Gate \ {"checking"} => now' <= asOf'[d] + Window
    BY <2>2 DEF GateSweepInv, Gate, TypeOK
  <2>6. \A r \in Readers : PastRetention(reading[r].at)' \subseteq Rows
    BY DEF PastRetention
  <2> QED BY <2>2, <2>4, <2>5, <2>6 DEF GateSweepInv
<1>4. ASSUME NEW d \in Deciders, DecideRefuses(d) PROVE GateSweepInv'
  <2>1. UNCHANGED <<now, asOf, reading, expires, stage>>
    BY <1>4 DEF DecideRefuses
  <2>2. \A i \in Rows : status'[i] = "pending" => status[i] = "pending"
    BY <1>4, FlipSpares DEF DecideRefuses, NamesRow
  <2> QED BY <2>1, <2>2, SweepKept
<1>5. ASSUME NEW d \in Deciders, DecideWrites(d) PROVE GateSweepInv'
  <2>1. UNCHANGED <<now, asOf, reading, expires, stage>>
    BY <1>5 DEF DecideWrites
  <2>2. \A i \in Rows : status'[i] = "pending" => status[i] = "pending"
    BY <1>5 DEF DecideWrites, TypeOK, NamesRow, Verdicts
  <2> QED BY <2>1, <2>2, SweepKept
<1>6. ASSUME NEW r \in Readers, NEW sweep \in BOOLEAN, ReadsTable(r, sweep)
      PROVE  GateSweepInv'
  <2>1. /\ UNCHANGED <<now, asOf, expires, stage, status>>
        /\ reading' = [reading EXCEPT ![r] =
             [busy |-> TRUE, sweep |-> sweep,
              todo |-> With("pending") \ LiveAt(now), at |-> now]]
    BY <1>6 DEF ReadsTable
  <2>2. reading'[r].at = now /\ reading'[r].todo = With("pending") \ LiveAt(now)
        /\ \A s \in Readers \ {r} : reading'[s] = reading[s]
    BY <2>1 DEF TypeOK
  <2>3. ASSUME NEW i \in Rows, i \in PastRetention(now), status[i] = "pending"
        PROVE  i \in reading'[r].todo
    <3>1. expires[i] - Window < now - Retention
      BY <2>3 DEF PastRetention
    <3>2. expires[i] < now
      BY <1>n, <3>1
    <3>3. i \notin LiveAt(now)
      BY <1>n, <3>2 DEF LiveAt
    <3> QED BY <2>2, <2>3, <3>3 DEF With
  <2>4. \A at \in Nat : PastRetention(at)' = PastRetention(at) /\ PastRetention(at) \subseteq Rows
    BY <2>1 DEF PastRetention, With
  <2>5. \A s \in Readers : PastRetention(reading[s].at)' = PastRetention(reading'[s].at)
    BY <2>1 DEF PastRetention, With
  <2>6. ASSUME NEW s \in Readers, reading'[s].busy
        PROVE  /\ reading'[s].at <= now'
               /\ \A i \in PastRetention(reading[s].at)' :
                    status'[i] = "pending" => i \in reading'[s].todo
    <3>1. CASE s = r
      <4>1. PastRetention(reading[s].at)' = PastRetention(now) /\ PastRetention(now) \subseteq Rows
        BY <1>n, <2>2, <2>4, <2>5, <3>1
      <4> QED BY <1>n, <2>1, <2>2, <2>3, <3>1, <4>1
    <3>2. CASE s # r
      BY <2>1, <2>2, <2>5, <2>6, <3>2 DEF GateSweepInv
    <3> QED BY <3>1, <3>2
  <2> QED BY <2>1, <2>6 DEF GateSweepInv
<1>7. ASSUME NEW r \in Readers, EndsReading(r) PROVE GateSweepInv'
  <2>1. /\ UNCHANGED <<now, asOf, expires, stage>>
        /\ reading' = [reading EXCEPT ![r] = NoReading]
        /\ \A i \in Rows : status'[i] = status[i] \/ status'[i] = "pruned"
    BY <1>7 DEF EndsReading
  <2>2. \A s \in Readers : reading'[s].busy => reading'[s] = reading[s]
    BY <2>1 DEF TypeOK, NoReading
  <2>3. ASSUME NEW s \in Readers, reading'[s].busy, NEW i \in Rows,
               i \in PastRetention(reading[s].at)', status'[i] = "pending"
        PROVE  i \in reading'[s].todo
    <3>1. status[i] = "pending" /\ expires[i] - Window < reading[s].at - Retention
      BY <2>1, <2>2, <2>3 DEF PastRetention
    <3>2. i \in PastRetention(reading[s].at)
      BY <3>1, PastRetentionIs
    <3> QED BY <2>2, <2>3, <3>1, <3>2 DEF GateSweepInv
  <2>4. \A s \in Readers : PastRetention(reading[s].at)' \subseteq Rows
    BY DEF PastRetention
  <2> QED BY <2>1, <2>2, <2>3, <2>4 DEF GateSweepInv
<1>8. ASSUME NEW r \in Readers, NEW i \in Rows, FlipRead(r, i) PROVE GateSweepInv'
  <2>1. /\ UNCHANGED <<now, asOf, expires, stage>> /\ Flip(i)
        /\ reading' = [reading EXCEPT ![r].todo = @ \ {i}]
    BY <1>8 DEF FlipRead
  <2>2. \A s \in Readers : /\ reading'[s].busy = reading[s].busy
                           /\ reading'[s].at = reading[s].at
                           /\ reading[s].todo \ {i} \subseteq reading'[s].todo
    BY <2>1 DEF TypeOK
  <2>3. /\ status'[i] # "pending"
        /\ \A j \in Rows : status'[j] = "pending" => status[j] = "pending"
    BY <2>1, FlipSpares
  <2>4. ASSUME NEW s \in Readers, reading'[s].busy, NEW j \in Rows,
               j \in PastRetention(reading[s].at)', status'[j] = "pending"
        PROVE  j \in reading'[s].todo
    <3>1. status[j] = "pending" /\ expires[j] - Window < reading[s].at - Retention
      BY <2>1, <2>2, <2>3, <2>4 DEF PastRetention
    <3>2. j \in PastRetention(reading[s].at)
      BY <3>1, PastRetentionIs
    <3>3. j \in reading[s].todo /\ j # i
      BY <2>2, <2>3, <2>4, <3>1, <3>2 DEF GateSweepInv
    <3> QED BY <2>2, <3>3
  <2>5. \A s \in Readers : PastRetention(reading[s].at)' \subseteq Rows
    BY DEF PastRetention
  <2> QED BY <2>1, <2>2, <2>4, <2>5 DEF GateSweepInv
<1>9. CASE Tick
  <2>1. now' = now + 1 /\ UNCHANGED <<asOf, reading, expires, stage, status>> /\ Prompt
    BY <1>9 DEF Tick
  <2>2. \A c \in Calls : stage'[c] \in Gate \ {"checking"} => now' <= asOf'[c] + Window
    BY <1>n, <2>1 DEF Prompt
  <2>3. \A r \in Readers : PastRetention(reading[r].at)' = PastRetention(reading[r].at)
    BY <2>1 DEF PastRetention, With
  <2>4. \A r \in Readers : reading[r].busy => reading'[r].at <= now'
    BY <1>n, <2>1 DEF GateSweepInv
  <2> QED BY <2>1, <2>2, <2>3, <2>4 DEF GateSweepInv
<1>10. ASSUME UNCHANGED <<now, asOf, reading, expires, stage, status>> PROVE GateSweepInv'
  BY <1>10, SweepKept
<1> QED
  BY <1>1, <1>2, <1>3, <1>4, <1>5, <1>6, <1>7, <1>8, <1>9, <1>10
     DEF Next, Step, DecideReads, AppTurns, vars

(* Only the end of a reading prunes, and by then its list is empty. *)
LEMMA PrunesSettled ==
  TypeOK /\ NamesRow /\ GateSweepInv /\ [Next]_vars =>
    \A i \in Rows : status'[i] = "pruned" => status[i] # "pending"
<1> SUFFICES ASSUME TypeOK, NamesRow, GateSweepInv, [Next]_vars,
                    NEW i \in Rows, status'[i] = "pruned", status[i] = "pending"
             PROVE  FALSE
  OBVIOUS
<1> USE DEF rowVars, callVars
<1>1. ASSUME NEW c \in Calls, Step(c) \/ Dies(c) \/ Retries(c) PROVE FALSE
  <2>1. CASE FlipLapsed(c)
    BY <2>1 DEF FlipLapsed, Flip, NamesRow, TypeOK
  <2>2. CASE InsertWins(c) \/ ClaimWins(c) \/ Settle(c)
    BY <2>2 DEF InsertWins, ClaimWins, Settle, TypeOK
  <2> QED BY <1>1, <2>1, <2>2
          DEF Step, Dies, Retries, Probe, CheckReads, InsertLoses, Reread, ClaimLoses,
              Dispatch, Answered, TimesOut
<1>2. ASSUME NEW d \in Deciders, DecideRefuses(d) \/ DecideWrites(d) PROVE FALSE
  BY <1>2 DEF DecideRefuses, DecideWrites, Flip, NamesRow, TypeOK, Verdicts
<1>3. ASSUME NEW r \in Readers, EndsReading(r) PROVE FALSE
  BY <1>3 DEF EndsReading, GateSweepInv
<1>4. ASSUME NEW r \in Readers, NEW j \in Rows, FlipRead(r, j) PROVE FALSE
  BY <1>4 DEF FlipRead, Flip, TypeOK
<1> QED
  BY <1>1, <1>2, <1>3, <1>4 DEF Next, DecideReads, ReadsTable, AppTurns, Tick, vars

(* The sweep prunes no row that still awaits its verdict or its expiry, for
   every retention that is no shorter than the window. *)
THEOREM SweepPrunesSettled == Spec => PrunedWasSettled
<1>1. Init => GateSweepInv
  BY DEF Init, GateSweepInv, NoReading, Gate
<1> QED BY <1>1, TypeInit, TypeStep, SweepStep, PrunesSettled, PTL
        DEF Spec, PrunedWasSettled
=============================================================================
