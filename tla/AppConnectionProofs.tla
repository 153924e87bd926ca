------------------------ MODULE AppConnectionProofs ------------------------
(***************************************************************************)
(* Theorems about AppConnection, for every set of tokens, calls and bells, *)
(* every number of sockets and every deadline and floor.                   *)
(***************************************************************************)
EXTENDS AppConnection, FiniteSetTheorems, WellFoundedInduction, TLAPS

-----------------------------------------------------------------------------
(* The newest attached socket *)

(* A set of sockets has a newest one: among the sets of later sockets one is
   least under inclusion, and it is empty. *)
LEMMA NewestExists ==
  ASSUME NEW S, S \subseteq Sockets, S # {}
  PROVE  \E s \in S : \A t \in S : t <= s
<1> DEFINE Later(s) == {t \in S : t > s}
<1> DEFINE R == StrictSubsetOrdering(S)
<1> DEFINE L == {Later(s) : s \in S}
<1>1. S \subseteq Int
  BY ConstantsAssumption DEF Sockets
<1>2. IsFiniteSet(S)
  <2>1. IsFiniteSet(Sockets)
    BY ConstantsAssumption, FS_Interval DEF Sockets
  <2> QED BY <2>1, FS_Subset
<1>3. IsWellFoundedOn(R, SUBSET S)
  BY <1>2, FS_StrictSubsetOrderingWellFounded, FS_FiniteSubsetsOfFinite
<1>4. L \subseteq SUBSET S /\ L # {}
  OBVIOUS
<1>5. \E X \in L : \A Y \in L : <<Y, X>> \notin R
  <2> HIDE DEF L, R
  <2> QED BY <1>3, <1>4, WFMin
<1>6. PICK s \in S : \A t \in S : <<Later(t), Later(s)>> \notin R
  BY <1>5
<1>7. ASSUME NEW t \in S, t > s PROVE FALSE
  <2>1. Later(t) \subseteq Later(s)
    <3>1. SUFFICES ASSUME NEW u \in S, u > t PROVE u > s
      OBVIOUS
    <3>2. s \in Int /\ t \in Int /\ u \in Int
      BY <1>1
    <3> QED BY <3>1, <3>2, <1>7
  <2>2. t \in Later(s) /\ t \notin Later(t)
    BY <1>1, <1>7
  <2>3. <<Later(t), Later(s)>> \in R
    BY <2>1, <2>2 DEF StrictSubsetOrdering
  <2> QED BY <2>3, <1>6
<1> QED BY <1>1, <1>7

(* socket() answers an attached socket, the newest, whenever there is one. *)
LEMMA CurrentIsNewest ==
  ASSUME Attached # {}
  PROVE  Current \in Attached /\ \A t \in Attached : t <= Current
<1>1. Attached \subseteq Sockets
  BY DEF Attached
<1>2. \E s \in Attached : \A t \in Attached : t <= s
  <2> HIDE DEF Attached
  <2> QED BY <1>1, NewestExists
<1> QED BY <1>2 DEF Current

-----------------------------------------------------------------------------
(* Type correctness *)

LEMMA DrainedType ==
  ASSUME TypeOK, NEW s
  PROVE  Drained(s) \in [Calls -> {"idle", "sent"} \cup Outcomes]
BY DEF TypeOK, Drained, Outcomes

LEMMA DropType ==
  ASSUME TypeOK, NEW s, NEW code \in CloseCodes, Drop(s, code)
  PROVE  /\ wire' \in [Sockets -> {"new", "open", "gone"} \cup CloseCodes]
         /\ call' \in [Calls -> {"idle", "sent"} \cup Outcomes]
<1>1. call' \in [Calls -> {"idle", "sent"} \cup Outcomes]
  BY DrainedType DEF Drop
<1> QED BY <1>1 DEF TypeOK, Drop, Closed

LEMMA ArmedType ==
  ASSUME TypeOK, NEW at \in Nat
  PROVE  Armed(at) \in Nat /\ Armed(at) <= at
         /\ (slot # Unset => Armed(at) <= slot)
BY DEF TypeOK, Armed, Unset

LEMMA AcceptType ==
  ASSUME TypeOK, NEW t \in Tokens \cup {None}, Accept(t),
         arriving' \in [Upgrades -> Tokens \cup {None}]
  PROVE  TypeOK'
<1>1. DeadlineMs \in Nat /\ MaxSockets \in Nat
  BY ConstantsAssumption
<1>2. slot' \in Nat /\ deadline' \in 0 .. DeadlineMs
  BY <1>1, ArmedType DEF Accept
<1> QED BY <1>1, <1>2 DEF TypeOK, Accept, Sockets, callVars, bellVars

LEMMA TypeInit == Init => TypeOK
BY ConstantsAssumption DEF Init, TypeOK, Unset, Sockets, Outcomes, Verdicts

(* Every step keeps the types. *)
LEMMA TypeStep == TypeOK /\ [Next]_vars => TypeOK'
<1> SUFFICES ASSUME TypeOK, [Next]_vars PROVE TypeOK'
  OBVIOUS
<1> USE DEF vars, socketVars, handlerVars, callVars, alarmVars, bellVars
<1>1. ASSUME NEW t \in Tokens, Upgrade(t) PROVE TypeOK'
  BY <1>1, AcceptType DEF Upgrade, TypeOK
<1>2. ASSUME NEW t \in Tokens, Evict(t) PROVE TypeOK'
  <2>1. Drop(Current, "replaced")
    BY <1>2 DEF Evict
  <2>2. /\ wire' \in [Sockets -> {"new", "open", "gone"} \cup CloseCodes]
        /\ call' \in [Calls -> {"idle", "sent"} \cup Outcomes]
    BY <2>1, DropType DEF CloseCodes
  <2> QED BY <1>2, <2>2 DEF Evict, TypeOK
<1>3. ASSUME NEW u \in Upgrades, EvictionRecorded(u) PROVE TypeOK'
  BY <1>3, AcceptType DEF EvictionRecorded, TypeOK
<1>4. ASSUME NEW s \in Sockets, BadFirstFrame(s) PROVE TypeOK'
  <2>1. /\ wire' \in [Sockets -> {"new", "open", "gone"} \cup CloseCodes]
        /\ call' \in [Calls -> {"idle", "sent"} \cup Outcomes]
    BY <1>4, DropType DEF CloseCodes, BadFirstFrame
  <2> QED BY <1>4, <2>1 DEF BadFirstFrame, TypeOK
<1>5. ASSUME NEW s \in Sockets, RegisterFrame(s) PROVE TypeOK'
  BY <1>5 DEF RegisterFrame, TypeOK
<1>6. ASSUME NEW s \in Sockets, NEW v \in Verdicts, UpsertAnswers(s, v)
      PROVE  TypeOK'
  BY <1>6 DEF UpsertAnswers, TypeOK
<1>7. ASSUME NEW s \in Sockets, RegisterStored(s) PROVE TypeOK'
  BY <1>7 DEF RegisterStored, TypeOK
<1>8. ASSUME NEW s \in Sockets, RegisterRefused(s) PROVE TypeOK'
  <2>1. /\ wire' \in [Sockets -> {"new", "open", "gone"} \cup CloseCodes]
        /\ call' \in [Calls -> {"idle", "sent"} \cup Outcomes]
    BY <1>8, DropType DEF CloseCodes, RegisterRefused
  <2> QED BY <1>8, <2>1 DEF RegisterRefused, TypeOK
<1>9. ASSUME NEW s \in Sockets, RegisterFailed(s) PROVE TypeOK'
  BY <1>9 DEF RegisterFailed, TypeOK
<1>10. ASSUME NEW c \in Calls, ForwardOffline(c) PROVE TypeOK'
  BY <1>10 DEF ForwardOffline, TypeOK, Outcomes
<1>11. ASSUME NEW c \in Calls, Forward(c) PROVE TypeOK'
  <2>1. Current \in 0 .. MaxSockets
    BY <1>11, CurrentIsNewest, ConstantsAssumption
       DEF Forward, Live, Attached, Sockets
  <2> QED BY <1>11, <2>1 DEF Forward, TypeOK
<1>12. ASSUME NEW c \in Calls, Execute(c) PROVE TypeOK'
  BY <1>12 DEF Execute, TypeOK
<1>13. ASSUME NEW c \in Calls, NEW o \in {"ok", "timeout"}, Settle(c, o)
       PROVE  TypeOK'
  BY <1>13 DEF Settle, TypeOK, Outcomes
<1>14. ASSUME NEW c \in Calls, CallTimeout(c) PROVE TypeOK'
  BY <1>14 DEF CallTimeout, TypeOK, Outcomes
<1>15. ASSUME NEW s \in Sockets, NEW b \in Bells, Rings(s, b)
       PROVE  TypeOK'
  <2>1. CASE quiet[b] = BellFloor
    BY <1>15, <2>1, ConstantsAssumption DEF Rings, Ring, TypeOK
  <2>2. CASE quiet[b] # BellFloor
    <3>1. BellFloor - quiet[b] \in Nat
      BY ConstantsAssumption DEF TypeOK
    <3>2. Armed(BellFloor - quiet[b]) \in Nat
      BY <3>1, ArmedType
    <3> QED BY <1>15, <2>2, <3>2 DEF Rings, Ring, TypeOK
  <2> QED BY <2>1, <2>2
<1>16. ASSUME BellAlarm PROVE TypeOK'
  BY <1>16, ConstantsAssumption DEF BellAlarm, FlushBells, TypeOK, Unset
<1>17. ASSUME DeadlineAlarm PROVE TypeOK'
  <2>1. /\ wire' \in [Sockets -> {"new", "open", "gone"} \cup CloseCodes]
        /\ call' \in [Calls -> {"idle", "sent"} \cup Outcomes]
    <3>1. CASE Attached # {} /\ ~registered[Current]
      BY <1>17, <3>1, DropType DEF CloseCodes, DeadlineAlarm
    <3>2. CASE ~(Attached # {} /\ ~registered[Current])
      BY <1>17, <3>2 DEF DeadlineAlarm, TypeOK
    <3> QED BY <3>1, <3>2
  <2> QED BY <1>17, <2>1, ConstantsAssumption
          DEF DeadlineAlarm, FlushBells, TypeOK, Unset
<1>18. ASSUME Tick PROVE TypeOK'
  BY <1>18, ConstantsAssumption DEF Tick, Elapsed, TypeOK, Unset
<1>19. ASSUME NEW code \in {"revoked", "archived"}, NEW t, Sever(code, t)
       PROVE  TypeOK'
  <2>1. /\ wire' \in [Sockets -> {"new", "open", "gone"} \cup CloseCodes]
        /\ call' \in [Calls -> {"idle", "sent"} \cup Outcomes]
    <3>1. CASE Attached # {} /\ (t = None \/ opener[Current] = t)
      BY <1>19, <3>1, DropType DEF CloseCodes, Sever
    <3>2. CASE ~(Attached # {} /\ (t = None \/ opener[Current] = t))
      BY <1>19, <3>2 DEF Sever, TypeOK
    <3> QED BY <3>1, <3>2
  <2> QED BY <1>19, <2>1 DEF Sever, TypeOK
<1>20. ASSUME NEW s \in Sockets, PeerCloses(s) PROVE TypeOK'
  <2>1. call' \in [Calls -> {"idle", "sent"} \cup Outcomes]
    BY <1>20, DrainedType DEF PeerCloses
  <2> QED BY <1>20, <2>1 DEF PeerCloses, TypeOK
<1>21. ASSUME Restart PROVE TypeOK'
  BY <1>21 DEF Restart, TypeOK, Outcomes
<1>22. ASSUME UNCHANGED vars PROVE TypeOK'
  BY <1>22 DEF TypeOK
<1>23. ASSUME NEW u \in Upgrades, EvictionFailed(u) PROVE TypeOK'
  BY <1>23 DEF EvictionFailed, TypeOK
<1>24. ASSUME Wipe PROVE TypeOK'
  BY <1>24, ConstantsAssumption DEF Wipe, TypeOK
<1> QED
  BY <1>1, <1>2, <1>3, <1>4, <1>5, <1>6, <1>7, <1>8, <1>9, <1>10, <1>11,
     <1>12, <1>13, <1>14, <1>15, <1>16, <1>17, <1>18, <1>19, <1>20, <1>21,
     <1>22, <1>23, <1>24 DEF Next, Handshake, Calling

(* TypeOK holds of every state the object reaches. *)
THEOREM TypeCorrect == Spec => []TypeOK
BY TypeInit, TypeStep, PTL DEF Spec

-----------------------------------------------------------------------------
(* The alarm slot *)

(* The actions that touch neither timers nor bells. *)
Quiet == UNCHANGED <<deadline, slot, owed, quiet, unheard>>

(* The steps that touch the timers or the bells. *)
LEMMA TimerSteps ==
  ASSUME [Next]_vars
  PROVE  \/ Quiet
         \/ \E t \in Tokens \cup {None} : Accept(t)
         \/ \E u \in Upgrades : EvictionRecorded(u)
         \/ \E s \in Sockets : RegisterStored(s)
         \/ \E s \in Sockets, b \in Bells : Rings(s, b)
         \/ BellAlarm \/ DeadlineAlarm \/ Tick \/ Wipe
BY DEF Next, EvictionFailed, Handshake, Calling, Quiet, vars, alarmVars, bellVars, Upgrade,
       Evict, BadFirstFrame, RegisterFrame, UpsertAnswers, RegisterRefused,
       RegisterFailed, ForwardOffline, Forward, Execute, Settle, CallTimeout,
       Sever, PeerCloses, Restart

LEMMA AlarmAccept ==
  ASSUME TypeOK, AlarmCovers, NEW t, Accept(t)
  PROVE  AlarmCovers'
<1>1. DeadlineMs \in Nat /\ BellFloor \in Nat
  BY ConstantsAssumption
<1>2. /\ slot' \in Nat /\ slot' <= DeadlineMs
      /\ slot # Unset => slot' <= slot
  BY <1>1, ArmedType DEF Accept
<1>3. deadline' = DeadlineMs /\ UNCHANGED <<owed, quiet, unheard>>
  BY DEF Accept, bellVars
<1> QED BY <1>1, <1>2, <1>3 DEF AlarmCovers, TypeOK, Unset

LEMMA AlarmRing ==
  ASSUME TypeOK, AlarmCovers, NEW s, NEW b \in Bells, Rings(s, b)
  PROVE  AlarmCovers'
<1>1. BellFloor \in Nat /\ DeadlineMs \in Nat
  BY ConstantsAssumption
<1>2. CASE quiet[b] = BellFloor
  <2>1. /\ deadline' = deadline /\ slot' = slot /\ owed' = owed
        /\ quiet' = [quiet EXCEPT ![b] = 0]
        /\ unheard' = unheard \ {b}
    BY <1>2 DEF Rings, Ring
  <2> QED BY <2>1, <1>1, <1>2 DEF AlarmCovers, TypeOK, Unset
<1>3. CASE quiet[b] # BellFloor
  <2>1. BellFloor - quiet[b] \in Nat
    BY <1>1 DEF TypeOK
  <2>2. /\ deadline' = deadline /\ owed' = owed \cup {b} /\ quiet' = quiet
        /\ slot' = Armed(BellFloor - quiet[b])
        /\ unheard' = unheard \cup {b}
    BY <1>3 DEF Rings, Ring
  <2>3. /\ slot' \in Nat /\ slot' <= BellFloor - quiet[b]
        /\ slot # Unset => slot' <= slot
    BY <2>1, <2>2, ArmedType
  <2> QED BY <1>1, <2>1, <2>2, <2>3 DEF AlarmCovers, TypeOK, Unset
<1> QED BY <1>2, <1>3

LEMMA AlarmTick ==
  ASSUME TypeOK, AlarmCovers, Tick
  PROVE  AlarmCovers'
<1>1. BellFloor \in Nat /\ DeadlineMs \in Nat
  BY ConstantsAssumption
<1>2. deadline' # Unset => slot' # Unset /\ slot' <= deadline'
  BY <1>1 DEF AlarmCovers, TypeOK, Tick, Elapsed, Unset
<1>3. ASSUME NEW b \in owed
      PROVE  slot' # Unset /\ slot' <= BellFloor - quiet'[b]
  <2>1. b \in Bells /\ quiet[b] \in 0 .. BellFloor
    BY DEF TypeOK
  <2>2. quiet'[b] = IF quiet[b] < BellFloor THEN quiet[b] + 1 ELSE quiet[b]
    BY <2>1 DEF Tick
  <2>3. slot \in Nat /\ slot <= BellFloor - quiet[b]
    BY DEF AlarmCovers, TypeOK
  <2> QED BY <1>1, <2>1, <2>2, <2>3 DEF Tick, Elapsed, Unset
<1> QED BY <1>2, <1>3 DEF AlarmCovers, Tick

LEMMA AlarmStep == TypeOK /\ AlarmCovers /\ [Next]_vars => AlarmCovers'
<1> SUFFICES ASSUME TypeOK, AlarmCovers, [Next]_vars PROVE AlarmCovers'
  OBVIOUS
<1>1. CASE Quiet
  BY <1>1 DEF Quiet, AlarmCovers
<1>2. CASE \E t \in Tokens \cup {None} : Accept(t)
  BY <1>2, AlarmAccept
<1>3. CASE \E u \in Upgrades : EvictionRecorded(u)
  BY <1>3, AlarmAccept DEF EvictionRecorded
<1>4. CASE \E s \in Sockets : RegisterStored(s)
  BY <1>4 DEF RegisterStored, bellVars, AlarmCovers
<1>5. CASE \E s \in Sockets, b \in Bells : Rings(s, b)
  BY <1>5, AlarmRing
<1>6. CASE BellAlarm
  BY <1>6 DEF BellAlarm, FlushBells, AlarmCovers, TypeOK
<1>7. CASE DeadlineAlarm
  BY <1>7 DEF DeadlineAlarm, FlushBells, AlarmCovers
<1>8. CASE Tick
  BY <1>8, AlarmTick
<1>9. CASE Wipe
  BY <1>9 DEF Wipe, AlarmCovers
<1> QED BY <1>1, <1>2, <1>3, <1>4, <1>5, <1>6, <1>7, <1>8, <1>9, TimerSteps

(* The alarm is always set in time for each of its two purposes, and a bell
   asked of ring() is owed in storage until it goes out, however the handlers
   interleave, however late the alarm fires and wherever the object restarts
   (armAlarm, ring, alarm). *)
THEOREM AlarmAlwaysCovers == Spec => []AlarmCovers
<1>1. Init => AlarmCovers
  BY DEF Init, AlarmCovers
<1> QED BY <1>1, AlarmStep, TypeCorrect, PTL DEF Spec

-----------------------------------------------------------------------------
(* The slot of the one socket *)

(* What the slot looks like while upgrades are served one at a time: only the
   last accepted socket can be open, and nothing is open while an upgrade is
   parked behind its eviction.  The object does not serve them so (fetch()
   awaits an audit row in between); AppLifecycleProofs builds on this for the
   objects where they happen to come one by one. *)
SlotInv ==
  /\ \A s \in Sockets : wire[s] # "new" => s <= accepted
  /\ \A s \in Sockets : wire[s] = "open" => s = accepted
  /\ (\E u \in Upgrades : arriving[u] # None)
       => \A s \in Sockets : wire[s] # "open"

(* A step that closes sockets, accepts none and parks no upgrade. *)
LEMMA ClosingKeepsSlot ==
  ASSUME SlotInv, UNCHANGED <<accepted, arriving>>,
         \A s \in Sockets : /\ wire'[s] = "open" => wire[s] = "open"
                            /\ wire[s] = "new" => wire'[s] = "new"
  PROVE  SlotInv'
BY DEF SlotInv

LEMMA DropCloses ==
  ASSUME TypeOK, NEW s, NEW code \in CloseCodes, Drop(s, code)
  PROVE  \A t \in Sockets : /\ wire'[t] = "open" => wire[t] = "open"
                            /\ wire[t] = "new" => wire'[t] = "new"
BY DEF TypeOK, Drop, Closed, CloseCodes

LEMMA AcceptKeepsSlot ==
  ASSUME TypeOK, SlotInv, NEW t, Accept(t),
         \A s \in Sockets : wire[s] # "open",
         \A u \in Upgrades : arriving'[u] = None
  PROVE  SlotInv'
<1>1. accepted \in Nat /\ accepted + 1 \in Sockets
  BY ConstantsAssumption DEF Accept, TypeOK, Sockets
<1>2. /\ accepted' = accepted + 1
      /\ \A s \in Sockets :
           wire'[s] = IF s = accepted + 1 THEN "open" ELSE wire[s]
  BY <1>1 DEF Accept, TypeOK
<1>3. \A s \in Sockets : s \in Nat
  BY ConstantsAssumption DEF Sockets
<1> QED BY <1>1, <1>2, <1>3 DEF SlotInv

(* The one socket that can be open is the one socket() answers. *)
LEMMA OpenIsCurrent ==
  ASSUME TypeOK, SlotInv, NEW s \in Sockets, wire[s] = "open"
  PROVE  Attached # {} /\ s = Current
<1>1. s \in Attached
  BY DEF Attached
<1>2. Current \in Attached /\ s <= Current
  BY <1>1, CurrentIsNewest
<1>3. Current \in Nat /\ accepted \in Nat /\ Current <= accepted
  BY <1>2, ConstantsAssumption DEF Attached, SlotInv, TypeOK, Sockets, CloseCodes
<1>4. s = accepted
  BY DEF SlotInv
<1> QED BY <1>1, <1>2, <1>3, <1>4

LEMMA DropClosesAll ==
  ASSUME TypeOK, SlotInv, NEW code \in CloseCodes, Drop(Current, code)
  PROVE  \A s \in Sockets : wire'[s] # "open"
BY OpenIsCurrent DEF Drop, Closed, TypeOK, CloseCodes

LEMMA SlotStep ==
  ASSUME \A u, v \in Upgrades : u = v
  PROVE  TypeOK /\ SlotInv /\ [Next]_vars => SlotInv'
<1> SUFFICES ASSUME TypeOK, SlotInv, [Next]_vars PROVE SlotInv'
  OBVIOUS
<1> USE DEF socketVars, handlerVars
<1>1. CASE \E t \in Tokens : Upgrade(t)
  BY <1>1, AcceptKeepsSlot DEF Upgrade, Attached
<1>2. CASE \E t \in Tokens : Evict(t)
  BY <1>2, DropClosesAll, DropCloses DEF Evict, SlotInv, CloseCodes
<1>3. CASE \E u \in Upgrades : EvictionRecorded(u)
  <2>1. PICK u \in Upgrades : EvictionRecorded(u)
    BY <1>3
  <2>2. \A s \in Sockets : wire[s] # "open"
    BY <2>1 DEF EvictionRecorded, SlotInv
  <2>3. \A v \in Upgrades : arriving'[v] = None
    BY <2>1 DEF EvictionRecorded, TypeOK
  <2> QED BY <2>1, <2>2, <2>3, AcceptKeepsSlot DEF EvictionRecorded
<1>4. CASE \E s \in Sockets : BadFirstFrame(s)
  BY <1>4, DropCloses, ClosingKeepsSlot DEF BadFirstFrame, CloseCodes
<1>5. CASE \E s \in Sockets : RegisterRefused(s)
  BY <1>5, DropCloses, ClosingKeepsSlot DEF RegisterRefused, CloseCodes
<1>6. CASE DeadlineAlarm
  BY <1>6, DropCloses, ClosingKeepsSlot DEF DeadlineAlarm, CloseCodes
<1>7. CASE \E code \in {"revoked", "archived"}, t \in Tokens \cup {None} :
             Sever(code, t)
  BY <1>7, DropCloses, ClosingKeepsSlot DEF Sever, CloseCodes
<1>8. CASE \E s \in Sockets : PeerCloses(s)
  BY <1>8, ClosingKeepsSlot DEF PeerCloses, TypeOK, Attached, CloseCodes
<1>9. CASE Restart
  BY <1>9 DEF Restart, TypeOK, Attached, CloseCodes, SlotInv
<1>10. CASE UNCHANGED <<accepted, arriving, wire>>
  BY <1>10 DEF SlotInv
<1>11. CASE \E u \in Upgrades : EvictionFailed(u)
  BY <1>11 DEF EvictionFailed, SlotInv, TypeOK
<1> QED
  BY <1>1, <1>2, <1>3, <1>4, <1>5, <1>6, <1>7, <1>8, <1>9, <1>10, <1>11
     DEF Next, Handshake, Calling, vars, Wipe, RegisterFrame, UpsertAnswers,
         RegisterStored, RegisterFailed, ForwardOffline, Forward, Execute,
         Settle, CallTimeout, Rings, BellAlarm, Tick

-----------------------------------------------------------------------------
(* What happens to a call *)

(* A step that no call notices: no open socket closes. *)
NoCallMoves ==
  /\ UNCHANGED callVars
  /\ \A s \in Sockets : /\ wire[s] = "open" => wire'[s] = "open"
                        /\ registered[s] => registered'[s]

(* A step that ends what socket s carries: no other open socket closes. *)
SocketEnds(s) ==
  /\ call' = Drained(s)
  /\ UNCHANGED <<carrier, executed, registered>>
  /\ \A t \in Sockets \ {s} : wire[t] = "open" => wire'[t] = "open"
  /\ s \in Sockets => wire'[s] # "open"

LEMMA DropEnds ==
  ASSUME TypeOK, NEW s, NEW code \in CloseCodes, Drop(s, code),
         UNCHANGED <<carrier, executed, registered>>
  PROVE  SocketEnds(s)
BY DEF Drop, Closed, SocketEnds, TypeOK, CloseCodes

LEMMA CallSteps ==
  ASSUME TypeOK, [Next]_vars
  PROVE  \/ NoCallMoves
         \/ \E s \in Sockets \cup {Current} : SocketEnds(s)
         \/ Calling
         \/ Restart
<1> USE DEF vars, socketVars, handlerVars, callVars
<1>1. CASE \/ \E t \in Tokens : Upgrade(t)
           \/ \E u \in Upgrades : EvictionRecorded(u)
  BY <1>1 DEF Upgrade, EvictionRecorded, Accept, NoCallMoves, TypeOK
<1>2. CASE \E t \in Tokens : Evict(t)
  BY <1>2, DropEnds DEF Evict, CloseCodes
<1>3. CASE \E s \in Sockets : BadFirstFrame(s)
  BY <1>3, DropEnds DEF BadFirstFrame, CloseCodes
<1>4. CASE \E s \in Sockets : RegisterRefused(s)
  BY <1>4, DropEnds DEF RegisterRefused, CloseCodes
<1>5. CASE DeadlineAlarm
  BY <1>5, DropEnds DEF DeadlineAlarm, NoCallMoves, CloseCodes
<1>6. CASE \E code \in {"revoked", "archived"}, t \in Tokens \cup {None} :
             Sever(code, t)
  BY <1>6, DropEnds DEF Sever, NoCallMoves, CloseCodes
<1>7. CASE \E s \in Sockets : PeerCloses(s)
  BY <1>7 DEF PeerCloses, SocketEnds, TypeOK
<1>8. CASE \E s \in Sockets : RegisterStored(s)
  BY <1>8 DEF RegisterStored, NoCallMoves, TypeOK
<1>9. CASE UNCHANGED <<wire, registered, callVars>>
  BY <1>9 DEF NoCallMoves
<1> QED
  BY <1>1, <1>2, <1>3, <1>4, <1>5, <1>6, <1>7, <1>8, <1>9
     DEF Next, Handshake, RegisterFrame, UpsertAnswers, RegisterFailed,
         Rings, BellAlarm, Tick, Wipe, EvictionFailed

(* A call that was not sent left no frame, an executed one did, and one in
   flight can still be answered. *)
CallInv ==
  /\ \A c \in Calls : call[c] \in {"idle", "offline"} => carrier[c] = 0
  /\ \A c \in executed : carrier[c] # 0
  /\ InFlightIsAnswerable

LEMMA CallStep == TypeOK /\ CallInv /\ [Next]_vars => CallInv'
<1> SUFFICES ASSUME TypeOK, CallInv, [Next]_vars PROVE CallInv'
  OBVIOUS
<1>1. CASE NoCallMoves
  BY <1>1 DEF NoCallMoves, callVars, CallInv, InFlightIsAnswerable
<1>2. ASSUME NEW s \in Sockets \cup {Current}, SocketEnds(s) PROVE CallInv'
  <2>1. ASSUME NEW c \in Calls
        PROVE  /\ call'[c] \in {"idle", "offline"} => call'[c] = call[c]
               /\ call'[c] = "sent" => call[c] = "sent" /\ carrier[c] # s
    BY <1>2 DEF SocketEnds, Drained
  <2> QED BY <1>2, <2>1 DEF SocketEnds, CallInv, InFlightIsAnswerable, TypeOK
<1>3. ASSUME NEW c \in Calls, ForwardOffline(c) PROVE CallInv'
  BY <1>3 DEF ForwardOffline, socketVars, CallInv, InFlightIsAnswerable, TypeOK
<1>4. ASSUME NEW c \in Calls, Forward(c) PROVE CallInv'
  <2>1. Current \in Sockets /\ Current # 0
    BY <1>4, CurrentIsNewest, ConstantsAssumption
       DEF Forward, Live, Attached, Sockets
  <2> QED BY <1>4, <2>1
          DEF Forward, Live, socketVars, CallInv, InFlightIsAnswerable, TypeOK
<1>5. ASSUME NEW c \in Calls, Execute(c) PROVE CallInv'
  BY <1>5 DEF Execute, socketVars, CallInv, InFlightIsAnswerable
<1>6. ASSUME NEW c \in Calls, NEW o \in {"ok", "timeout"}, Settle(c, o)
      PROVE  CallInv'
  BY <1>6 DEF Settle, socketVars, CallInv, InFlightIsAnswerable, TypeOK
<1>7. ASSUME NEW c \in Calls, CallTimeout(c) PROVE CallInv'
  BY <1>7 DEF CallTimeout, socketVars, CallInv, InFlightIsAnswerable, TypeOK
<1>8. CASE Restart
  <2>1. \A c \in Calls : /\ call'[c] # "sent"
                         /\ call'[c] \in {"idle", "offline"} => call'[c] = call[c]
    BY <1>8 DEF Restart
  <2> QED BY <1>8, <2>1 DEF Restart, CallInv, InFlightIsAnswerable
<1> QED
  BY <1>1, <1>2, <1>3, <1>4, <1>5, <1>6, <1>7, <1>8, CallSteps DEF Calling

LEMMA CallInvariant == Spec => []CallInv
<1>1. Init => CallInv
  BY DEF Init, CallInv, InFlightIsAnswerable
<1> QED BY <1>1, CallStep, TypeCorrect, PTL DEF Spec

(* No waiter is ever left on a socket that can no longer answer it. *)
THEOREM InFlightAlwaysAnswerable == Spec => []InFlightIsAnswerable
<1>1. CallInv => InFlightIsAnswerable
  BY DEF CallInv
<1> QED BY <1>1, CallInvariant, PTL

(* A call reported offline never ran: the audit row may be believed. *)
THEOREM OfflineIsTruthful == Spec => []OfflineNeverRan
<1>1. CallInv => OfflineNeverRan
  BY DEF CallInv, OfflineNeverRan
<1> QED BY <1>1, CallInvariant, PTL

(* A call fails as disconnected only in the step that ends its own socket. *)
THEOREM DrainStaysScoped == Spec => DrainIsScoped
<1> DEFINE Scoped ==
      \A c \in Calls :
        call[c] = "sent" /\ call'[c] = "disconnected"
          => wire[carrier[c]] = "open" /\ wire'[carrier[c]] # "open"
<1>1. TypeOK /\ CallInv /\ [Next]_vars => Scoped
  <2> SUFFICES ASSUME TypeOK, CallInv, [Next]_vars,
                      NEW c \in Calls, call[c] = "sent",
                      call'[c] = "disconnected"
               PROVE  wire[carrier[c]] = "open" /\ wire'[carrier[c]] # "open"
    OBVIOUS
  <2>1. carrier[c] \in Sockets /\ wire[carrier[c]] = "open"
    BY DEF CallInv, InFlightIsAnswerable
  <2>2. ~NoCallMoves
    BY DEF NoCallMoves, callVars
  <2>3. ~Calling
    BY DEF Calling, ForwardOffline, Forward, Execute, Settle, CallTimeout,
           TypeOK
  <2>4. ~Restart
    BY DEF Restart
  <2>5. PICK s \in Sockets \cup {Current} : SocketEnds(s)
    BY <2>2, <2>3, <2>4, CallSteps
  <2>6. carrier[c] = s
    BY <2>5 DEF SocketEnds, Drained
  <2> QED BY <2>1, <2>5, <2>6 DEF SocketEnds
<1>2. Scoped => [Scoped]_vars
  OBVIOUS
<1> QED BY <1>1, CallInvariant, TypeCorrect, PTL DEF Spec, DrainIsScoped

(* The object implements CallPromise: its first state is one of the promise,
   and each step refuses, sends, runs or ends calls, or changes none. *)
THEOREM PromiseIsKept == Spec => KeepsPromise
<1>1. Init => Promise!Init
  BY DEF Init, Promise!Init
<1>2. TypeOK /\ CallInv /\ [Next]_vars => [Promise!Next]_(Promise!vars)
  <2> SUFFICES ASSUME TypeOK, CallInv, [Next]_vars
               PROVE  Promise!Next \/ UNCHANGED <<call, executed>>
    BY DEF Promise!vars
  <2>1. CASE NoCallMoves
    BY <2>1 DEF NoCallMoves, callVars
  <2>2. ASSUME NEW s \in Sockets \cup {Current}, SocketEnds(s)
        PROVE  Promise!Next
    <3> DEFINE C == {c \in Calls : call[c] = "sent" /\ carrier[c] = s}
    <3>1. call' = [c \in Calls |-> IF c \in C THEN "disconnected" ELSE call[c]]
      BY <2>2 DEF SocketEnds, Drained
    <3>2. Promise!End(C, "disconnected")
      BY <2>2, <3>1 DEF Promise!End, SocketEnds
    <3> QED BY <3>2 DEF Promise!Next, Promise!AfterLeaving
  <2>3. ASSUME NEW c \in Calls, ForwardOffline(c) PROVE Promise!Next
    BY <2>3 DEF ForwardOffline, Promise!Refuse, Promise!Next
  <2>4. ASSUME NEW c \in Calls, Forward(c) PROVE Promise!Next
    BY <2>4 DEF Forward, Promise!Leave, Promise!Next
  <2>5. ASSUME NEW c \in Calls, Execute(c) PROVE Promise!Next
    <3>1. call[c] \in {"sent"} \cup Promise!AfterLeaving
      BY <2>5 DEF Execute, CallInv, TypeOK, Outcomes, Promise!AfterLeaving
    <3> QED BY <2>5, <3>1 DEF Execute, Promise!Run, Promise!Next
  <2>6. ASSUME NEW c \in Calls, NEW o \in {"ok", "timeout"},
               call[c] = "sent", o = "ok" => c \in executed,
               call' = [call EXCEPT ![c] = o], UNCHANGED executed
        PROVE  Promise!Next
    <3>1. call' = [d \in Calls |-> IF d \in {c} THEN o ELSE call[d]]
      BY <2>6 DEF TypeOK
    <3>2. Promise!End({c}, o)
      BY <2>6, <3>1 DEF Promise!End
    <3> QED BY <3>2 DEF Promise!Next, Promise!AfterLeaving
  <2>7. CASE Restart
    <3> DEFINE C == {c \in Calls : call[c] = "sent"}
    <3>1. call' = [c \in Calls |-> IF c \in C THEN "unreachable" ELSE call[c]]
      BY <2>7 DEF Restart
    <3>2. Promise!End(C, "unreachable")
      BY <2>7, <3>1 DEF Promise!End, Restart
    <3> QED BY <3>2 DEF Promise!Next, Promise!AfterLeaving
  <2> QED
    BY <2>1, <2>2, <2>3, <2>4, <2>5, <2>6, <2>7, CallSteps
       DEF Calling, Settle, CallTimeout
<1> QED BY <1>1, <1>2, CallInvariant, TypeCorrect, PTL
        DEF Spec, KeepsPromise, Promise!Spec

-----------------------------------------------------------------------------
(* The handshake window *)

(* The stored deadline never runs ahead of the window of a socket that is
   still unregistered: it was stored no earlier than that socket's accept. *)
WindowInv ==
  deadline # Unset =>
    \A s \in Sockets :
      wire[s] = "open" /\ ~registered[s] => age[s] >= DeadlineMs - deadline

LEMMA WindowStep == TypeOK /\ WindowInv /\ [Next]_vars => WindowInv'
<1> SUFFICES ASSUME TypeOK, WindowInv, [Next]_vars PROVE WindowInv'
  OBVIOUS
<1>0. DeadlineMs \in Nat
  BY ConstantsAssumption
<1>1. ASSUME NEW t, Accept(t) PROVE WindowInv'
  BY <1>0, <1>1 DEF Accept, WindowInv, TypeOK
<1>2. CASE \/ \E t \in Tokens : Upgrade(t)
           \/ \E u \in Upgrades : EvictionRecorded(u)
  BY <1>1, <1>2 DEF Upgrade, EvictionRecorded
<1>3. ASSUME NEW s, NEW code \in CloseCodes, Drop(s, code),
             UNCHANGED <<registered, age, deadline>>
      PROVE  WindowInv'
  BY <1>3, DropCloses DEF WindowInv
<1>4. CASE \E t \in Tokens : Evict(t)
  BY <1>3, <1>4 DEF Evict, CloseCodes, alarmVars
<1>5. CASE \E s \in Sockets : BadFirstFrame(s)
  BY <1>3, <1>5 DEF BadFirstFrame, CloseCodes, alarmVars
<1>6. CASE \E s \in Sockets : RegisterRefused(s)
  BY <1>3, <1>6 DEF RegisterRefused, CloseCodes, alarmVars
<1>7. CASE DeadlineAlarm \/ Wipe \/ \E s \in Sockets : RegisterStored(s)
  BY <1>7 DEF DeadlineAlarm, Wipe, RegisterStored, WindowInv
<1>8. ASSUME NEW code \in {"revoked", "archived"}, NEW t, Sever(code, t)
      PROVE  WindowInv'
  <2>1. CASE Attached # {} /\ (t = None \/ opener[Current] = t)
    BY <1>3, <1>8, <2>1 DEF Sever, CloseCodes, alarmVars
  <2>2. CASE ~(Attached # {} /\ (t = None \/ opener[Current] = t))
    BY <1>8, <2>2 DEF Sever, alarmVars, WindowInv
  <2> QED BY <2>1, <2>2
<1>9. CASE Tick
  <2>1. ASSUME NEW s \in Sockets, deadline' # Unset,
               wire[s] = "open", ~registered[s]
        PROVE  age'[s] >= DeadlineMs - deadline'
    <3>1. /\ deadline \in 0 .. DeadlineMs
          /\ age[s] \in 0 .. DeadlineMs /\ age[s] >= DeadlineMs - deadline
      BY <1>9, <2>1 DEF Tick, Elapsed, WindowInv, TypeOK, Unset
    <3>2. age'[s] = IF age[s] < DeadlineMs THEN age[s] + 1 ELSE age[s]
      BY <1>9, <2>1 DEF Tick
    <3> QED BY <1>0, <1>9, <3>1, <3>2 DEF Tick, Elapsed
  <2> QED BY <1>9, <2>1 DEF Tick, WindowInv
<1>10. CASE \E s \in Sockets : PeerCloses(s)
  BY <1>10 DEF PeerCloses, alarmVars, WindowInv, TypeOK
<1>11. CASE Restart
  BY <1>11 DEF Restart, alarmVars, WindowInv, Attached
<1>12. CASE UNCHANGED <<deadline, wire, registered, age>>
  BY <1>12 DEF WindowInv
<1> QED
  BY <1>2, <1>4, <1>5, <1>6, <1>7, <1>8, <1>9, <1>10, <1>11, <1>12
     DEF Next, Handshake, Calling, vars, socketVars, alarmVars, RegisterFrame,
         UpsertAnswers, RegisterFailed, ForwardOffline, Forward, Execute,
         Settle, CallTimeout, Rings, BellAlarm, EvictionFailed

(* A firing that bells own never closes a socket inside its window. *)
THEOREM CoalescerAlwaysSpares == Spec => CoalescerSparesHandshake
<1> DEFINE Spared ==
      \A s \in Sockets :
        owed # {} /\ slot = 0 /\ owed' = {}
          /\ wire[s] = "open" /\ wire'[s] # "open"
          => age[s] = DeadlineMs
<1>1. Init => WindowInv
  BY DEF Init, WindowInv
<1>2. TypeOK /\ WindowInv /\ [Next]_vars => Spared
  <2> SUFFICES ASSUME TypeOK, WindowInv, [Next]_vars, NEW s \in Sockets,
                      owed # {}, owed' = {},
                      wire[s] = "open", wire'[s] # "open"
               PROVE  age[s] = DeadlineMs
    OBVIOUS
  <2>1. DeadlineAlarm
    BY TimerSteps
       DEF Quiet, Accept, EvictionRecorded, RegisterStored, Rings,
           Ring, BellAlarm, Tick, Wipe, bellVars, socketVars
  <2>2. deadline = 0
    BY <2>1 DEF DeadlineAlarm
  <2>3. Attached # {} /\ ~registered[Current] /\ s = Current
    BY <2>1 DEF DeadlineAlarm, Drop, Closed, TypeOK
  <2>4. age[s] >= DeadlineMs /\ age[s] \in 0 .. DeadlineMs
    BY <2>2, <2>3, ConstantsAssumption DEF WindowInv, TypeOK, Unset
  <2> QED BY <2>4, ConstantsAssumption
<1> QED BY <1>1, <1>2, WindowStep, TypeCorrect, PTL
        DEF Spec, CoalescerSparesHandshake

(* A stored deadline has an alarm of its own: set for its instant, or set for
   a bell that gives the slot back to it. *)
OwnAlarm == deadline # Unset => slot = deadline \/ owed # {}

(* No socket is accepted over an alarm that asks for nothing any more. *)
FreshSlot == accepted' # accepted => slot = Unset \/ owed # {}

LEMMA OwnAlarmStep ==
  TypeOK /\ OwnAlarm /\ FreshSlot /\ [Next]_vars => OwnAlarm'
<1> SUFFICES ASSUME TypeOK, OwnAlarm, FreshSlot, [Next]_vars PROVE OwnAlarm'
  OBVIOUS
<1>1. CASE Quiet
  BY <1>1 DEF Quiet, OwnAlarm
<1>2. ASSUME NEW t, Accept(t) PROVE OwnAlarm'
  <2>1. accepted' # accepted
    BY <1>2 DEF Accept, TypeOK
  <2>2. owed' = owed /\ deadline' = DeadlineMs /\ slot' = Armed(DeadlineMs)
    BY <1>2 DEF Accept, bellVars
  <2> QED BY <2>1, <2>2 DEF FreshSlot, OwnAlarm, Armed
<1>3. CASE Wipe \/ DeadlineAlarm \/ \E s \in Sockets : RegisterStored(s)
  BY <1>3 DEF Wipe, DeadlineAlarm, RegisterStored, OwnAlarm
<1>4. CASE \E s \in Sockets, b \in Bells : Rings(s, b)
  BY <1>4 DEF Rings, Ring, OwnAlarm
<1>5. CASE BellAlarm
  BY <1>5 DEF BellAlarm, OwnAlarm
<1>6. CASE Tick
  BY <1>6 DEF Tick, Elapsed, OwnAlarm, TypeOK, Unset
<1> QED BY <1>1, <1>2, <1>3, <1>4, <1>5, <1>6, TimerSteps DEF EvictionRecorded

(* A missed deadline closes only a socket that had its whole window, provided
   that no socket is accepted over an alarm left behind by an earlier one. *)
THEOREM FreshSlotKeepsWindow == Spec /\ [][FreshSlot]_vars => WindowIsKept
<1> DEFINE Kept == \A s \in Sockets :
                     DeadlineAlarm /\ wire[s] = "open" /\ wire'[s] # "open"
                       => age[s] = DeadlineMs
<1>1. Init => WindowInv /\ OwnAlarm
  BY DEF Init, WindowInv, OwnAlarm
<1>2. TypeOK /\ WindowInv /\ OwnAlarm => Kept
  <2> SUFFICES ASSUME TypeOK, WindowInv, OwnAlarm, NEW s \in Sockets,
                      DeadlineAlarm, wire[s] = "open", wire'[s] # "open"
               PROVE  age[s] = DeadlineMs
    OBVIOUS
  <2>1. deadline = 0
    BY DEF DeadlineAlarm, OwnAlarm
  <2>2. ~registered[s]
    BY DEF DeadlineAlarm, Drop, Closed, TypeOK
  <2>3. age[s] >= DeadlineMs /\ age[s] \in 0 .. DeadlineMs
    BY <2>1, <2>2, ConstantsAssumption DEF WindowInv, TypeOK, Unset
  <2> QED BY <2>3, ConstantsAssumption
<1>3. OwnAlarm /\ UNCHANGED vars => OwnAlarm'
  BY DEF OwnAlarm, vars, alarmVars, bellVars
<1> QED BY <1>1, <1>2, <1>3, WindowStep, OwnAlarmStep, TypeCorrect, PTL
        DEF Spec, WindowIsKept
=============================================================================
