------------------------- MODULE AppLifecycleProofs -------------------------
(***************************************************************************)
(* Theorems about AppLifecycle.  Its object takes only steps of            *)
(* AppConnection, so what is proved there holds here; the safety of        *)
(* deletion and of revocation rests on upgrades served one at a time.      *)
(***************************************************************************)
EXTENDS AppLifecycle, AppConnectionProofs

(* Every step of the whole is a step of the object or leaves it alone. *)
LEMMA ObjectStep == [LifecycleNext]_allVars => [Next]_vars
<1> SUFFICES ASSUME [LifecycleNext]_allVars PROVE [Next]_vars
  OBVIOUS
<1>1. CASE \E t \in Tokens :
             ResolveToken(t) \/ LoadApp(t) \/ HandOver(t) \/ RevokeToken(t)
  BY <1>1 DEF ResolveToken, LoadApp, HandOver, RevokeToken, Next
<1>2. CASE \E s \in Sockets, v \in Verdicts : UpsertAgainstRow(s, v)
  BY <1>2 DEF UpsertAgainstRow, Next, Handshake
<1>3. CASE ArchiveApp \/ UnarchiveApp \/ DeleteApp
  BY <1>3 DEF ArchiveApp, UnarchiveApp, DeleteApp
<1>4. CASE WipeArrives \/ \E op \in Severs : SeverArrives(op)
  BY <1>4 DEF WipeArrives, SeverArrives, Severs, Next
<1>5. CASE \E op \in Ops : SeverUnreachable(op)
  BY <1>5 DEF SeverUnreachable
<1>6. CASE Inner
  BY <1>6 DEF Inner, Next, Handshake
<1>7. CASE UNCHANGED allVars
  BY <1>7 DEF allVars
<1> QED BY <1>1, <1>2, <1>3, <1>4, <1>5, <1>6, <1>7 DEF LifecycleNext

(* The object inside AppLifecycle implements AppConnection. *)
THEOREM ObjectRefines == LifecycleSpec => Spec
<1>1. LifecycleInit => Init
  BY DEF LifecycleInit
<1> QED BY <1>1, ObjectStep, PTL DEF LifecycleSpec, Spec

LEMMA LifecycleTypeStep ==
  LifecycleTypeOK /\ [LifecycleNext]_allVars => LifecycleTypeOK'
<1> SUFFICES ASSUME LifecycleTypeOK, [LifecycleNext]_allVars
             PROVE  LifecycleTypeOK'
  OBVIOUS
<1>0. TypeOK'
  BY ObjectStep, TypeStep DEF LifecycleTypeOK
<1> USE DEF outerVars, rowVars, historyVars
<1>1. CASE \E t \in Tokens : ResolveToken(t) \/ LoadApp(t) \/ HandOver(t)
  BY <1>0, <1>1 DEF ResolveToken, LoadApp, HandOver, LifecycleTypeOK
<1>2. CASE \E t \in Tokens : RevokeToken(t)
  BY <1>0, <1>2 DEF RevokeToken, LifecycleTypeOK, Ops, Severs
<1>3. CASE \E s \in Sockets, v \in Verdicts : UpsertAgainstRow(s, v)
  BY <1>0, <1>3 DEF UpsertAgainstRow, LifecycleTypeOK
<1>4. CASE ArchiveApp \/ UnarchiveApp \/ DeleteApp
  BY <1>0, <1>4
     DEF ArchiveApp, UnarchiveApp, DeleteApp, LifecycleTypeOK, Ops, Severs
<1>5. CASE WipeArrives \/ \E op \in Severs : SeverArrives(op)
  BY <1>0, <1>5 DEF WipeArrives, SeverArrives, LifecycleTypeOK, Ops
<1>6. CASE \E op \in Ops : SeverUnreachable(op)
  BY <1>0, <1>6 DEF SeverUnreachable, LifecycleTypeOK
<1>7. CASE UNCHANGED outerVars
  BY <1>0, <1>7 DEF LifecycleTypeOK
<1> QED
  BY <1>1, <1>2, <1>3, <1>4, <1>5, <1>6, <1>7 DEF LifecycleNext, allVars

(* LifecycleTypeOK holds of every reachable state. *)
THEOREM LifecycleTypeCorrect == LifecycleSpec => []LifecycleTypeOK
<1>1. LifecycleInit => LifecycleTypeOK
  BY TypeInit DEF LifecycleInit, LifecycleTypeOK
<1> QED BY <1>1, LifecycleTypeStep, PTL DEF LifecycleSpec

-----------------------------------------------------------------------------
(* Deletion *)

(* The rows are gone before the sever is sent, and once it has arrived no
   open socket is registered or holds a declaration it stored. *)
DeletionInv ==
  /\ emptied \/ <<"revoked", None>> \in severs => appRow = "gone"
  /\ \A s \in Sockets :
       wire[s] = "new" => registering[s] = None /\ ~registered[s]
  /\ emptied => \A s \in Sockets :
       wire[s] = "open" => ~registered[s] /\ registering[s] # "stored"

(* A step of the object that registers nothing and stores no declaration. *)
LEMMA DeletionKept ==
  ASSUME TypeOK, DeletionInv, UNCHANGED <<emptied, appRow>>,
         severs' \subseteq severs,
         \A s \in Sockets :
           /\ registered'[s] => registered[s]
           /\ registering'[s] \in {registering[s], None}
           /\ wire'[s] = "open" => wire[s] = "open"
           /\ wire'[s] = "new" => wire[s] = "new"
  PROVE  DeletionInv'
<1>1. \A s \in Sockets : registered'[s] => registered[s]
  OBVIOUS
<1>2. None # "stored"
  BY DEF None
<1>3. emptied' \/ <<"revoked", None>> \in severs' => appRow' = "gone"
  BY DEF DeletionInv
<1>4. \A s \in Sockets :
        wire'[s] = "new" => registering'[s] = None /\ ~registered'[s]
  BY <1>1 DEF DeletionInv
<1>5. emptied' => \A s \in Sockets :
        wire'[s] = "open" => ~registered'[s] /\ registering'[s] # "stored"
  BY <1>1, <1>2 DEF DeletionInv
<1> QED BY <1>3, <1>4, <1>5 DEF DeletionInv

LEMMA DeletionAccept ==
  ASSUME TypeOK, SlotInv, DeletionInv, NEW t, Accept(t),
         UNCHANGED <<emptied, appRow, severs>>
  PROVE  DeletionInv'
<1>1. accepted \in Nat /\ accepted + 1 \in Sockets
  BY ConstantsAssumption DEF Accept, TypeOK, Sockets
<1>2. wire[accepted + 1] = "new"
  BY <1>1 DEF SlotInv
<1>3. None # "stored"
  BY DEF None
<1>4. /\ UNCHANGED <<registered, registering>>
      /\ \A s \in Sockets : s # accepted + 1 => wire'[s] = wire[s]
      /\ wire'[accepted + 1] = "open"
  BY <1>1 DEF Accept, TypeOK
<1> QED BY <1>1, <1>2, <1>3, <1>4 DEF DeletionInv

LEMMA DropKeepsNew ==
  ASSUME TypeOK, NEW s, NEW code \in CloseCodes, Drop(s, code)
  PROVE  \A t \in Sockets : /\ wire'[t] = "open" => wire[t] = "open"
                            /\ wire'[t] = "new" => wire[t] = "new"
BY DEF Drop, Closed, TypeOK, CloseCodes

LEMMA DeletionStep ==
  LifecycleTypeOK /\ SlotInv /\ DeletionInv /\ [LifecycleNext]_allVars
    => DeletionInv'
<1> SUFFICES ASSUME TypeOK, LifecycleTypeOK, SlotInv, DeletionInv,
                    [LifecycleNext]_allVars
             PROVE  DeletionInv'
  BY DEF LifecycleTypeOK
<1> USE DEF outerVars, rowVars, historyVars, socketVars, handlerVars
<1>1. CASE \E t \in Tokens : ResolveToken(t) \/ LoadApp(t) \/ RevokeToken(t)
  BY <1>1, ConstantsAssumption
     DEF ResolveToken, LoadApp, RevokeToken, vars, DeletionInv
<1>2. ASSUME NEW t \in Tokens, HandOver(t) PROVE DeletionInv'
  <2>1. CASE Upgrade(t)
    BY <1>2, <2>1, DeletionAccept DEF HandOver, Upgrade
  <2>2. CASE Evict(t)
    BY <1>2, <2>2, DeletionKept, DropKeepsNew DEF HandOver, Evict, CloseCodes
  <2> QED BY <1>2, <2>1, <2>2 DEF HandOver
<1>3. CASE \E s \in Sockets, v \in Verdicts : UpsertAgainstRow(s, v)
  <2> PICK s \in Sockets, v \in Verdicts : UpsertAgainstRow(s, v)
    BY <1>3
  <2>1. UNCHANGED <<wire, registered, emptied, severs, appRow>>
    BY DEF UpsertAgainstRow, UpsertAnswers
  <2>2. /\ wire[s] # "new"
        /\ registering' = [registering EXCEPT ![s] = v]
        /\ v = "stored" => appRow # "gone"
    BY DEF UpsertAgainstRow, UpsertAnswers, DeletionInv, None
  <2> QED BY <2>1, <2>2 DEF DeletionInv, TypeOK
<1>4. CASE ArchiveApp \/ UnarchiveApp
  BY <1>4 DEF ArchiveApp, UnarchiveApp, vars, DeletionInv
<1>5. CASE DeleteApp
  BY <1>5 DEF DeleteApp, vars, DeletionInv
<1>6. ASSUME NEW op \in Severs, SeverArrives(op) PROVE DeletionInv'
  <2>1. CASE op = <<"revoked", None>>
    <3>1. Sever("revoked", None) /\ emptied' /\ appRow' = "gone"
      BY <1>6, <2>1 DEF SeverArrives, DeletionInv
    <3>2. UNCHANGED <<registered, registering>>
      BY <3>1 DEF Sever
    <3>3. \A s \in Sockets : /\ wire'[s] # "open"
                             /\ wire'[s] = "new" => wire[s] = "new"
      <4>1. CASE Attached # {}
        BY <3>1, <4>1, DropClosesAll, DropKeepsNew DEF Sever, CloseCodes
      <4>2. CASE Attached = {}
        BY <3>1, <4>2 DEF Sever, Attached
      <4> QED BY <4>1, <4>2
    <3> QED BY <3>1, <3>2, <3>3 DEF DeletionInv
  <2>2. CASE op # <<"revoked", None>>
    <3>1. UNCHANGED <<emptied, appRow, registered, registering>>
      BY <1>6, <2>2 DEF SeverArrives, Sever, LifecycleTypeOK
    <3>2. \A s \in Sockets : /\ wire'[s] = "open" => wire[s] = "open"
                             /\ wire'[s] = "new" => wire[s] = "new"
      <4>1. op[1] \in CloseCodes
        BY DEF Severs, CloseCodes
      <4>2. CASE Attached # {} /\ (op[2] = None \/ opener[Current] = op[2])
        BY <1>6, <4>1, <4>2, DropKeepsNew DEF SeverArrives, Sever
      <4>3. CASE ~(Attached # {} /\ (op[2] = None \/ opener[Current] = op[2]))
        BY <1>6, <4>3 DEF SeverArrives, Sever
      <4> QED BY <4>2, <4>3
    <3>3. severs' \subseteq severs
      BY <1>6, <2>2 DEF SeverArrives
    <3>4. \A s \in Sockets : registering'[s] \in {registering[s], None}
      BY <3>1
    <3> QED BY <3>1, <3>2, <3>3, <3>4, DeletionKept
  <2> QED BY <2>1, <2>2
<1>7. CASE \E op \in Ops : SeverUnreachable(op)
  BY <1>7 DEF SeverUnreachable, vars, DeletionInv
<1>8. ASSUME NEW u \in Upgrades, EvictionRecorded(u), UNCHANGED outerVars
      PROVE  DeletionInv'
  BY <1>8, DeletionAccept DEF EvictionRecorded
<1>9. ASSUME NEW s \in Sockets, UNCHANGED outerVars,
             BadFirstFrame(s) \/ RegisterRefused(s)
      PROVE  DeletionInv'
  BY <1>9, DeletionKept, DropKeepsNew
     DEF BadFirstFrame, RegisterRefused, CloseCodes, TypeOK
<1>10. ASSUME NEW s \in Sockets, UNCHANGED outerVars,
              RegisterFrame(s) \/ RegisterStored(s) \/ RegisterFailed(s)
       PROVE  DeletionInv'
  BY <1>10
     DEF RegisterFrame, RegisterStored, RegisterFailed, DeletionInv, TypeOK,
         None, Attached, CloseCodes
<1>11. ASSUME NEW s \in Sockets, UNCHANGED outerVars, PeerCloses(s)
       PROVE  DeletionInv'
  BY <1>11, DeletionKept DEF PeerCloses, TypeOK
<1>12. CASE Calling /\ UNCHANGED outerVars
  BY <1>12 DEF Calling, ForwardOffline, Forward, Execute, Settle, CallTimeout,
               DeletionInv
<1>13. CASE /\ UNCHANGED outerVars
            /\ \/ \E s \in Sockets, b \in Bells : Rings(s, b)
               \/ BellAlarm \/ Tick
  BY <1>13 DEF Rings, BellAlarm, Tick, DeletionInv
<1>14. CASE DeadlineAlarm /\ UNCHANGED outerVars
  <2>1. CASE Attached # {} /\ ~registered[Current]
    BY <1>14, <2>1, DeletionKept, DropKeepsNew DEF DeadlineAlarm, CloseCodes
  <2>2. CASE ~(Attached # {} /\ ~registered[Current])
    BY <1>14, <2>2 DEF DeadlineAlarm, DeletionInv
  <2> QED BY <2>1, <2>2
<1>15. CASE Restart /\ UNCHANGED outerVars
  BY <1>15, DeletionKept DEF Restart, TypeOK, Attached
<1>16. CASE UNCHANGED allVars
  BY <1>16 DEF allVars, vars, DeletionInv
<1>17. CASE WipeArrives
  BY <1>17 DEF WipeArrives, Wipe, DeletionInv
<1>18. CASE UNCHANGED outerVars /\ \E u \in Upgrades : EvictionFailed(u)
  BY <1>18 DEF EvictionFailed, DeletionInv
<1> QED
  BY <1>1, <1>2, <1>3, <1>4, <1>5, <1>6, <1>7, <1>8, <1>9, <1>10, <1>11,
     <1>12, <1>13, <1>14, <1>15, <1>16, <1>17, <1>18 DEF LifecycleNext, Inner

(* A deleted app never serves again once its sever reached the object. *)
THEOREM DeletionIsFinal ==
  ASSUME \A u, v \in Upgrades : u = v
  PROVE  LifecycleSpec => []DeletedNeverServes
<1>1. LifecycleInit => SlotInv /\ DeletionInv
  BY DEF LifecycleInit, Init, SlotInv, DeletionInv
<1>2. LifecycleTypeOK /\ SlotInv /\ [LifecycleNext]_allVars => SlotInv'
  BY ObjectStep, SlotStep DEF LifecycleTypeOK
<1>3. DeletionInv => DeletedNeverServes
  BY DEF DeletionInv, DeletedNeverServes
<1> QED BY <1>1, <1>2, <1>3, DeletionStep, LifecycleTypeCorrect, PTL
        DEF LifecycleSpec

-----------------------------------------------------------------------------
(* Revocation *)

(* A revocation that was sent has its row written; a token that is locked out
   is nowhere in an upgrade and opened no socket that is still open. *)
LockInv ==
  /\ \A t \in Tokens :
       <<"revoked", t>> \in severs \/ t \in severed => tokenRow[t] # "live"
  /\ \A t \in lockedOut : ~Underway(t) /\ ~OpenWith(t)

(* A step that opens no socket, parks no upgrade and touches no row. *)
LEMMA LockKept ==
  ASSUME LifecycleTypeOK, LockInv,
         UNCHANGED <<opener, door, tokenRow, severed, lockedOut>>,
         severs' \subseteq severs,
         \A s \in Sockets : wire'[s] = "open" => wire[s] = "open",
         \A u \in Upgrades : arriving'[u] \in {arriving[u], None}
  PROVE  LockInv'
<1>1. \A t \in lockedOut : t \in Tokens /\ t # None
  BY ConstantsAssumption DEF LifecycleTypeOK
<1>2. \A t \in lockedOut : ~Underway(t)'
  BY <1>1 DEF LockInv, Underway
<1>3. \A t \in lockedOut : ~OpenWith(t)'
  BY DEF LockInv, OpenWith
<1>4. \A t \in Tokens :
        <<"revoked", t>> \in severs' \/ t \in severed' => tokenRow'[t] # "live"
  BY DEF LockInv
<1> QED BY <1>2, <1>3, <1>4 DEF LockInv

(* An upgrade that is admitted was under way, so it is of no locked-out
   token. *)
LEMMA LockAccept ==
  ASSUME LifecycleTypeOK, LockInv, NEW t \in Tokens, t \notin lockedOut,
         Accept(t),
         UNCHANGED <<tokenRow, severed, lockedOut, severs>>,
         \A u \in Upgrades : arriving'[u] \in {arriving[u], None},
         \A r \in Tokens : door'[r] \in {door[r], "away"}
  PROVE  LockInv'
<1>1. \A r \in lockedOut : r \in Tokens /\ r # None /\ r # t
  BY ConstantsAssumption DEF LifecycleTypeOK
<1>2. \A r \in lockedOut : ~Underway(r)'
  BY <1>1 DEF LockInv, Underway
<1>3. accepted \in Nat /\ accepted + 1 \in Sockets
  BY ConstantsAssumption DEF Accept, LifecycleTypeOK, TypeOK, Sockets
<1>4. /\ opener'[accepted + 1] = t
      /\ \A s \in Sockets : s # accepted + 1 =>
           opener'[s] = opener[s] /\ wire'[s] = wire[s]
  BY <1>3 DEF Accept, LifecycleTypeOK, TypeOK
<1>5. \A r \in lockedOut : ~OpenWith(r)'
  BY <1>1, <1>4 DEF LockInv, OpenWith
<1>6. \A r \in Tokens :
        <<"revoked", r>> \in severs' \/ r \in severed' => tokenRow'[r] # "live"
  BY DEF LockInv
<1> QED BY <1>2, <1>5, <1>6 DEF LockInv

(* The steps the object takes by itself, but for an acceptance, open nothing
   and park no upgrade. *)
LEMMA InnerOpensNothing ==
  ASSUME TypeOK, Inner, \A u \in Upgrades : ~EvictionRecorded(u)
  PROVE  /\ opener' = opener
         /\ \A s \in Sockets : wire'[s] = "open" => wire[s] = "open"
         /\ \A u \in Upgrades : arriving'[u] \in {arriving[u], None}
<1> USE DEF socketVars, handlerVars
<1>1. ASSUME NEW s \in Sockets, BadFirstFrame(s) \/ RegisterRefused(s)
      PROVE  /\ UNCHANGED <<opener, arriving>>
             /\ \A r \in Sockets : wire'[r] = "open" => wire[r] = "open"
  BY <1>1, DropKeepsNew DEF BadFirstFrame, RegisterRefused, CloseCodes
<1>2. ASSUME NEW s \in Sockets,
             \/ RegisterFrame(s) \/ RegisterStored(s) \/ RegisterFailed(s)
             \/ \E b \in Bells : Rings(s, b)
      PROVE  UNCHANGED <<opener, arriving, wire>>
  BY <1>2 DEF RegisterFrame, RegisterStored, RegisterFailed, Rings
<1>3. ASSUME NEW s \in Sockets, PeerCloses(s)
      PROVE  /\ UNCHANGED <<opener, arriving>>
             /\ \A r \in Sockets : wire'[r] = "open" => wire[r] = "open"
  BY <1>3 DEF PeerCloses, TypeOK
<1>4. CASE Calling
  BY <1>4 DEF Calling, ForwardOffline, Forward, Execute, Settle, CallTimeout
<1>5. CASE BellAlarm \/ Tick
  BY <1>5 DEF BellAlarm, Tick
<1>6. CASE DeadlineAlarm
  <2>1. CASE Attached # {} /\ ~registered[Current]
    BY <1>6, <2>1, DropKeepsNew DEF DeadlineAlarm, CloseCodes
  <2>2. CASE ~(Attached # {} /\ ~registered[Current])
    BY <1>6, <2>2 DEF DeadlineAlarm
  <2> QED BY <2>1, <2>2
<1>7. CASE Restart
  BY <1>7 DEF Restart, TypeOK, Attached
<1>8. CASE \E u \in Upgrades : EvictionFailed(u)
  BY <1>8 DEF EvictionFailed, TypeOK
<1> QED BY <1>1, <1>2, <1>3, <1>4, <1>5, <1>6, <1>7, <1>8 DEF Inner

(* A sever of one token leaves no open socket of it: the one open socket is
   the one the object looks at. *)
LEMMA SeverCloses ==
  ASSUME TypeOK, SlotInv, NEW t \in Tokens, NEW code \in CloseCodes,
         Sever(code, t)
  PROVE  ~OpenWith(t)'
<1>1. t # None
  BY ConstantsAssumption
<1>2. CASE Attached # {} /\ opener[Current] = t
  BY <1>2, DropClosesAll DEF Sever, OpenWith
<1>3. CASE ~(Attached # {} /\ opener[Current] = t)
  <2>1. UNCHANGED <<wire, opener>>
    BY <1>1, <1>3 DEF Sever
  <2>2. \A s \in Sockets : wire[s] = "open" => s \in Attached /\ s = Current
    BY OpenIsCurrent DEF Attached
  <2> QED BY <1>3, <2>1, <2>2 DEF OpenWith
<1> QED BY <1>2, <1>3

LEMMA SeverOpensNothing ==
  ASSUME TypeOK, NEW code \in CloseCodes, NEW onlyIf, Sever(code, onlyIf)
  PROVE  /\ UNCHANGED <<opener, arriving>>
         /\ \A s \in Sockets : wire'[s] = "open" => wire[s] = "open"
<1>1. CASE Attached # {} /\ (onlyIf = None \/ opener[Current] = onlyIf)
  BY <1>1, DropKeepsNew DEF Sever, handlerVars
<1>2. CASE ~(Attached # {} /\ (onlyIf = None \/ opener[Current] = onlyIf))
  BY <1>2 DEF Sever, handlerVars
<1> QED BY <1>1, <1>2

LEMMA LockStep ==
  LifecycleTypeOK /\ SlotInv /\ LockInv /\ [LifecycleNext]_allVars => LockInv'
<1> SUFFICES ASSUME LifecycleTypeOK, SlotInv, LockInv, [LifecycleNext]_allVars
             PROVE  LockInv'
  OBVIOUS
<1>0. TypeOK
  BY DEF LifecycleTypeOK
<1> USE DEF outerVars, rowVars, historyVars, socketVars, handlerVars
<1>1. CASE \E t \in Tokens : ResolveToken(t) \/ LoadApp(t)
  <2> PICK t \in Tokens : ResolveToken(t) \/ LoadApp(t)
    BY <1>1
  <2>1. t \notin lockedOut
    BY DEF LockInv, ResolveToken, LoadApp, Underway, LifecycleTypeOK
  <2>2. /\ UNCHANGED <<vars, rowVars, severs, historyVars>>
        /\ \A r \in Tokens : r # t => door'[r] = door[r]
    BY DEF ResolveToken, LoadApp, LifecycleTypeOK
  <2>3. \A r \in lockedOut : r # t /\ r \in Tokens
    BY <2>1 DEF LifecycleTypeOK
  <2> QED BY <2>2, <2>3 DEF LockInv, Underway, OpenWith, vars
<1>2. ASSUME NEW t \in Tokens, HandOver(t) PROVE LockInv'
  <2>1. t \notin lockedOut
    BY <1>2 DEF LockInv, Underway, HandOver
  <2>2. \A r \in Tokens : door'[r] \in {door[r], "away"}
    BY <1>2 DEF HandOver, LifecycleTypeOK
  <2>3. CASE Upgrade(t)
    BY <1>2, <2>1, <2>2, <2>3, LockAccept DEF HandOver, Upgrade
  <2>4. CASE Evict(t)
    <3>1. /\ opener' = opener
          /\ \A s \in Sockets : wire'[s] = "open" => wire[s] = "open"
      BY <1>0, <2>4, DropKeepsNew DEF Evict, CloseCodes
    <3>2. \A u \in Upgrades : arriving'[u] \in {arriving[u], t}
      BY <1>0, <2>4 DEF Evict, TypeOK
    <3>3. \A r \in lockedOut : r # t /\ r \in Tokens
      BY <2>1 DEF LifecycleTypeOK
    <3>4. \A r \in lockedOut : ~Underway(r)' /\ ~OpenWith(r)'
      BY <2>2, <3>1, <3>2, <3>3 DEF LockInv, Underway, OpenWith
    <3> QED BY <1>2, <3>4 DEF LockInv, HandOver
  <2> QED BY <1>2, <2>3, <2>4 DEF HandOver
<1>3. CASE \E t \in Tokens : RevokeToken(t)
  BY <1>3 DEF RevokeToken, vars, LockInv, Underway, OpenWith, LifecycleTypeOK
<1>4. CASE \E s \in Sockets, v \in Verdicts : UpsertAgainstRow(s, v)
  BY <1>4, LockKept DEF UpsertAgainstRow, UpsertAnswers
<1>5. CASE ArchiveApp \/ UnarchiveApp
  BY <1>5, ConstantsAssumption
     DEF ArchiveApp, UnarchiveApp, vars, LockInv, Underway, OpenWith
<1>6. CASE DeleteApp
  <2>1. \A t \in Tokens : tokenRow'[t] # "live"
    BY <1>6 DEF DeleteApp
  <2> QED BY <1>6, <2>1 DEF DeleteApp, vars, LockInv, Underway, OpenWith
<1>7. ASSUME NEW op \in Severs, SeverArrives(op) PROVE LockInv'
  <2>1. op[1] \in CloseCodes /\ Sever(op[1], op[2])
    BY <1>7 DEF Severs, CloseCodes, SeverArrives
  <2>2. /\ UNCHANGED <<opener, arriving>>
        /\ \A s \in Sockets : wire'[s] = "open" => wire[s] = "open"
    BY <1>0, <2>1, SeverOpensNothing
  <2>3. \A r \in lockedOut : ~Underway(r)' /\ ~OpenWith(r)'
    BY <1>7, <2>2 DEF LockInv, SeverArrives, Underway, OpenWith
  <2>4. CASE op[2] \in Tokens
    <3>1. op = <<"revoked", op[2]>> /\ tokenRow[op[2]] # "live"
      BY <1>7, <2>4, ConstantsAssumption DEF Severs, SeverArrives, LockInv
    <3>2. ~OpenWith(op[2])'
      BY <1>0, <2>1, <2>4, SeverCloses
    <3>3. ~Underway(op[2]) => ~Underway(op[2])'
      BY <1>7, <2>2 DEF SeverArrives, Underway
    <3>4. /\ severed' = severed \cup {op[2]}
          /\ lockedOut' = IF ~Underway(op[2]) THEN lockedOut \cup {op[2]}
                                              ELSE lockedOut
          /\ UNCHANGED tokenRow
          /\ severs' \subseteq severs
      BY <1>7, <2>4, ConstantsAssumption DEF SeverArrives
    <3>5. \A r \in lockedOut' : ~Underway(r)' /\ ~OpenWith(r)'
      BY <2>3, <3>2, <3>3, <3>4
    <3>6. \A t \in Tokens :
            <<"revoked", t>> \in severs' \/ t \in severed'
              => tokenRow'[t] # "live"
      BY <3>1, <3>4 DEF LockInv
    <3> QED BY <3>5, <3>6 DEF LockInv
  <2>5. CASE op[2] \notin Tokens
    BY <1>7, <2>3, <2>5 DEF SeverArrives, LockInv, WipeOp
  <2> QED BY <2>4, <2>5
<1>8. CASE \E op \in Ops : SeverUnreachable(op)
  BY <1>8 DEF SeverUnreachable, vars, LockInv, Underway, OpenWith
<1>9. ASSUME NEW u \in Upgrades, EvictionRecorded(u), UNCHANGED outerVars
      PROVE  LockInv'
  <2>1. arriving[u] \in Tokens /\ arriving[u] \notin lockedOut
    BY <1>0, <1>9 DEF EvictionRecorded, LockInv, Underway, TypeOK
  <2>2. \A v \in Upgrades : arriving'[v] \in {arriving[v], None}
    BY <1>0, <1>9 DEF EvictionRecorded, TypeOK
  <2> QED BY <1>9, <2>1, <2>2, LockAccept DEF EvictionRecorded
<1>10. CASE Inner /\ UNCHANGED outerVars
            /\ \A u \in Upgrades : ~EvictionRecorded(u)
  BY <1>0, <1>10, InnerOpensNothing, LockKept
<1>11. CASE UNCHANGED allVars
  BY <1>11 DEF allVars, vars, LockInv, Underway, OpenWith
<1>12. CASE WipeArrives
  BY <1>12 DEF WipeArrives, Wipe, LockInv, Underway, OpenWith
<1> QED
  BY <1>1, <1>2, <1>3, <1>4, <1>5, <1>6, <1>7, <1>8, <1>9, <1>10, <1>11, <1>12
     DEF LifecycleNext

(* A revoked token is out for good once its revocation reached the object
   with no upgrade of it under way, whatever the number of tokens, sockets and
   owner operations (token_revoke: the row first, then the sever). *)
THEOREM RevocationIsFinal ==
  ASSUME \A u, v \in Upgrades : u = v
  PROVE  LifecycleSpec => []LockedOutStaysOut
<1>1. LifecycleInit => SlotInv /\ LockInv
  BY DEF LifecycleInit, Init, SlotInv, LockInv
<1>2. LifecycleTypeOK /\ SlotInv /\ [LifecycleNext]_allVars => SlotInv'
  BY ObjectStep, SlotStep DEF LifecycleTypeOK
<1>3. LockInv => LockedOutStaysOut
  BY DEF LockInv, LockedOutStaysOut
<1> QED BY <1>1, <1>2, <1>3, LockStep, LifecycleTypeCorrect, PTL
        DEF LifecycleSpec
=============================================================================
