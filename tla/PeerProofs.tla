----------------------------- MODULE PeerProofs -----------------------------
(***************************************************************************)
(* Proofs about the hub's connected peers.  Doorbell, for every set of     *)
(* catalog families, contents and warms: what a held stream's consumer and *)
(* the stored catalogs may lag behind.  TunnelClient, for every number of  *)
(* copies of an app on any of the libraries and every number of faults:    *)
(* they never all give up, and the hub holds the one that is connected.    *)
(***************************************************************************)
EXTENDS Doorbell, TunnelClient, TLAPS

-----------------------------------------------------------------------------
(* What a step may touch *)

(* The stream's own steps. *)
DbStreamStep ==
  \/ Listen \/ SocketCloses \/ DbTickStep
  \/ \E f \in Families : Relay(f)
  \/ ConsumerReadsOn \/ Befalls

(* A step of the stream touches neither the app nor the object. *)
LEMMA DbStreamKeeps == DbStreamStep => UNCHANGED <<dbAppVars, dbObjectVars>>
<1> SUFFICES ASSUME DbStreamStep PROVE UNCHANGED <<dbAppVars, dbObjectVars>>
  OBVIOUS
<1>1. CASE DbTickStep
  BY <1>1 DEF DbTickStep, TickBegins, TickReauthorizes, TickResolves, TickOpens
<1>2. CASE Listen \/ SocketCloses \/ ConsumerReadsOn \/ Befalls
  BY <1>2 DEF Listen, SocketCloses, ConsumerReadsOn, Befalls, DbObjectOnly
<1>3. CASE \E f \in Families : Relay(f)
  BY <1>3 DEF Relay
<1> QED
  BY <1>1, <1>2, <1>3 DEF DbStreamStep

(* What the object does to its catalogs, warms and app socket leaves the stream
   and its consumer alone. *)
LEMMA DbObjectKeeps ==
  ASSUME NEW w \in Warms, NEW f \in Families,
         AppRegisters \/ DiscoverAnswers(w) \/ DiscoverFails(w)
           \/ HearsChange(w, f) \/ Answer(w, f) \/ AnswerFails(w, f) \/ LinkDrops \/ AppChanges(f)
  PROVE  UNCHANGED <<dbStreamVars, dbWorldVars>>
  BY DEF AppRegisters, DiscoverAnswers, DiscoverFails, HearsChange, Answer, AnswerFails,
         LinkDrops, AppChanges, DbObjectOnly, dbObjectVars

(* A warm of S that starts never makes a family less asked for, asks for its own
   families what it was told, and leaves alone what another warm has to ring. *)
DbGrown(w, S, told) ==
  /\ \A f \in Families : Asking(f) \subseteq Asking(f)'
  /\ \A f \in S : w \in Asking(f)'
  /\ \A v \in Warms, f \in Families :
       dbWarm[v][f] = "changed" => dbWarm'[v][f] = "changed"
  /\ \A v \in Warms, f \in Families :
       dbWarm'[v][f] = "asked" =>
         \/ v = w /\ f \in S /\ dbAsked'[v][f] = told[f]
         \/ v # w /\ f \notin S /\ dbWarm[v][f] = "asked"
              /\ dbAsked'[v][f] = dbAsked[v][f]

(* Starting a warm is typed, and grows what is asked. *)
LEMMA DbAskedGrows ==
  ASSUME DbTypeOK, NEW w \in Warms, NEW S \in SUBSET Families,
         NEW told \in [Families -> Contents], Idle(w),
         NEW others \in [Families -> {"no", "changed", "same"}],
         dbWarm' = Asked(w, S, others), dbAsked' = AsksFor(w, S, told)
  PROVE  /\ dbWarm' \in [Warms -> [Families -> WarmStates]]
         /\ dbAsked' \in [Warms -> [Families -> Contents]]
         /\ DbGrown(w, S, told)
<1> USE DEF DbTypeOK, WarmStates, Waiting
<1>1. dbWarm' \in [Warms -> [Families -> WarmStates]]
  BY DEF Asked
<1>2. dbAsked' \in [Warms -> [Families -> Contents]]
  BY DoorbellAssumption DEF AsksFor
<1>3. \A v \in Warms, f \in Families :
        dbWarm'[v][f] = IF v = w THEN (IF f \in S THEN "asked" ELSE others[f])
          ELSE IF f \in S /\ dbWarm[v][f] = "asked" THEN "overtaken" ELSE dbWarm[v][f]
  BY DEF Asked
<1>4. \A f \in Families : dbWarm[w][f] = "no"
  BY DEF Idle, NoWarm
<1>5. \A v \in Warms, f \in Families :
        dbAsked'[v][f] = IF v = w THEN (IF f \in S THEN told[f] ELSE 0) ELSE dbAsked[v][f]
  BY DEF AsksFor
<1>6. \A f \in Families : Asking(f) \subseteq Asking(f)'
  BY <1>3, <1>4 DEF Asking
<1>7. \A f \in S : w \in Asking(f)'
  BY <1>3 DEF Asking
<1>8. \A v \in Warms, f \in Families :
        dbWarm[v][f] = "changed" => dbWarm'[v][f] = "changed"
  BY <1>3, <1>4
<1>9. \A v \in Warms, f \in Families :
        dbWarm'[v][f] = "asked" =>
          \/ v = w /\ f \in S /\ dbAsked'[v][f] = told[f]
          \/ v # w /\ f \notin S /\ dbWarm[v][f] = "asked"
               /\ dbAsked'[v][f] = dbAsked[v][f]
  BY <1>3, <1>5
<1> QED
  BY <1>1, <1>2, <1>6, <1>7, <1>8, <1>9 DEF DbGrown

LEMMA DbAskGrows ==
  ASSUME DbTypeOK, NEW w \in Warms, NEW S \in SUBSET Families,
         NEW told \in [Families -> Contents], Idle(w), Ask(w, S, told)
  PROVE  /\ dbWarm' \in [Warms -> [Families -> WarmStates]]
         /\ dbAsked' \in [Warms -> [Families -> Contents]]
         /\ DbGrown(w, S, told)
<1>1. NoWarm \in [Families -> {"no", "changed", "same"}]
  BY DEF NoWarm
<1> QED
  BY <1>1, DbAskedGrows DEF Ask

(* What an answered server/discover leaves of the families it does not serve. *)
DbUnserved == [f \in Families |-> IF Differs(f, 0) THEN "changed" ELSE "same"]

LEMMA DbDiscoverGrows ==
  ASSUME DbTypeOK, NEW w \in Warms, NEW S \in SUBSET Families, Idle(w),
         dbWarm' = Asked(w, S, DbUnserved), dbAsked' = AsksFor(w, S, dbTold)
  PROVE  /\ dbWarm' \in [Warms -> [Families -> WarmStates]]
         /\ dbAsked' \in [Warms -> [Families -> Contents]]
         /\ DbGrown(w, S, dbTold)
<1>1. DbUnserved \in [Families -> {"no", "changed", "same"}]
  BY DEF DbUnserved
<1>2. dbTold \in [Families -> Contents]
  BY DEF DbTypeOK
<1> HIDE DEF DbUnserved
<1> QED
  BY <1>1, <1>2, DbAskedGrows

-----------------------------------------------------------------------------
(* Types *)

LEMMA DbInitType == DbInit => DbTypeOK
<1> SUFFICES ASSUME DbInit PROVE DbTypeOK
  OBVIOUS
<1> USE DEF DbInit
<1>1. /\ dbApp \in [Families -> Contents] /\ dbTold \in [Families -> Contents]
      /\ dbStored \in [Families -> Contents \cup {Absent}]
      /\ dbView \in [Families -> Contents \cup {Absent}]
  OBVIOUS
<1>2. dbWarm \in [Warms -> [Families -> WarmStates]]
  BY DEF NoWarm, WarmStates
<1>3. dbAsked \in [Warms -> [Families -> Contents]]
  BY DoorbellAssumption
<1> QED
  BY <1>1, <1>2, <1>3 DEF DbTypeOK, TickStates, Fates

LEMMA DbStreamType == DbTypeOK /\ DbStreamStep => DbTypeOK'
<1> SUFFICES ASSUME DbTypeOK, DbStreamStep PROVE DbTypeOK'
  OBVIOUS
<1> USE DEF DbTypeOK, TickStates, Fates, Ended, EndOnce, dbEndVars, dbAppVars,
            dbObjectVars, dbStreamVars, dbWorldVars
<1>1. UNCHANGED <<dbAppVars, dbObjectVars>>
  BY DbStreamKeeps
<1>2. CASE Listen
  BY <1>1, <1>2 DEF Listen
<1>3. CASE SocketCloses
  BY <1>1, <1>3 DEF SocketCloses
<1>4. CASE DbTickStep
  <2>1. CASE TickBegins
    BY <1>1, <2>1 DEF TickBegins
  <2>2. CASE TickReauthorizes
    BY <1>1, <2>2 DEF TickReauthorizes
  <2>3. CASE TickResolves
    BY <1>1, <2>3 DEF TickResolves
  <2>4. CASE TickOpens
    BY <1>1, <2>4 DEF TickOpens
  <2> QED
    BY <1>4, <2>1, <2>2, <2>3, <2>4 DEF DbTickStep
<1>5. ASSUME NEW f \in Families, Relay(f) PROVE DbTypeOK'
  BY <1>1, <1>5 DEF Relay
<1>6. CASE ConsumerReadsOn
  BY <1>1, <1>6 DEF ConsumerReadsOn
<1>7. CASE Befalls
  BY <1>1, <1>7 DEF Befalls, DbObjectOnly
<1> QED
  BY <1>2, <1>3, <1>4, <1>5, <1>6, <1>7 DEF DbStreamStep

LEMMA DbNextType == DbTypeOK /\ [DbNext]_dbVars => DbTypeOK'
<1> SUFFICES ASSUME DbTypeOK, [DbNext]_dbVars PROVE DbTypeOK'
  OBVIOUS
<1> USE DEF DbTypeOK, WarmStates, dbAppVars, dbObjectVars, dbStreamVars, dbWorldVars
<1>1. CASE AppRegisters
  BY <1>1 DEF AppRegisters
<1>13. ASSUME NEW w \in Warms, DiscoverAnswers(w) PROVE DbTypeOK'
  <2>1. PICK served \in SUBSET Families :
          /\ dbWarm' = Asked(w, served, DbUnserved)
          /\ dbAsked' = AsksFor(w, served, dbTold)
          /\ dbStored' = [f \in Families |-> IF f \in served THEN dbStored[f] ELSE 0]
          /\ dbFailed' = dbFailed \cap served
          /\ dbCrossed' = dbCrossed \cap served
    BY <1>13 DEF DiscoverAnswers, DbUnserved
  <2>2. dbWarm' \in [Warms -> [Families -> WarmStates]]
        /\ dbAsked' \in [Warms -> [Families -> Contents]]
    BY <1>13, <2>1, DbDiscoverGrows DEF DiscoverAnswers
  <2>3. dbStored' \in [Families -> Contents \cup {Absent}]
    BY <2>1, DoorbellAssumption
  <2> QED
    BY <1>13, <2>1, <2>2, <2>3 DEF DiscoverAnswers
<1>14. ASSUME NEW w \in Warms, DiscoverFails(w) PROVE DbTypeOK'
  <2>1. {ToolFamily} \in SUBSET Families
    BY DoorbellAssumption
  <2>2. dbWarm' \in [Warms -> [Families -> WarmStates]]
        /\ dbAsked' \in [Warms -> [Families -> Contents]]
    BY <1>14, <2>1, DbAskGrows DEF DiscoverFails
  <2> QED
    BY <1>14, <2>2 DEF DiscoverFails
<1>2. ASSUME NEW w \in Warms, DbRing(w) PROVE DbTypeOK'
  BY <1>2 DEF DbRing, Fanout, NoWarm
<1>3. ASSUME NEW w \in Warms, NEW f \in Families, HearsChange(w, f) PROVE DbTypeOK'
  <2>1. dbTold' \in [Families -> Contents]
    BY <1>3 DEF HearsChange
  <2>2. dbWarm' \in [Warms -> [Families -> WarmStates]]
        /\ dbAsked' \in [Warms -> [Families -> Contents]]
    BY <1>3, <2>1, DbAskGrows DEF HearsChange
  <2> QED
    BY <1>3, <2>1, <2>2 DEF HearsChange
<1>4. ASSUME NEW w \in Warms, NEW f \in Families, Answer(w, f) PROVE DbTypeOK'
  <2>1. dbWarm' \in [Warms -> [Families -> WarmStates]]
        /\ dbStored' \in [Families -> Contents \cup {Absent}]
    BY <1>4 DEF Answer
  <2>2. dbAsked' \in [Warms -> [Families -> Contents]]
    BY <1>4, DoorbellAssumption DEF Answer
  <2>3. dbCrossed' \subseteq Families
    BY <1>4 DEF Answer
  <2> QED
    BY <1>4, <2>1, <2>2, <2>3 DEF Answer
<1>5. ASSUME NEW w \in Warms, NEW f \in Families, AnswerFails(w, f) PROVE DbTypeOK'
  BY <1>5, DoorbellAssumption DEF AnswerFails
<1>6. CASE DbFlushBells
  BY <1>6 DEF DbFlushBells, Fanout
<1>7. CASE LinkDrops
  BY <1>7, DoorbellAssumption DEF LinkDrops
<1>8. CASE ObjectRestarts
  BY <1>8, DoorbellAssumption DEF ObjectRestarts, NoWarm
<1>9. ASSUME NEW f \in Families, AppChanges(f) PROVE DbTypeOK'
  BY <1>9 DEF AppChanges, DbObjectOnly
<1>10. ASSUME NEW f \in Families, ConsumerLists(f) PROVE DbTypeOK'
  <2>1. dbView' \in [Families -> Contents \cup {Absent}]
    BY <1>10, DoorbellAssumption DEF ConsumerLists, Listed
  <2>2. dbWarm' \in [Warms -> [Families -> WarmStates]]
        /\ dbAsked' \in [Warms -> [Families -> Contents]]
    BY <1>10, DbAskGrows DEF ConsumerLists
  <2> QED
    BY <1>10, <2>1, <2>2 DEF ConsumerLists
<1>11. CASE DbStreamStep
  BY <1>11, DbStreamType
<1>12. CASE UNCHANGED dbVars
  BY <1>12 DEF dbVars
<1> QED
  BY <1>1, <1>2, <1>3, <1>4, <1>5, <1>6, <1>7, <1>8, <1>9, <1>10, <1>11, <1>12,
     <1>13, <1>14
  DEF DbNext, DbStreamStep

(* Every variable of the stream and of the object keeps its type. *)
THEOREM DbTypeCorrect == DbSpec => []DbTypeOK
<1>1. DbInit => DbTypeOK
  BY DbInitType
<1>2. DbTypeOK /\ [DbNext]_dbVars => DbTypeOK'
  BY DbNextType
<1> QED
  BY <1>1, <1>2, PTL DEF DbSpec

-----------------------------------------------------------------------------
(* The stored catalogs *)

(* Without an app socket no request waits. *)
DbNoWaiter ==
  ~dbLink =>
    /\ ~dbDiscovering
    /\ \A w \in Warms, f \in Families : dbWarm[w][f] \notin Waiting

(* A request nobody has overtaken asked for what the hub was last told of. *)
DbAskedIsTold ==
  \A w \in Warms, f \in Families :
    dbWarm[w][f] = "asked" => dbAsked[w][f] = dbTold[f]

DbObjectInv == DbTypeOK /\ DbNoWaiter /\ DbAskedIsTold /\ StoredFollowsApp

(* Only what the app, its socket and its warms are is read. *)
LEMMA DbObjectFrame ==
  ASSUME DbNoWaiter, DbAskedIsTold, StoredFollowsApp,
         UNCHANGED <<dbTold, dbLink, dbDiscovering, dbStored, dbWarm, dbAsked,
                     dbFailed, dbCrossed>>
  PROVE  DbNoWaiter' /\ DbAskedIsTold' /\ StoredFollowsApp'
  BY DEF DbNoWaiter, DbAskedIsTold, StoredFollowsApp, Asking, Listed

(* A warm that starts on a live socket, asking for what the app is told to list
   in the families told of. *)
LEMMA DbAskInv ==
  ASSUME DbObjectInv, dbLink, dbLink', NEW w \in Warms, NEW S \in SUBSET Families,
         dbTold' \in [Families -> Contents],
         \A f \in Families \ S : dbTold'[f] = dbTold[f],
         Idle(w), Ask(w, S, dbTold'),
         UNCHANGED <<dbDiscovering, dbStored, dbFailed, dbCrossed>>
  PROVE  DbNoWaiter' /\ DbAskedIsTold' /\ StoredFollowsApp'
<1> USE DEF DbObjectInv
<1>1. DbGrown(w, S, dbTold')
  BY DbAskGrows
<1>2. DbNoWaiter'
  BY DEF DbNoWaiter
<1>3. DbAskedIsTold'
  BY <1>1 DEF DbAskedIsTold, DbGrown
<1>4. StoredFollowsApp'
  BY <1>1 DEF StoredFollowsApp, Listed, DbGrown
<1> QED
  BY <1>2, <1>3, <1>4

(* The answer to server/discover re-lists what is served and empties the rest. *)
LEMMA DbDiscoversInv ==
  ASSUME DbObjectInv, NEW w \in Warms, DiscoverAnswers(w)
  PROVE  DbNoWaiter' /\ DbAskedIsTold' /\ StoredFollowsApp'
<1> USE DEF DbObjectInv
<1>1. dbLink' /\ UNCHANGED <<dbTold, dbLink>> /\ Idle(w)
  BY DEF DiscoverAnswers, DbNoWaiter
<1>2. PICK served \in SUBSET Families :
        /\ \A f \in Families \ served : dbTold[f] = 0
        /\ dbWarm' = Asked(w, served, DbUnserved)
        /\ dbAsked' = AsksFor(w, served, dbTold)
        /\ dbStored' = [f \in Families |-> IF f \in served THEN dbStored[f] ELSE 0]
        /\ dbFailed' = dbFailed \cap served
        /\ dbCrossed' = dbCrossed \cap served
  BY DEF DiscoverAnswers, DbUnserved
<1>3. DbGrown(w, served, dbTold)
  BY <1>1, <1>2, DbDiscoverGrows
<1>4. DbNoWaiter'
  BY <1>1 DEF DbNoWaiter
<1>5. DbAskedIsTold'
  BY <1>1, <1>3 DEF DbAskedIsTold, DbGrown
<1>6. \A f \in served : Asking(f)' # {}
  BY <1>3 DEF DbGrown
<1>7. \A f \in Families \ served : Listed(dbStored[f])' = dbTold'[f]
  BY <1>1, <1>2 DEF Listed, Absent
<1>8. StoredFollowsApp'
  BY <1>6, <1>7 DEF StoredFollowsApp
<1> QED
  BY <1>4, <1>5, <1>8

(* An answer the hub cannot read leaves every family but the tools unlisted. *)
LEMMA DbUndiscoveredInv ==
  ASSUME DbObjectInv, NEW w \in Warms, DiscoverFails(w)
  PROVE  DbNoWaiter' /\ DbAskedIsTold' /\ StoredFollowsApp'
<1> USE DEF DbObjectInv
<1>1. dbLink' /\ UNCHANGED <<dbTold, dbLink, dbStored>> /\ Idle(w)
      /\ Ask(w, {ToolFamily}, dbTold)
      /\ dbFailed' = dbFailed \cup (Families \ {ToolFamily})
  BY DEF DiscoverFails, DbNoWaiter
<1>2. dbTold \in [Families -> Contents] /\ {ToolFamily} \in SUBSET Families
  BY DoorbellAssumption DEF DbTypeOK
<1>3. DbGrown(w, {ToolFamily}, dbTold)
  BY <1>1, <1>2, DbAskGrows
<1>4. DbNoWaiter'
  BY <1>1 DEF DbNoWaiter
<1>5. DbAskedIsTold'
  BY <1>1, <1>3 DEF DbAskedIsTold, DbGrown
<1>6. StoredFollowsApp'
  BY <1>1, <1>3 DEF StoredFollowsApp, DbGrown
<1> QED
  BY <1>4, <1>5, <1>6

(* An answer that differs from what the hub was told is that of an overtaken
   request, and is remembered as such. *)
LEMMA DbAnswerInv ==
  ASSUME DbObjectInv, NEW w \in Warms, NEW f \in Families, Answer(w, f)
  PROVE  DbNoWaiter' /\ DbAskedIsTold' /\ StoredFollowsApp'
<1> USE DEF DbObjectInv
<1>1. PICK c \in {dbAsked[w][f], dbTold[f]} :
        /\ dbWarm' = [dbWarm EXCEPT ![w][f] = IF Differs(f, c) THEN "changed" ELSE "same"]
        /\ dbStored' = [dbStored EXCEPT ![f] = c]
        /\ dbCrossed' = IF c # dbTold[f] /\ dbWarm[w][f] = "overtaken"
                          THEN dbCrossed \cup {f} ELSE dbCrossed \ {f}
  BY DEF Answer
<1>2. /\ dbLink /\ w \in Asking(f) /\ dbAsked' = [dbAsked EXCEPT ![w][f] = 0]
      /\ dbFailed' = dbFailed \ {f} /\ UNCHANGED dbAppVars
  BY DEF Answer
<1>3. \A v \in Warms, g \in Families :
        IF v = w /\ g = f THEN dbWarm'[v][g] \in {"changed", "same"}
        ELSE dbWarm'[v][g] = dbWarm[v][g] /\ dbAsked'[v][g] = dbAsked[v][g]
  BY <1>1, <1>2 DEF DbTypeOK
<1>4. DbNoWaiter'
  BY <1>2 DEF DbNoWaiter, dbAppVars
<1>5. DbAskedIsTold'
  BY <1>2, <1>3 DEF DbAskedIsTold, dbAppVars
<1>6. StoredFollowsApp'
  <2>1. \A g \in Families \ {f} : Asking(g)' = Asking(g)
    BY <1>3 DEF Asking
  <2>2. \A g \in Families \ {f} : Listed(dbStored[g])' = Listed(dbStored[g])
    BY <1>1 DEF DbTypeOK, Listed
  <2>3. \A g \in Families \ {f} :
          g \in dbFailed \cup dbCrossed => g \in (dbFailed \cup dbCrossed)'
    BY <1>1, <1>2
  <2>4. Listed(dbStored[f])' # dbTold[f] => f \in dbCrossed'
    <3>1. c \in Contents /\ dbStored'[f] = c
      BY <1>1 DEF DbTypeOK
    <3>2. Listed(dbStored[f])' = c
      BY <3>1, DoorbellAssumption DEF Listed, Absent
    <3>3. dbWarm[w][f] \in {"asked", "overtaken"}
      BY <1>2 DEF Asking, Waiting
    <3>4. c # dbTold[f] => dbWarm[w][f] = "overtaken"
      BY <1>1, <3>3 DEF DbAskedIsTold
    <3> QED
      BY <1>1, <3>2, <3>4
  <2> QED
    BY <1>2, <2>1, <2>2, <2>3, <2>4 DEF StoredFollowsApp, dbAppVars
<1> QED
  BY <1>4, <1>5, <1>6

LEMMA DbObjectNext == DbObjectInv /\ [DbNext]_dbVars => DbObjectInv'
<1> SUFFICES ASSUME DbObjectInv, [DbNext]_dbVars
             PROVE  DbNoWaiter' /\ DbAskedIsTold' /\ StoredFollowsApp'
  BY DbNextType DEF DbObjectInv
<1>t. DbTypeOK
  BY DEF DbObjectInv
<1>1. CASE AppRegisters
  <2>1. /\ ~dbLink /\ dbLink' /\ dbDiscovering' /\ UNCHANGED <<dbWarm, dbStored>>
    BY <1>1 DEF AppRegisters, dbObjectVars
  <2> QED
    BY <2>1 DEF DbObjectInv, DbNoWaiter, DbAskedIsTold, StoredFollowsApp, Waiting
<1>13. ASSUME NEW w \in Warms, DiscoverAnswers(w)
       PROVE  DbNoWaiter' /\ DbAskedIsTold' /\ StoredFollowsApp'
  BY <1>13, DbDiscoversInv
<1>14. ASSUME NEW w \in Warms, DiscoverFails(w)
       PROVE  DbNoWaiter' /\ DbAskedIsTold' /\ StoredFollowsApp'
  BY <1>14, DbUndiscoveredInv
<1>2. ASSUME NEW w \in Warms, DbRing(w)
      PROVE  DbNoWaiter' /\ DbAskedIsTold' /\ StoredFollowsApp'
  <2>1. dbWarm' = [dbWarm EXCEPT ![w] = NoWarm]
        /\ UNCHANGED <<dbTold, dbLink, dbDiscovering, dbStored, dbAsked, dbFailed,
                       dbCrossed>>
    BY <1>2 DEF DbRing, dbAppVars
  <2>2. \A v \in Warms, f \in Families :
          \/ dbWarm'[v][f] = dbWarm[v][f]
          \/ dbWarm'[v][f] \notin Waiting /\ dbWarm[v][f] \notin Waiting
    BY <1>t, <1>2, <2>1 DEF DbRing, DbTypeOK, NoWarm, Waiting
  <2>3. \A f \in Families : Asking(f)' = Asking(f)
    BY <2>2 DEF Asking
  <2> QED
    BY <2>1, <2>2, <2>3
    DEF DbObjectInv, DbNoWaiter, DbAskedIsTold, StoredFollowsApp, Waiting, Listed
<1>3. ASSUME NEW w \in Warms, NEW f \in Families, HearsChange(w, f)
      PROVE  DbNoWaiter' /\ DbAskedIsTold' /\ StoredFollowsApp'
  <2>1. dbTold' \in [Families -> Contents]
        /\ \A g \in Families \ {f} : dbTold'[g] = dbTold[g]
    BY <1>t, <1>3 DEF HearsChange, DbTypeOK
  <2>2. dbLink /\ dbLink' /\ Idle(w) /\ Ask(w, {f}, dbTold')
        /\ UNCHANGED <<dbDiscovering, dbStored, dbFailed, dbCrossed>>
    BY <1>3 DEF HearsChange
  <2> QED
    BY <2>1, <2>2, DbAskInv
<1>4. ASSUME NEW w \in Warms, NEW f \in Families, Answer(w, f)
      PROVE  DbNoWaiter' /\ DbAskedIsTold' /\ StoredFollowsApp'
  BY <1>4, DbAnswerInv
<1>5. ASSUME NEW w \in Warms, NEW f \in Families, AnswerFails(w, f)
      PROVE  DbNoWaiter' /\ DbAskedIsTold' /\ StoredFollowsApp'
  <2>1. \A v \in Warms, g \in Families :
          IF v = w /\ g = f THEN dbWarm'[v][g] = "same"
          ELSE dbWarm'[v][g] = dbWarm[v][g] /\ dbAsked'[v][g] = dbAsked[v][g]
    BY <1>t, <1>5 DEF AnswerFails, DbTypeOK
  <2>2. \A g \in Families \ {f} : Asking(g)' = Asking(g)
    BY <2>1 DEF Asking
  <2>3. dbFailed' = dbFailed \cup {f} /\ UNCHANGED <<dbAppVars, dbStored, dbCrossed>>
    BY <1>5 DEF AnswerFails
  <2> QED
    BY <2>1, <2>2, <2>3
    DEF DbObjectInv, DbNoWaiter, DbAskedIsTold, StoredFollowsApp, Waiting, Listed, dbAppVars
<1>6. CASE DbFlushBells
  BY <1>6, DbObjectFrame DEF DbObjectInv, DbFlushBells, dbAppVars
<1>7. CASE LinkDrops
  <2>1. /\ ~dbLink' /\ ~dbDiscovering'
        /\ \A w \in Warms, f \in Families : dbWarm'[w][f] \notin Waiting
    BY <1>7 DEF LinkDrops, Waiting
  <2> QED
    BY <2>1 DEF DbNoWaiter, DbAskedIsTold, StoredFollowsApp, Waiting
<1>8. CASE ObjectRestarts
  <2>1. /\ ~dbLink' /\ ~dbDiscovering'
        /\ \A w \in Warms, f \in Families : dbWarm'[w][f] \notin Waiting
    BY <1>8 DEF ObjectRestarts, NoWarm, Waiting
  <2> QED
    BY <2>1 DEF DbNoWaiter, DbAskedIsTold, StoredFollowsApp, Waiting
<1>9. ASSUME NEW f \in Families, AppChanges(f)
      PROVE  DbNoWaiter' /\ DbAskedIsTold' /\ StoredFollowsApp'
  <2>1. CASE dbLink
    BY <1>9, <2>1, DbObjectFrame DEF DbObjectInv, AppChanges, DbObjectOnly, dbObjectVars
  <2>2. CASE ~dbLink
    <3>1. /\ ~dbLink' /\ ~dbDiscovering'
          /\ \A w \in Warms, g \in Families : dbWarm'[w][g] \notin Waiting
      BY <1>9, <2>2 DEF DbObjectInv, DbNoWaiter, AppChanges, DbObjectOnly, dbObjectVars
    <3> QED
      BY <3>1 DEF DbNoWaiter, DbAskedIsTold, StoredFollowsApp, Waiting
  <2> QED
    BY <2>1, <2>2
<1>10. ASSUME NEW f \in Families, ConsumerLists(f)
       PROVE  DbNoWaiter' /\ DbAskedIsTold' /\ StoredFollowsApp'
  <2>1. UNCHANGED <<dbTold, dbLink, dbDiscovering, dbStored, dbFailed, dbCrossed>>
    BY <1>10 DEF ConsumerLists, dbAppVars
  <2>2. CASE UNCHANGED <<dbWarm, dbAsked>>
    BY <2>1, <2>2, DbObjectFrame DEF DbObjectInv
  <2>3. CASE /\ dbStored[f] = Absent /\ dbLink /\ Asking(f) = {}
             /\ \E w \in Warms : Idle(w) /\ Ask(w, {f}, dbTold)
    BY <1>t, <2>1, <2>3, DbAskInv DEF DbTypeOK
  <2> QED
    BY <1>10, <2>2, <2>3 DEF ConsumerLists
<1>11. CASE DbStreamStep
  BY <1>11, DbStreamKeeps, DbObjectFrame DEF DbObjectInv, dbAppVars, dbObjectVars
<1>12. CASE UNCHANGED dbVars
  BY <1>12, DbObjectFrame DEF DbObjectInv, dbVars, dbAppVars, dbObjectVars
<1> QED
  BY <1>1, <1>2, <1>3, <1>4, <1>5, <1>6, <1>7, <1>8, <1>9, <1>10, <1>11, <1>12,
     <1>13, <1>14
  DEF DbNext, DbStreamStep

LEMMA DbObjectInit == DbInit => DbObjectInv
  BY DbInitType
  DEF DbInit, DbObjectInv, DbNoWaiter, DbAskedIsTold, StoredFollowsApp, NoWarm, Waiting

(* What the hub stores is what it was last told the app lists, except while
   the app's server/discover or a re-list is under way, after a re-list that
   failed, and after the answer to an overtaken request was written last. *)
THEOREM DbStoredFollowsApp == DbSpec => []StoredFollowsApp
<1>1. DbInit => DbObjectInv
  BY DbObjectInit
<1>2. DbObjectInv /\ [DbNext]_dbVars => DbObjectInv'
  BY DbObjectNext
<1>3. DbObjectInv => StoredFollowsApp
  BY DEF DbObjectInv
<1> QED
  BY <1>1, <1>2, <1>3, PTL DEF DbSpec

-----------------------------------------------------------------------------
(* The held stream *)

(* Only an open stream has a consumer with a view; a socket is held while it is
   in the stream's map; and a stream that has ended under a running tick was
   cut short. *)
DbNoView == dbStream # "open" => \A f \in Families : dbView[f] = Absent
DbMapIsSocket == dbMapped <=> dbSocket # "none"
DbTickKnows ==
  dbStream = "ended" /\ dbTick \in {"reauthorizing", "resolving", "opening"} => dbCutShort

DbStreamInv ==
  /\ DbTypeOK /\ DbNoView /\ DbMapIsSocket /\ DbTickKnows
  /\ EndedStreamHoldsNothing /\ NoSilentStaleness

(* A family whose stored list stays what it was, whose view is not taken and
   whose bell, if it was on its way, still is. *)
DbBellKept(f) ==
  /\ Listed(dbStored[f])' = Listed(dbStored[f]) /\ dbView'[f] = dbView[f]
  /\ BellOnItsWay(f) => BellOnItsWay(f)'

(* Nor is a family out of date that got a bell, or was listed just now. *)
DbCared(f) ==
  DbBellKept(f) \/ BellOnItsWay(f)' \/ dbView'[f] = Listed(dbStored[f])'

(* Steps that leave the stream's state and its socket's alone keep the
   invariant when every family keeps its bell, gets one or is listed. *)
LEMMA DbStreamFrame ==
  ASSUME DbStreamInv, DbTypeOK',
         UNCHANGED <<dbStream, dbTick, dbMapped, dbCutShort>>,
         \/ dbSocket' = dbSocket
         \/ dbSocket = "open" /\ dbSocket' = "closing",
         dbStream # "open" => UNCHANGED dbView,
         dbSocket' = "open" => \A f \in Families : DbCared(f)
  PROVE  DbStreamInv'
<1>1. DbNoView'
  BY DEF DbStreamInv, DbNoView
<1>2. DbMapIsSocket' /\ DbTickKnows' /\ EndedStreamHoldsNothing'
  BY DEF DbStreamInv, DbMapIsSocket, DbTickKnows, EndedStreamHoldsNothing
<1>3. NoSilentStaleness'
  BY DEF DbStreamInv, NoSilentStaleness, DbBellKept, DbCared
<1> QED
  BY <1>1, <1>2, <1>3 DEF DbStreamInv

(* A stream that ends takes its view, its socket and its bells with it. *)
LEMMA DbEndInv ==
  ASSUME DbStreamInv, DbTypeOK', Ended, UNCHANGED dbCutShort,
         dbTick' \in {"idle", "stopped"}
  PROVE  DbStreamInv'
  BY DEF DbStreamInv, Ended, DbNoView, DbMapIsSocket, DbTickKnows,
         EndedStreamHoldsNothing, NoSilentStaleness

(* A step of the stream keeps its invariant. *)
LEMMA DbStreamStepInv ==
  ASSUME DbStreamInv, DbTypeOK', DbStreamStep
  PROVE  DbStreamInv'
<1>t. DbTypeOK /\ DbNoView /\ DbMapIsSocket /\ DbTickKnows
      /\ EndedStreamHoldsNothing /\ NoSilentStaleness
  BY DEF DbStreamInv
<1>a. UNCHANGED <<dbAppVars, dbObjectVars>>
  BY DbStreamKeeps
<1>b. UNCHANGED <<dbStored, dbWarm, dbOwed>>
  BY <1>a DEF dbObjectVars
<1>1. CASE Listen
  BY <1>t, <1>1
  DEF Listen, DbStreamInv, DbNoView, DbMapIsSocket, DbTickKnows, dbWorldVars,
      EndedStreamHoldsNothing, NoSilentStaleness
<1>2. CASE SocketCloses
  <2>1. CASE dbMapped /\ dbStream = "open"
    BY <1>t, <1>2, <2>1
    DEF SocketCloses, Ended, DbStreamInv, DbTypeOK, TickStates, DbNoView, DbMapIsSocket,
        DbTickKnows, EndedStreamHoldsNothing, NoSilentStaleness
  <2>2. CASE ~(dbMapped /\ dbStream = "open")
    BY <1>t, <1>2, <2>2
    DEF SocketCloses, DbStreamInv, DbTypeOK, TickStates, DbNoView, DbMapIsSocket,
        DbTickKnows, EndedStreamHoldsNothing, NoSilentStaleness
  <2> QED
    BY <2>1, <2>2
<1>3. CASE DbTickStep
  <2>0. ASSUME UNCHANGED dbEndVars, UNCHANGED dbCutShort,
               dbStream = "ended" /\ dbTick' \in {"reauthorizing", "resolving", "opening"}
                 => dbTick \in {"reauthorizing", "resolving", "opening"}
        PROVE  DbStreamInv'
    <3>1. \A f \in Families : BellOnItsWay(f)' <=> BellOnItsWay(f)
      BY <1>b, <2>0 DEF dbEndVars, BellOnItsWay
    <3>2. NoSilentStaleness'
      BY <1>t, <1>b, <2>0, <3>1 DEF dbEndVars, NoSilentStaleness, Listed
    <3> QED
      BY <1>t, <2>0, <3>2
      DEF dbEndVars, DbStreamInv, DbNoView, DbMapIsSocket, DbTickKnows,
          EndedStreamHoldsNothing
  <2>1. CASE TickBegins
    <3>1. CASE dbStream = "ended" /\ dbTick' = "stopped" /\ UNCHANGED dbEndVars
      BY <2>0, <2>1, <3>1 DEF TickBegins
    <3>2. CASE Ended /\ dbTick' = "stopped"
      BY <2>1, <3>2, DbEndInv DEF TickBegins
    <3>3. CASE /\ dbStream = "open" /\ dbTick' = "reauthorizing"
               /\ UNCHANGED <<dbStream, dbMapped, dbSocket, dbTransit, dbBody, dbView>>
      <4>1. UNCHANGED dbCutShort
        BY <2>1 DEF TickBegins
      <4>2. \A f \in Families : BellOnItsWay(f)' <=> BellOnItsWay(f)
        BY <1>b, <3>3 DEF BellOnItsWay
      <4>3. NoSilentStaleness'
        BY <1>t, <1>b, <3>3, <4>2 DEF NoSilentStaleness, Listed
      <4> QED
        BY <1>t, <3>3, <4>1, <4>3
        DEF DbStreamInv, DbNoView, DbMapIsSocket, DbTickKnows, EndedStreamHoldsNothing
    <3> QED
      BY <2>1, <3>1, <3>2, <3>3 DEF TickBegins
  <2>2. CASE TickReauthorizes
    <3>1. CASE UNCHANGED dbEndVars
      BY <2>0, <2>2, <3>1 DEF TickReauthorizes
    <3>2. CASE Ended /\ dbTick' = "stopped"
      BY <2>2, <3>2, DbEndInv DEF TickReauthorizes
    <3> QED
      BY <2>2, <3>1, <3>2 DEF TickReauthorizes, EndOnce
  <2>3. CASE TickResolves
    <3>1. CASE UNCHANGED dbEndVars
      BY <2>0, <2>3, <3>1 DEF TickResolves
    <3>2. CASE Ended /\ dbTick' = "stopped"
      BY <2>3, <3>2, DbEndInv DEF TickResolves
    <3> QED
      BY <2>3, <3>1, <3>2 DEF TickResolves, EndOnce
  <2>4. CASE TickOpens
    <3>1. CASE /\ dbMapped' = TRUE /\ dbSocket' = "open"
               /\ dbBody' = IF dbStream = "open" THEN Families ELSE dbBody
               /\ dbTick' = IF dbStream = "ended" THEN "stopped" ELSE "idle"
               /\ UNCHANGED <<dbStream, dbTransit, dbKeepalive, dbView>>
      <4>1. dbTick = "opening" /\ UNCHANGED dbCutShort
        BY <2>4 DEF TickOpens
      <4>2. NoSilentStaleness'
        BY <3>1 DEF NoSilentStaleness, BellOnItsWay
      <4>3. EndedStreamHoldsNothing' /\ DbTickKnows'
        BY <1>t, <3>1, <4>1 DEF EndedStreamHoldsNothing, DbTickKnows
      <4> QED
        BY <1>t, <3>1, <4>2, <4>3 DEF DbStreamInv, DbNoView, DbMapIsSocket
    <3>2. CASE EndOnce /\ dbTick' = "stopped"
      <4>1. CASE UNCHANGED dbEndVars
        BY <2>0, <2>4, <3>2, <4>1 DEF TickOpens
      <4>2. CASE Ended
        BY <2>4, <3>2, <4>2, DbEndInv DEF TickOpens
      <4> QED
        BY <3>2, <4>1, <4>2 DEF EndOnce
    <3> QED
      BY <2>4, <3>1, <3>2 DEF TickOpens
  <2> QED
    BY <1>3, <2>1, <2>2, <2>3, <2>4 DEF DbTickStep
<1>4. ASSUME NEW f \in Families, Relay(f) PROVE DbStreamInv'
  <2>1. /\ UNCHANGED <<dbStream, dbTick, dbMapped, dbSocket, dbCutShort, dbView>>
        /\ dbTransit' = dbTransit \ {f}
        /\ dbBody' = IF dbMapped /\ dbStream = "open" THEN dbBody \cup {f} ELSE dbBody
    BY <1>4 DEF Relay, dbWorldVars
  <2>2. ASSUME dbStream = "open", dbSocket = "open", NEW g \in Families
        PROVE  BellOnItsWay(g) => BellOnItsWay(g)'
    BY <1>t, <1>b, <2>1, <2>2 DEF BellOnItsWay, DbMapIsSocket
  <2>3. NoSilentStaleness'
    BY <1>t, <1>b, <2>1, <2>2 DEF NoSilentStaleness, Listed
  <2> QED
    BY <1>t, <2>1, <2>3
    DEF DbStreamInv, DbNoView, DbMapIsSocket, DbTickKnows, EndedStreamHoldsNothing
<1>5. CASE ConsumerReadsOn
  <2>1. UNCHANGED <<dbStream, dbTick, dbMapped, dbSocket, dbCutShort, dbView, dbTransit,
                    dbBody>>
    BY <1>5 DEF ConsumerReadsOn, dbWorldVars
  <2>2. \A f \in Families : DbCared(f)
    BY <1>b, <2>1 DEF DbCared, DbBellKept, BellOnItsWay, Listed
  <2> QED
    BY <2>1, <2>2, DbStreamFrame
<1>6. CASE Befalls
  <2>1. UNCHANGED <<dbStream, dbTick, dbMapped, dbSocket, dbCutShort, dbView, dbTransit,
                    dbBody>>
    BY <1>6 DEF Befalls, DbObjectOnly, dbStreamVars
  <2>2. \A f \in Families : DbCared(f)
    BY <1>b, <2>1 DEF DbCared, DbBellKept, BellOnItsWay, Listed
  <2> QED
    BY <2>1, <2>2, DbStreamFrame
<1> QED
  BY <1>1, <1>2, <1>3, <1>4, <1>5, <1>6 DEF DbStreamStep

(* So does a step of the object, of the app or of the consumer's list. *)
LEMMA DbStreamNext == DbStreamInv /\ [DbNext]_dbVars => DbStreamInv'
<1> SUFFICES ASSUME DbStreamInv, [DbNext]_dbVars PROVE DbStreamInv'
  OBVIOUS
<1>t. DbTypeOK /\ DbTypeOK' /\ DbNoView
  BY DbNextType DEF DbStreamInv
<1>0. ASSUME UNCHANGED <<dbStreamVars, dbWorldVars>>,
             \A f \in Families : DbCared(f)
      PROVE  DbStreamInv'
  BY <1>t, <1>0, DbStreamFrame DEF dbStreamVars, dbWorldVars
<1>1. CASE AppRegisters
  <2>1. UNCHANGED <<dbStreamVars, dbWorldVars, dbOwed, dbStored, dbWarm>>
    BY <1>1 DEF AppRegisters, dbObjectVars
  <2>2. \A f \in Families : DbCared(f)
    BY <2>1 DEF DbCared, DbBellKept, BellOnItsWay, Listed, dbStreamVars, dbWorldVars
  <2> QED
    BY <1>0, <2>1, <2>2
<1>13. ASSUME NEW w \in Warms, DiscoverAnswers(w) PROVE DbStreamInv'
  <2>1. UNCHANGED <<dbStreamVars, dbWorldVars, dbOwed>> /\ Idle(w)
    BY <1>13 DEF DiscoverAnswers
  <2>2. PICK served \in SUBSET Families :
          /\ dbWarm' = Asked(w, served, DbUnserved)
          /\ dbAsked' = AsksFor(w, served, dbTold)
          /\ dbStored' = [f \in Families |-> IF f \in served THEN dbStored[f] ELSE 0]
    BY <1>13 DEF DiscoverAnswers, DbUnserved
  <2>3. \A v \in Warms, f \in Families :
          dbWarm[v][f] = "changed" => dbWarm'[v][f] = "changed"
    BY <1>t, <2>1, <2>2, DbDiscoverGrows DEF DbGrown
  <2>4. ASSUME NEW f \in Families PROVE DbCared(f)
    <3>1. BellOnItsWay(f) => BellOnItsWay(f)'
      BY <2>1, <2>3 DEF BellOnItsWay, dbStreamVars
    <3>2. CASE f \in served \/ ~Differs(f, 0)
      <4>1. Listed(dbStored[f])' = Listed(dbStored[f])
        BY <2>2, <3>2 DEF Listed, Differs, Absent
      <4> QED
        BY <2>1, <3>1, <4>1 DEF DbCared, DbBellKept, dbWorldVars
    <3>3. CASE f \notin served /\ Differs(f, 0)
      <4>1. dbWarm'[w][f] = "changed"
        BY <2>2, <3>3 DEF Asked, DbUnserved
      <4> QED
        BY <4>1 DEF DbCared, BellOnItsWay
    <3> QED
      BY <3>2, <3>3
  <2> QED
    BY <1>0, <2>1, <2>4
<1>14. ASSUME NEW w \in Warms, DiscoverFails(w) PROVE DbStreamInv'
  <2>1. UNCHANGED <<dbStreamVars, dbWorldVars, dbOwed, dbStored>>
    BY <1>14 DEF DiscoverFails
  <2>2. DbGrown(w, {ToolFamily}, dbTold)
    BY <1>14, <1>t, DbAskGrows, DoorbellAssumption DEF DiscoverFails, DbTypeOK
  <2>3. \A f \in Families : DbCared(f)
    BY <2>1, <2>2
    DEF DbCared, DbBellKept, BellOnItsWay, DbGrown, Listed, dbStreamVars, dbWorldVars
  <2> QED
    BY <1>0, <2>1, <2>3
<1>2. ASSUME NEW w \in Warms, NEW f \in Families, HearsChange(w, f) PROVE DbStreamInv'
  <2>1. UNCHANGED <<dbStreamVars, dbWorldVars, dbOwed, dbStored>>
    BY <1>2 DEF HearsChange
  <2>2. dbTold' \in [Families -> Contents] /\ {f} \in SUBSET Families /\ Idle(w)
        /\ Ask(w, {f}, dbTold')
    BY <1>2, <1>t DEF HearsChange, DbTypeOK
  <2>3. DbGrown(w, {f}, dbTold')
    BY <1>t, <2>2, DbAskGrows
  <2>4. \A g \in Families : DbCared(g)
    BY <2>1, <2>3 DEF DbCared, DbBellKept, BellOnItsWay, DbGrown, Listed, dbStreamVars, dbWorldVars
  <2> QED
    BY <1>0, <2>1, <2>4
<1>3. ASSUME NEW w \in Warms, NEW f \in Families, Answer(w, f) PROVE DbStreamInv'
  <2>1. UNCHANGED <<dbStreamVars, dbWorldVars, dbOwed>>
    BY <1>3 DEF Answer
  <2>2. PICK c \in {dbAsked[w][f], dbTold[f]} :
          /\ dbWarm' = [dbWarm EXCEPT ![w][f] =
                          IF Differs(f, c) THEN "changed" ELSE "same"]
          /\ dbStored' = [dbStored EXCEPT ![f] = c]
    BY <1>3 DEF Answer
  <2>3. w \in Asking(f) /\ c \in Contents
    BY <1>3, <1>t, <2>2 DEF Answer, DbTypeOK
  <2>4. \A v \in Warms, g \in Families :
          dbWarm[v][g] = "changed" => dbWarm'[v][g] = "changed"
    BY <1>t, <2>2, <2>3 DEF DbTypeOK, Asking, Waiting
  <2>5. ASSUME NEW g \in Families PROVE DbCared(g)
    <3>1. BellOnItsWay(g) => BellOnItsWay(g)'
      BY <2>1, <2>4 DEF BellOnItsWay, dbStreamVars
    <3>2. CASE g = f /\ Differs(f, c)
      <4>1. dbWarm'[w][f] = "changed"
        BY <1>t, <2>2, <3>2 DEF DbTypeOK
      <4> QED
        BY <3>2, <4>1 DEF DbCared, BellOnItsWay
    <3>3. CASE ~(g = f /\ Differs(f, c))
      <4>1. Listed(dbStored[g])' = Listed(dbStored[g])
        BY <1>t, <2>2, <2>3, <3>3, DoorbellAssumption DEF DbTypeOK, Listed, Differs, Absent
      <4> QED
        BY <2>1, <3>1, <4>1 DEF DbCared, DbBellKept, dbWorldVars
    <3> QED
      BY <3>2, <3>3
  <2> QED
    BY <1>0, <2>1, <2>5
<1>4. ASSUME NEW w \in Warms, NEW f \in Families, AnswerFails(w, f) PROVE DbStreamInv'
  <2>1. UNCHANGED <<dbStreamVars, dbWorldVars, dbOwed, dbStored>>
    BY <1>4 DEF AnswerFails
  <2>2. \A v \in Warms, g \in Families :
          dbWarm[v][g] = "changed" => dbWarm'[v][g] = "changed"
    BY <1>4, <1>t DEF AnswerFails, DbTypeOK, Asking, Waiting
  <2>3. \A g \in Families : DbCared(g)
    BY <2>1, <2>2 DEF DbCared, DbBellKept, BellOnItsWay, Listed, dbStreamVars, dbWorldVars
  <2> QED
    BY <1>0, <2>1, <2>3
<1>5. ASSUME NEW w \in Warms, DbRing(w) PROVE DbStreamInv'
  <2>1. UNCHANGED <<dbStored, dbStream, dbTick, dbMapped, dbSocket, dbBody, dbCutShort,
                    dbView>>
    BY <1>5 DEF DbRing, dbWorldVars
  <2>2. PICK now \in SUBSET {f \in Families : dbWarm[w][f] = "changed"} :
          /\ Fanout(now)
          /\ dbOwed' = dbOwed \cup ({f \in Families : dbWarm[w][f] = "changed"} \ now)
    BY <1>5 DEF DbRing
  <2>3. ASSUME dbSocket = "open", NEW f \in Families
        PROVE  DbCared(f)
    <3>1. CASE dbWarm[w][f] = "changed"
      <4>1. f \in dbOwed' \cup dbTransit'
        BY <2>2, <2>3, <3>1 DEF Fanout
      <4> QED
        BY <4>1 DEF DbCared, BellOnItsWay
    <3>2. CASE dbWarm[w][f] # "changed"
      <4>1. dbOwed \subseteq dbOwed' /\ dbTransit \subseteq dbTransit'
        BY <2>2, <2>3 DEF Fanout
      <4>2. \A v \in Warms : dbWarm[v][f] = "changed" => dbWarm'[v][f] = "changed"
        BY <1>5, <1>t, <3>2 DEF DbRing, DbTypeOK
      <4> QED
        BY <2>1, <4>1, <4>2 DEF DbCared, DbBellKept, BellOnItsWay, Listed
    <3> QED
      BY <3>1, <3>2
  <2> QED
    BY <1>t, <2>1, <2>3, DbStreamFrame
<1>6. CASE DbFlushBells
  <2>1. UNCHANGED <<dbStored, dbStream, dbTick, dbMapped, dbSocket, dbBody, dbCutShort,
                    dbView, dbWarm>>
    BY <1>6 DEF DbFlushBells, dbWorldVars
  <2>2. ASSUME dbSocket = "open", NEW f \in Families PROVE DbCared(f)
    BY <1>6, <2>1, <2>2 DEF DbFlushBells, Fanout, DbCared, DbBellKept, BellOnItsWay, Listed
  <2> QED
    BY <1>t, <2>1, <2>2, DbStreamFrame
<1>7. CASE LinkDrops
  <2>1. UNCHANGED <<dbStreamVars, dbWorldVars, dbOwed, dbStored>>
    BY <1>7 DEF LinkDrops
  <2>2. \A v \in Warms, g \in Families :
          dbWarm[v][g] = "changed" => dbWarm'[v][g] = "changed"
    BY <1>7 DEF LinkDrops, Waiting
  <2>3. \A g \in Families : DbCared(g)
    BY <2>1, <2>2 DEF DbCared, DbBellKept, BellOnItsWay, Listed, dbStreamVars, dbWorldVars
  <2> QED
    BY <1>0, <2>1, <2>3
<1>8. CASE ObjectRestarts
  <2>1. /\ UNCHANGED <<dbStream, dbTick, dbMapped, dbCutShort, dbView>>
        /\ dbSocket' = IF dbSocket = "open" THEN "closing" ELSE dbSocket
    BY <1>8 DEF ObjectRestarts, dbWorldVars
  <2> QED
    BY <1>t, <2>1, DbStreamFrame
<1>9. ASSUME NEW f \in Families, AppChanges(f) PROVE DbStreamInv'
  <2>1. UNCHANGED <<dbStreamVars, dbWorldVars, dbOwed, dbStored, dbWarm>>
    BY <1>9 DEF AppChanges, DbObjectOnly, dbObjectVars
  <2>2. \A g \in Families : DbCared(g)
    BY <2>1 DEF DbCared, DbBellKept, BellOnItsWay, Listed, dbStreamVars, dbWorldVars
  <2> QED
    BY <1>0, <2>1, <2>2
<1>10. ASSUME NEW f \in Families, ConsumerLists(f) PROVE DbStreamInv'
  <2>1. /\ UNCHANGED <<dbStored, dbOwed, dbStream, dbTick, dbMapped, dbSocket, dbTransit,
                       dbCutShort>>
        /\ dbStream = "open" /\ dbBody' = dbBody \ {f}
        /\ dbView' = [dbView EXCEPT ![f] = Listed(dbStored[f])]
    BY <1>10 DEF ConsumerLists
  <2>2. \A v \in Warms, g \in Families :
          dbWarm[v][g] = "changed" => dbWarm'[v][g] = "changed"
    <3>1. CASE UNCHANGED dbWarm
      BY <3>1
    <3>2. CASE \E w \in Warms : Idle(w) /\ Ask(w, {f}, dbTold)
      <4>1. PICK w \in Warms : Idle(w) /\ Ask(w, {f}, dbTold)
        BY <3>2
      <4>2. DbGrown(w, {f}, dbTold)
        BY <1>t, <4>1, DbAskGrows DEF DbTypeOK
      <4> QED
        BY <4>2 DEF DbGrown
    <3> QED
      BY <1>10, <3>1, <3>2 DEF ConsumerLists
  <2>3. dbView'[f] = Listed(dbStored[f])'
    BY <1>t, <2>1 DEF DbTypeOK, Listed
  <2>4. \A g \in Families \ {f} : DbCared(g)
    BY <1>t, <2>1, <2>2 DEF DbTypeOK, DbCared, DbBellKept, BellOnItsWay, Listed
  <2> QED
    BY <1>t, <2>1, <2>3, <2>4, DbStreamFrame DEF DbCared
<1>11. CASE DbStreamStep
  BY <1>t, <1>11, DbStreamStepInv
<1>12. CASE UNCHANGED dbVars
  <2>1. UNCHANGED <<dbStreamVars, dbWorldVars, dbOwed, dbStored, dbWarm>>
    BY <1>12 DEF dbVars, dbObjectVars
  <2>2. \A g \in Families : DbCared(g)
    BY <2>1 DEF DbCared, DbBellKept, BellOnItsWay, Listed, dbStreamVars, dbWorldVars
  <2> QED
    BY <1>0, <2>1, <2>2
<1> QED
  BY <1>1, <1>2, <1>3, <1>4, <1>5, <1>6, <1>7, <1>8, <1>9, <1>10, <1>11, <1>12,
     <1>13, <1>14
  DEF DbNext, DbStreamStep

LEMMA DbStreamInit == DbInit => DbStreamInv
  BY DbInitType
  DEF DbInit, DbStreamInv, DbNoView, DbMapIsSocket, DbTickKnows, EndedStreamHoldsNothing,
      NoSilentStaleness

(* A consumer whose stream and socket are open is never silently behind what the
   hub stores. *)
THEOREM DbNoSilentStaleness == DbSpec => []NoSilentStaleness
<1>1. DbInit => DbStreamInv
  BY DbStreamInit
<1>2. DbStreamInv /\ [DbNext]_dbVars => DbStreamInv'
  BY DbStreamNext
<1>3. DbStreamInv => NoSilentStaleness
  BY DEF DbStreamInv
<1> QED
  BY <1>1, <1>2, <1>3, PTL DEF DbSpec

(* Subscriptions die with the stream, unless it was cut short. *)
THEOREM DbEndedHoldsNothing == DbSpec => []EndedStreamHoldsNothing
<1>1. DbInit => DbStreamInv
  BY DbStreamInit
<1>2. DbStreamInv /\ [DbNext]_dbVars => DbStreamInv'
  BY DbStreamNext
<1>3. DbStreamInv => EndedStreamHoldsNothing
  BY DEF DbStreamInv
<1> QED
  BY <1>1, <1>2, <1>3, PTL DEF DbSpec

(* A list the consumer holds that is not what the app told the hub is cared for. *)
DbHeardFromApp ==
  dbLink /\ ~dbDiscovering /\ dbStream = "open" /\ dbSocket = "open" =>
    \A f \in Families :
      dbView[f] # Absent /\ dbView[f] # dbTold[f] =>
        BellOnItsWay(f) \/ Asking(f) # {} \/ f \in dbFailed \cup dbCrossed

(* From the app to the consumer: on a live app socket whose server/discover has
   been answered or given up, and an open stream, a list the consumer holds that
   is not what the app told the hub has its bell on the way, a re-list under
   way, or a re-list behind it that failed or was answered late. *)
THEOREM DbEndToEnd == DbSpec => []DbHeardFromApp
<1>1. NoSilentStaleness /\ StoredFollowsApp => DbHeardFromApp
  BY DEF NoSilentStaleness, StoredFollowsApp, DbHeardFromApp
<1> QED
  BY <1>1, DbNoSilentStaleness, DbStoredFollowsApp, PTL

-----------------------------------------------------------------------------
(* What is on a wire *)

TcHas(s, F) == \E i \in 1 .. Len(s) : s[i] \in F

(* What a socket says is said in order: hearing a frame takes it off. *)
LEMMA TcHasTail ==
  ASSUME NEW s \in Seq(TcFrames), s # <<>>, NEW F
  PROVE  /\ Head(s) \in TcFrames /\ Tail(s) \in Seq(TcFrames)
         /\ TcHas(Tail(s), F) => TcHas(s, F)
         /\ TcHas(s, F) /\ Head(s) \notin F => TcHas(Tail(s), F)
         /\ Head(s) \in F => TcHas(s, F)
<1>1. Head(s) \in TcFrames /\ Tail(s) \in Seq(TcFrames)
  OBVIOUS
<1>2. ASSUME NEW i \in 1 .. Len(Tail(s)), Tail(s)[i] \in F PROVE TcHas(s, F)
  <2>1. i + 1 \in 1 .. Len(s) /\ s[i + 1] = Tail(s)[i]
    OBVIOUS
  <2> QED
    BY <1>2, <2>1 DEF TcHas
<1>3. ASSUME NEW i \in 1 .. Len(s), s[i] \in F, Head(s) \notin F
      PROVE  TcHas(Tail(s), F)
  <2>1. i # 1
    BY <1>3
  <2>2. i - 1 \in 1 .. Len(Tail(s)) /\ Tail(s)[i - 1] = s[i]
    BY <2>1
  <2> QED
    BY <1>3, <2>2 DEF TcHas
<1>4. Head(s) \in F => TcHas(s, F)
  <2>1. 1 \in 1 .. Len(s) /\ Head(s) = s[1]
    OBVIOUS
  <2> QED
    BY <2>1 DEF TcHas
<1> QED
  BY <1>1, <1>2, <1>3, <1>4 DEF TcHas

LEMMA TcHasAppend ==
  ASSUME NEW s \in Seq(TcFrames), NEW e \in TcFrames, NEW F
  PROVE  /\ Append(s, e) \in Seq(TcFrames)
         /\ TcHas(Append(s, e), F) <=> TcHas(s, F) \/ e \in F
<1>1. Append(s, e) \in Seq(TcFrames) /\ Len(Append(s, e)) = Len(s) + 1
      /\ \A i \in 1 .. Len(s) : Append(s, e)[i] = s[i]
      /\ Append(s, e)[Len(s) + 1] = e
  OBVIOUS
<1>2. \A i \in 1 .. Len(s) + 1 : i \in 1 .. Len(s) \/ i = Len(s) + 1
  OBVIOUS
<1>3. Len(s) + 1 \in 1 .. Len(s) + 1 /\ \A i \in 1 .. Len(s) : i \in 1 .. Len(s) + 1
  OBVIOUS
<1> QED
  BY <1>1, <1>2, <1>3 DEF TcHas

LEMMA TcHasOne ==
  ASSUME NEW e \in TcFrames, NEW F
  PROVE  /\ <<e>> \in Seq(TcFrames) /\ <<>> \in Seq(TcFrames) /\ <<e>> # <<>>
         /\ TcHas(<<e>>, F) <=> e \in F
<1>1. <<e>> \in Seq(TcFrames) /\ Len(<<e>>) = 1 /\ <<e>>[1] = e /\ <<>> \in Seq(TcFrames)
  OBVIOUS
<1>2. \A i \in 1 .. 1 : i = 1
  OBVIOUS
<1>3. 1 \in 1 .. 1
  OBVIOUS
<1> QED
  BY <1>1, <1>2, <1>3 DEF TcHas

LEMMA TcHasNone == \A F : ~TcHas(<<>>, F)
<1>1. Len(<<>>) = 0 /\ 1 .. 0 = {}
  OBVIOUS
<1> QED
  BY <1>1 DEF TcHas

-----------------------------------------------------------------------------
(* Steps *)

TcClosing == TcFrames \ {"open", "ok"}
TcWorking == {"registering", "serving"}
TcStill == {"idle", "waiting", "over", "dead"}

TcForgets(c) ==
  /\ tcWire' = [tcWire EXCEPT ![c] = <<>>]
  /\ tcHolder' = IF tcHolder = c THEN TcNobody ELSE tcHolder

(* What hearing a frame does, whichever the library. *)
TcHeardFacts(c) ==
  /\ UNCHANGED <<tcLib, tcShut, tcHub, tcApp, tcFaults>>
  /\ tcExcused => tcExcused'
  /\ tcExcused' \in BOOLEAN
  /\ tcAttempt' \in [TcClients -> 0 .. TcMaxAttempt]
  /\ \/ /\ Head(tcWire[c]) = "open"
        /\ tcPlace' = [tcPlace EXCEPT ![c] = "registering"]
        /\ tcWire' = [tcWire EXCEPT ![c] = Tail(tcWire[c])]
        /\ UNCHANGED tcHolder
     \/ /\ Head(tcWire[c]) = "ok" /\ c \notin tcShut
        /\ tcPlace' = [tcPlace EXCEPT ![c] = "serving"]
        /\ tcWire' = [tcWire EXCEPT ![c] = Tail(tcWire[c])]
        /\ UNCHANGED tcHolder
     \/ /\ Head(tcWire[c]) = "ok" /\ c \in tcShut
        /\ tcPlace' = [tcPlace EXCEPT ![c] = IF tcLib[c] = "go" THEN "over" ELSE "serving"]
        /\ TcForgets(c)
     \/ /\ Head(tcWire[c]) \in TcClosing
        /\ TcForgets(c)
        /\ \/ tcPlace' = [tcPlace EXCEPT ![c] = "waiting"]
           \/ /\ tcPlace' = [tcPlace EXCEPT ![c] = "over"]
              /\ Head(tcWire[c]) = "refused" => tcExcused'
              /\ Head(tcWire[c]) \in {"4000", "4001", "401", "refused"}
           \/ tcPlace' = [tcPlace EXCEPT ![c] = "dead"] /\ tcExcused'

LEMMA TcHearsFacts ==
  ASSUME TcTypeOK, NEW c \in TcClients, TcHears(c)
  PROVE  TcHeardFacts(c)
<1> DEFINE frame == Head(tcWire[c])
<1>0. frame \in TcFrames /\ tcWire[c] # <<>>
  <2>1. tcWire[c] \in Seq(TcFrames) /\ tcWire[c] # <<>>
    BY DEF TcTypeOK, TcHears
  <2> QED
    BY <2>1, TcHasTail
<1> HIDE DEF frame
<1>t. /\ tcPlace \in [TcClients -> TcPlaces] /\ tcAttempt \in [TcClients -> 0 .. TcMaxAttempt]
      /\ tcExcused \in BOOLEAN /\ TcMaxAttempt \in Nat
  BY TunnelClientAssumption DEF TcTypeOK
<1>m. \A n \in 0 .. TcMaxAttempt : TcMore(n) \in 0 .. TcMaxAttempt
  BY <1>t DEF TcMore
<1>1. TcJsHears(c, frame) \/ TcPyHears(c, frame) \/ TcGoHears(c, frame) \/ TcRustHears(c, frame)
  BY DEF TcHears, frame
<1>2. TcEnding(frame) \in {"stop_quiet", "stop_fatal"} =>
        frame \in {"4000", "4001", "401", "refused"}
  BY DEF TcEnding, TcUpgradeEnding, TcCloseEnding
<1>3. tcAttempt' \in [TcClients -> 0 .. TcMaxAttempt]
  <2>1. CASE TcJsHears(c, frame)
    BY <1>t, <1>m, <2>1 DEF TcJsHears, TcMoves, TcStops
  <2>2. CASE TcPyHears(c, frame)
    BY <1>t, <1>m, <2>2 DEF TcPyHears, TcMoves, TcStops
  <2>3. CASE TcGoHears(c, frame)
    BY <1>t, <1>m, <2>3 DEF TcGoHears, TcMoves, TcStops
  <2>4. CASE TcRustHears(c, frame)
    BY <1>t, <1>m, <2>4 DEF TcRustHears, TcMoves, TcStops
  <2> QED
    BY <1>1, <2>1, <2>2, <2>3, <2>4
<1>4. \/ frame = "open" /\ tcPlace' = [tcPlace EXCEPT ![c] = "registering"]
      \/ /\ frame = "ok"
         /\ tcPlace' = [tcPlace EXCEPT ![c] =
                          IF tcLib[c] = "go" /\ c \in tcShut THEN "over" ELSE "serving"]
      \/ /\ frame \notin {"open", "ok"}
         /\ \/ tcPlace' = [tcPlace EXCEPT ![c] = "waiting"]
            \/ /\ tcPlace' = [tcPlace EXCEPT ![c] = "over"]
               /\ frame \in {"4000", "4001", "401", "refused"}
            \/ tcPlace' = [tcPlace EXCEPT ![c] = "dead"]
  <2>1. CASE TcJsHears(c, frame)
    BY <1>2, <2>1 DEF TcJsHears, TcMoves, TcStops
  <2>2. CASE TcPyHears(c, frame)
    BY <1>2, <2>2 DEF TcPyHears, TcMoves, TcStops
  <2>3. CASE TcGoHears(c, frame)
    BY <1>2, <2>3 DEF TcGoHears, TcMoves, TcStops
  <2>4. CASE TcRustHears(c, frame)
    BY <1>2, <2>4 DEF TcRustHears, TcMoves, TcStops
  <2> QED
    BY <1>1, <2>1, <2>2, <2>3, <2>4
<1>5. CASE frame = "ok" /\ c \in tcShut
  <2>1. /\ TcForgets(c)
        /\ UNCHANGED <<tcLib, tcShut, tcHub, tcApp, tcFaults, tcExcused>>
    BY <1>5 DEF TcHears, TcForgets, frame
  <2> QED
    BY <1>t, <1>3, <1>4, <1>5, <2>1 DEF TcHeardFacts, frame
<1>6. CASE ~(frame = "ok" /\ c \in tcShut)
  <2>1. TcHeard(c, frame)
    BY <1>6 DEF TcHears, frame
  <2>2. /\ UNCHANGED <<tcLib, tcShut, tcHub, tcApp, tcFaults>>
        /\ tcExcused' = (tcExcused \/ frame = "refused" \/ tcPlace'[c] = "dead")
    BY <2>1 DEF TcHeard
  <2>3. tcPlace' = [tcPlace EXCEPT ![c] = "dead"] => tcExcused'
    BY <1>t, <2>2
  <2>4. tcExcused' \in BOOLEAN /\ (tcExcused => tcExcused')
    BY <2>2
  <2>5. CASE frame \in {"open", "ok"}
    <3>1. tcWire' = [tcWire EXCEPT ![c] = Tail(tcWire[c])] /\ UNCHANGED tcHolder
      BY <2>1, <2>5 DEF TcHeard
    <3> QED
      BY <1>3, <1>4, <1>6, <2>2, <2>4, <2>5, <3>1 DEF TcHeardFacts, frame
  <2>6. CASE frame \notin {"open", "ok"}
    <3>1. TcForgets(c) /\ frame \in TcClosing
      BY <1>0, <2>1, <2>6 DEF TcHeard, TcForgets, TcClosing
    <3>2. frame = "refused" => tcExcused'
      BY <2>2
    <3> QED
      BY <1>3, <1>4, <2>2, <2>3, <2>4, <2>6, <3>1, <3>2 DEF TcHeardFacts, frame
  <2> QED
    BY <2>5, <2>6
<1> QED
  BY <1>5, <1>6

(* The steps of the hub that say something on a socket append or replace. *)
TcSaid == tcWire' \in [TcClients -> Seq(TcFrames)]

LEMMA TcEvictsFacts ==
  ASSUME TcTypeOK, NEW c \in TcClients, NEW answer \in {"open", "5xx"},
         TcEvicts(c, answer)
  PROVE  /\ TcSaid
         /\ tcWire'[c] = <<answer>>
         /\ \A d \in TcClients \ {c} :
              tcWire'[d] = IF d = tcHolder THEN Append(tcWire[d], "4000") ELSE tcWire[d]
<1>1. \A d \in TcClients : Append(tcWire[d], "4000") \in Seq(TcFrames)
  <2>1. "4000" \in TcFrames
    BY DEF TcFrames, TcCloseCodes
  <2> QED
    BY <2>1, TcHasAppend DEF TcTypeOK
<1>2. <<answer>> \in Seq(TcFrames)
  <2>1. answer \in TcFrames
    BY DEF TcFrames
  <2> QED
    BY <2>1, TcHasOne
<1>3. tcWire \in [TcClients -> Seq(TcFrames)]
  BY DEF TcTypeOK
<1> QED
  BY <1>1, <1>2, <1>3 DEF TcEvicts, TcSaid

LEMMA TcSeversFacts ==
  ASSUME TcTypeOK, NEW code \in {"4001", "4002"}, TcSevers(code)
  PROVE  /\ TcSaid /\ tcHolder' = TcNobody
         /\ \A d \in TcClients :
              tcWire'[d] = IF d = tcHolder THEN Append(tcWire[d], code) ELSE tcWire[d]
<1>1. \A d \in TcClients : Append(tcWire[d], code) \in Seq(TcFrames)
  <2>1. code \in TcFrames
    BY DEF TcFrames, TcCloseCodes
  <2> QED
    BY <2>1, TcHasAppend DEF TcTypeOK
<1>3. tcWire \in [TcClients -> Seq(TcFrames)]
  BY DEF TcTypeOK
<1> QED
  BY <1>1, <1>3 DEF TcSevers, TcSaid

-----------------------------------------------------------------------------
(* Types *)

LEMMA TcInitType == TcInit => TcTypeOK
<1> SUFFICES ASSUME TcInit PROVE TcTypeOK
  OBVIOUS
<1>1. <<>> \in Seq(TcFrames) /\ "idle" \in TcPlaces
  BY DEF TcPlaces
<1>2. 0 \in 0 .. TcMaxAttempt /\ 0 \in 0 .. TcMaxFaults
  BY TunnelClientAssumption
<1>3. /\ tcPlace \in [TcClients -> TcPlaces]
      /\ tcAttempt \in [TcClients -> 0 .. TcMaxAttempt]
      /\ tcWire \in [TcClients -> Seq(TcFrames)]
  BY <1>1, <1>2 DEF TcInit
<1> QED
  BY <1>2, <1>3 DEF TcInit, TcTypeOK

LEMMA TcNextType == TcTypeOK /\ [TcNext]_tcVars => TcTypeOK'
<1> SUFFICES ASSUME TcTypeOK, [TcNext]_tcVars PROVE TcTypeOK'
  OBVIOUS
<1>t. /\ tcLib \in [TcClients -> TcLibraries]
      /\ tcPlace \in [TcClients -> TcPlaces]
      /\ tcAttempt \in [TcClients -> 0 .. TcMaxAttempt]
      /\ tcShut \subseteq TcClients
      /\ tcWire \in [TcClients -> Seq(TcFrames)]
      /\ tcHolder \in TcClients \cup {TcNobody}
      /\ tcHub \in {"up", "down"} /\ tcApp \in {"live", "archived", "revoked"}
      /\ tcFaults \in 0 .. TcMaxFaults
      /\ tcExcused \in BOOLEAN
  BY DEF TcTypeOK
<1>n. TcMaxAttempt \in Nat /\ TcMaxFaults \in Nat
  BY TunnelClientAssumption
<1>e. <<>> \in Seq(TcFrames) /\ \A e \in TcFrames : <<e>> \in Seq(TcFrames)
  BY TcHasOne
<1>p. {"idle", "waiting", "dialing", "registering", "serving", "over", "dead"} = TcPlaces
  BY DEF TcPlaces
<1>f. \A e \in {"401", "403", "5xx", "ok", "refused", "other"} : <<e>> \in Seq(TcFrames)
  BY <1>e DEF TcFrames, TcCloseCodes
<1>1. ASSUME NEW c \in TcClients, TcStarts(c) PROVE TcTypeOK'
  <2>1. 0 \in 0 .. TcMaxAttempt /\ TcMore(0) \in 0 .. TcMaxAttempt
    BY <1>n DEF TcMore
  <2>2. tcPlace' \in [TcClients -> TcPlaces] /\ tcAttempt' \in [TcClients -> 0 .. TcMaxAttempt]
    BY <1>1, <1>t, <1>p, <2>1 DEF TcStarts, TcMoves
  <2> QED
    BY <1>1, <1>t, <2>2 DEF TcStarts, tcHubVars, TcTypeOK
<1>2. ASSUME NEW c \in TcClients, TcWakes(c) PROVE TcTypeOK'
  BY <1>2, <1>t, <1>p DEF TcWakes, tcHubVars, TcTypeOK
<1>3. ASSUME NEW c \in TcClients, TcHears(c) PROVE TcTypeOK'
  <2>1. TcHeardFacts(c)
    BY <1>3, TcHearsFacts
  <2>2. tcPlace' \in [TcClients -> TcPlaces]
    BY <1>t, <1>p, <2>1 DEF TcHeardFacts
  <2>3. tcWire[c] # <<>> /\ Tail(tcWire[c]) \in Seq(TcFrames)
    BY <1>3, <1>t DEF TcHears
  <2>4. tcWire' \in [TcClients -> Seq(TcFrames)] /\ tcHolder' \in TcClients \cup {TcNobody}
    BY <1>t, <1>e, <2>1, <2>3 DEF TcHeardFacts, TcForgets
  <2> QED
    BY <1>t, <2>1, <2>2, <2>4 DEF TcHeardFacts, TcTypeOK
<1>4. ASSUME NEW c \in TcClients, TcHubUpgrades(c) PROVE TcTypeOK'
  <2>1. UNCHANGED <<tcLib, tcPlace, tcAttempt, tcShut, tcHub, tcApp, tcExcused>>
    BY <1>4 DEF TcHubUpgrades
  <2>2. /\ tcWire' \in [TcClients -> Seq(TcFrames)]
        /\ tcHolder' \in TcClients \cup {TcNobody} /\ tcFaults' \in 0 .. TcMaxFaults
    <3>1. CASE TcEvicts(c, "open") /\ tcHolder' = c /\ UNCHANGED tcFaults
      BY <1>t, <3>1, TcEvictsFacts DEF TcSaid
    <3>2. CASE /\ tcFaults < TcMaxFaults /\ tcFaults' = tcFaults + 1
               /\ TcEvicts(c, "5xx") /\ tcHolder' = TcNobody
      BY <1>t, <1>n, <3>2, TcEvictsFacts DEF TcSaid
    <3>3. CASE /\ tcWire' = [tcWire EXCEPT ![c] = <<IF tcHub = "down" THEN "5xx"
                    ELSE IF tcApp = "archived" THEN "403" ELSE "401">>]
               /\ UNCHANGED <<tcHolder, tcFaults>>
      BY <1>t, <1>f, <3>3
    <3> QED
      BY <1>4, <3>1, <3>2, <3>3 DEF TcHubUpgrades
  <2> QED
    BY <1>t, <2>1, <2>2 DEF TcTypeOK
<1>5. ASSUME NEW c \in TcClients, TcHubRegisters(c) PROVE TcTypeOK'
  <2>1. UNCHANGED <<tcLib, tcPlace, tcAttempt, tcShut, tcHub, tcApp, tcExcused>>
    BY <1>5 DEF TcHubRegisters
  <2>2. /\ tcWire' \in [TcClients -> Seq(TcFrames)]
        /\ tcHolder' \in TcClients \cup {TcNobody} /\ tcFaults' \in 0 .. TcMaxFaults
    <3>1. CASE tcWire' = [tcWire EXCEPT ![c] = <<"ok">>] /\ UNCHANGED <<tcHolder, tcFaults>>
      BY <1>t, <1>f, <3>1
    <3>2. CASE /\ tcFaults < TcMaxFaults /\ tcFaults' = tcFaults + 1
               /\ \E frame \in {"refused", "other"} :
                    tcWire' = [tcWire EXCEPT ![c] = <<frame>>]
               /\ tcHolder' = TcNobody
      <4>1. tcFaults' \in 0 .. TcMaxFaults
        BY <1>t, <1>n, <3>2
      <4>2. PICK frame \in {"refused", "other"} : tcWire' = [tcWire EXCEPT ![c] = <<frame>>]
        BY <3>2
      <4> QED
        BY <1>t, <1>f, <3>2, <4>1, <4>2
    <3> QED
      BY <1>5, <3>1, <3>2 DEF TcHubRegisters
  <2> QED
    BY <1>t, <2>1, <2>2 DEF TcTypeOK
<1>6. ASSUME NEW c \in TcClients, TcCloses(c) PROVE TcTypeOK'
  <2>1. tcPlace' \in [TcClients -> TcPlaces] /\ tcAttempt' \in [TcClients -> 0 .. TcMaxAttempt]
    BY <1>6, <1>t, <1>p
    DEF TcCloses, TcJsCloses, TcPyCloses, TcGoCloses, TcRustCloses, TcStops, TcMoves
  <2>2. /\ tcWire' \in [TcClients -> Seq(TcFrames)] /\ tcHolder' \in TcClients \cup {TcNobody}
        /\ tcShut' \subseteq TcClients /\ tcExcused'
        /\ UNCHANGED <<tcLib, tcHub, tcApp, tcFaults>>
    BY <1>6, <1>t, <1>e DEF TcCloses
  <2> QED
    BY <1>t, <2>1, <2>2 DEF TcTypeOK
<1>7. ASSUME NEW c \in TcClients, TcLinkBreaks(c) PROVE TcTypeOK'
  <2>1. /\ tcWire' \in [TcClients -> Seq(TcFrames)]
        /\ tcHolder' \in TcClients \cup {TcNobody} /\ tcFaults' \in 0 .. TcMaxFaults
    BY <1>7, <1>t, <1>n, <1>f DEF TcLinkBreaks
  <2> QED
    BY <1>7, <1>t, <2>1 DEF TcLinkBreaks, TcTypeOK
<1>8. CASE TcOwner
  <2>1. tcWire' \in [TcClients -> Seq(TcFrames)] /\ tcHolder' \in TcClients \cup {TcNobody}
    BY <1>8, <1>t, TcSeversFacts DEF TcOwner, TcSaid
  <2>2. tcExcused' \in BOOLEAN /\ tcApp' \in {"live", "archived", "revoked"}
    BY <1>8, <1>t DEF TcOwner
  <2> QED
    BY <1>8, <1>t, <2>1, <2>2 DEF TcOwner, TcTypeOK
<1>9. CASE TcHubGoes
  <2>1. /\ tcWire' \in [TcClients -> Seq(TcFrames)]
        /\ tcHolder' \in TcClients \cup {TcNobody} /\ tcFaults' \in 0 .. TcMaxFaults
    BY <1>9, <1>t, <1>n, <1>f DEF TcHubGoes
  <2> QED
    BY <1>9, <1>t, <2>1 DEF TcHubGoes, TcTypeOK
<1>10. CASE TcHubReturns
  BY <1>10, <1>t DEF TcHubReturns, TcTypeOK
<1>11. CASE UNCHANGED tcVars
  BY <1>11, <1>t DEF tcVars, tcHubVars, TcTypeOK
<1> QED
  BY <1>1, <1>2, <1>3, <1>4, <1>5, <1>6, <1>7, <1>8, <1>9, <1>10, <1>11
  DEF TcNext, TcCopyStep, TcHubStep, TcDone

(* The state of the copies, of their sockets and of the hub keeps its type. *)
THEOREM TcTypeCorrect == TcSpec => []TcTypeOK
<1>1. TcInit => TcTypeOK
  BY TcInitType
<1>2. TcTypeOK /\ [TcNext]_tcVars => TcTypeOK'
  BY TcNextType
<1> QED
  BY <1>1, <1>2, PTL DEF TcSpec

-----------------------------------------------------------------------------
(* Somebody is left *)

(* A copy that goes on, and is not about to hear that it was replaced. *)
TcHopeful(c) == tcPlace[c] # "over" /\ ~TcHas(tcWire[c], {"4000"})

(* Until somebody is excused nobody was told that the credential died, and a
   hopeful copy is left: a copy that is told it was replaced was so by one. *)
TcHope ==
  /\ tcShut = {} /\ tcApp # "revoked"
  /\ \A c \in TcClients : ~TcHas(tcWire[c], {"401", "4001"})
  /\ \E c \in TcClients : TcHopeful(c)

TcHopeInv == TcTypeOK /\ (~tcExcused => TcHope)

(* A copy keeps its hope while it moves on and is told nothing that ends it. *)
LEMMA TcHopeKept ==
  ASSUME TcHope, tcShut' = {}, tcApp' # "revoked",
         \A c \in TcClients : ~TcHas(tcWire[c], {"401", "4001"})'
                              /\ (TcHopeful(c) => TcHopeful(c)')
  PROVE  TcHope'
  BY DEF TcHope

LEMMA TcHopeNext == TcHopeInv /\ [TcNext]_tcVars => TcHopeInv'
<1> SUFFICES ASSUME TcHopeInv, [TcNext]_tcVars, ~tcExcused' PROVE TcHope'
  BY TcNextType DEF TcHopeInv
<1>t. /\ TcTypeOK /\ tcPlace \in [TcClients -> TcPlaces]
      /\ tcWire \in [TcClients -> Seq(TcFrames)]
  BY DEF TcHopeInv, TcTypeOK
<1>x. tcExcused' \/ ~tcExcused => TcHope
  BY DEF TcHopeInv
<1>f. \A e \in {"open", "5xx", "403", "ok", "refused", "other"} :
        ~TcHas(<<e>>, {"401", "4001"}) /\ ~TcHas(<<e>>, {"4000"})
  BY TcHasOne DEF TcFrames, TcCloseCodes
<1>1. ASSUME NEW c \in TcClients, TcStarts(c) PROVE TcHope'
  <2>1. TcHope /\ UNCHANGED <<tcShut, tcApp, tcWire>>
    BY <1>1, <1>x DEF TcStarts, tcHubVars
  <2>2. \A d \in TcClients : tcPlace[d] # "over" => tcPlace'[d] # "over"
    BY <1>1, <1>t DEF TcStarts, TcMoves
  <2> QED
    BY <2>1, <2>2, TcHopeKept DEF TcHope, TcHopeful
<1>2. ASSUME NEW c \in TcClients, TcWakes(c) PROVE TcHope'
  <2>1. TcHope /\ UNCHANGED <<tcShut, tcApp, tcWire>>
    BY <1>2, <1>x DEF TcWakes, tcHubVars
  <2>2. \A d \in TcClients : tcPlace[d] # "over" => tcPlace'[d] # "over"
    BY <1>2, <1>t, <2>1 DEF TcWakes, TcHope
  <2> QED
    BY <2>1, <2>2, TcHopeKept DEF TcHope, TcHopeful
<1>3. ASSUME NEW c \in TcClients, TcHears(c) PROVE TcHope'
  <2>1. TcHeardFacts(c)
    BY <1>3, <1>t, TcHearsFacts
  <2>2. TcHope /\ UNCHANGED <<tcShut, tcApp>>
    BY <2>1, <1>x DEF TcHeardFacts
  <2>3. tcWire[c] \in Seq(TcFrames) /\ tcWire[c] # <<>>
    BY <1>3, <1>t DEF TcHears
  <2>4. \A F : /\ TcHas(Tail(tcWire[c]), F) => TcHas(tcWire[c], F)
               /\ Head(tcWire[c]) \in F => TcHas(tcWire[c], F)
    BY <2>3, TcHasTail
  <2>5. ASSUME NEW d \in TcClients, NEW F PROVE TcHas(tcWire'[d], F) => TcHas(tcWire[d], F)
    <3>1. \/ tcWire'[d] = tcWire[d] \/ tcWire'[d] = <<>>
          \/ d = c /\ tcWire'[d] = Tail(tcWire[c])
      BY <1>t, <2>1 DEF TcHeardFacts, TcForgets
    <3> QED
      BY <2>4, <3>1, TcHasNone
  <2>6. ASSUME NEW d \in TcClients, TcHopeful(d) PROVE tcPlace'[d] # "over"
    <3>1. CASE d # c
      BY <1>t, <2>1, <2>6, <3>1 DEF TcHeardFacts, TcHopeful
    <3>2. CASE d = c
      <4>1. Head(tcWire[c]) \notin {"4000", "401", "4001"}
        BY <2>2, <2>4, <2>6, <3>2 DEF TcHope, TcHopeful
      <4>2. c \notin tcShut /\ ~tcExcused'
        BY <2>2 DEF TcHope
      <4> QED
        BY <1>t, <2>1, <3>2, <4>1, <4>2 DEF TcHeardFacts, TcClosing
    <3> QED
      BY <3>1, <3>2
  <2> QED
    BY <2>2, <2>5, <2>6, TcHopeKept DEF TcHope, TcHopeful
<1>4. ASSUME NEW c \in TcClients, TcHubUpgrades(c) PROVE TcHope'
  <2>1. TcHope /\ UNCHANGED <<tcShut, tcApp, tcPlace>> /\ tcPlace[c] = "dialing"
    BY <1>4, <1>x DEF TcHubUpgrades
  <2>2. ASSUME NEW answer \in {"open", "5xx"}, TcEvicts(c, answer) PROVE TcHope'
    <3>1. /\ tcWire'[c] = <<answer>>
          /\ \A d \in TcClients \ {c} :
               tcWire'[d] = IF d = tcHolder THEN Append(tcWire[d], "4000") ELSE tcWire[d]
      BY <1>t, <2>2, TcEvictsFacts
    <3>2. TcHopeful(c)'
      BY <1>f, <2>1, <3>1 DEF TcHopeful
    <3>3. "4000" \in TcFrames
      BY DEF TcFrames, TcCloseCodes
    <3>4. \A d \in TcClients : ~TcHas(Append(tcWire[d], "4000"), {"401", "4001"})
      BY <1>t, <2>1, <3>3, TcHasAppend DEF TcHope
    <3>5. \A d \in TcClients : ~TcHas(tcWire'[d], {"401", "4001"})
      BY <1>f, <2>1, <3>1, <3>4 DEF TcHope
    <3> QED
      BY <2>1, <3>2, <3>5 DEF TcHope
  <2>3. CASE /\ tcWire' = [tcWire EXCEPT ![c] = <<IF tcHub = "down" THEN "5xx"
                  ELSE IF tcApp = "archived" THEN "403" ELSE "401">>]
             /\ tcHub = "down" \/ tcApp # "live"
    <3>1. PICK e \in {"5xx", "403"} : tcWire' = [tcWire EXCEPT ![c] = <<e>>]
      <4>1. tcHub = "down" \/ tcApp = "archived"
        BY <1>t, <2>1, <2>3 DEF TcHope, TcTypeOK
      <4> QED
        BY <2>3, <4>1
    <3>2. \A d \in TcClients : tcWire'[d] = IF d = c THEN <<e>> ELSE tcWire[d]
      BY <1>t, <3>1
    <3>3. \A d \in TcClients : ~TcHas(tcWire'[d], {"401", "4001"})
      BY <1>f, <2>1, <3>2 DEF TcHope
    <3>4. \A d \in TcClients : TcHopeful(d) => TcHopeful(d)'
      BY <1>f, <2>1, <3>2 DEF TcHopeful
    <3> QED
      BY <2>1, <3>3, <3>4 DEF TcHope
  <2> QED
    BY <1>4, <2>2, <2>3 DEF TcHubUpgrades
<1>s. ASSUME NEW e \in {"5xx", "403", "ok", "refused", "other"}, NEW c \in TcClients, TcHope,
             UNCHANGED <<tcShut, tcApp, tcPlace>>, tcWire' = [tcWire EXCEPT ![c] = <<e>>]
      PROVE  TcHope'
  <2>1. \A d \in TcClients : tcWire'[d] = IF d = c THEN <<e>> ELSE tcWire[d]
    BY <1>t, <1>s
  <2>2. \A d \in TcClients : ~TcHas(tcWire'[d], {"401", "4001"})
    BY <1>f, <1>s, <2>1 DEF TcHope
  <2>3. \A d \in TcClients : TcHopeful(d) => TcHopeful(d)'
    BY <1>f, <1>s, <2>1 DEF TcHopeful
  <2> QED
    BY <1>s, <2>2, <2>3 DEF TcHope
<1>5. ASSUME NEW c \in TcClients, TcHubRegisters(c) PROVE TcHope'
  <2>1. TcHope /\ UNCHANGED <<tcShut, tcApp, tcPlace>>
    BY <1>5, <1>x DEF TcHubRegisters
  <2>2. \E e \in {"ok", "refused", "other"} : tcWire' = [tcWire EXCEPT ![c] = <<e>>]
    BY <1>5 DEF TcHubRegisters
  <2> QED
    BY <1>s, <2>1, <2>2
<1>6. ASSUME NEW c \in TcClients, TcCloses(c) PROVE TcHope'
  BY <1>6 DEF TcCloses
<1>7. ASSUME NEW c \in TcClients, TcLinkBreaks(c) PROVE TcHope'
  BY <1>7, <1>s, <1>x DEF TcLinkBreaks
<1>8. CASE TcOwner
  <2>1. TcHope /\ UNCHANGED <<tcShut, tcPlace>> /\ tcApp' # "revoked"
    BY <1>8, <1>x DEF TcOwner
  <2>2. CASE TcSevers("4002")
    <3>1. "4002" \in TcFrames
      BY DEF TcFrames, TcCloseCodes
    <3>2. \A d \in TcClients :
            tcWire'[d] = IF d = tcHolder THEN Append(tcWire[d], "4002") ELSE tcWire[d]
      BY <1>t, <2>2, TcSeversFacts
    <3>3. \A d \in TcClients : \A F :
            TcHas(Append(tcWire[d], "4002"), F) <=> TcHas(tcWire[d], F) \/ "4002" \in F
      BY <1>t, <3>1, TcHasAppend
    <3>4. \A d \in TcClients : ~TcHas(tcWire'[d], {"401", "4001"})
      BY <2>1, <3>2, <3>3 DEF TcHope
    <3>5. \A d \in TcClients : TcHopeful(d) => TcHopeful(d)'
      BY <2>1, <3>2, <3>3 DEF TcHopeful
    <3> QED
      BY <2>1, <3>4, <3>5 DEF TcHope
  <2>3. CASE UNCHANGED <<tcWire, tcHolder>>
    BY <2>1, <2>3 DEF TcHope, TcHopeful
  <2> QED
    BY <1>8, <2>1, <2>2, <2>3 DEF TcOwner
<1>9. CASE TcHubGoes
  <2>1. TcHope /\ UNCHANGED <<tcShut, tcApp, tcPlace>>
    BY <1>9, <1>x DEF TcHubGoes
  <2>2. \A d \in TcClients : tcWire'[d] = <<"other">> \/ tcWire'[d] = tcWire[d]
    BY <1>9 DEF TcHubGoes
  <2>3. \A d \in TcClients : ~TcHas(tcWire'[d], {"401", "4001"})
    BY <1>f, <2>1, <2>2 DEF TcHope
  <2>4. \A d \in TcClients : TcHopeful(d) => TcHopeful(d)'
    BY <1>f, <2>1, <2>2 DEF TcHopeful
  <2> QED
    BY <2>1, <2>3, <2>4 DEF TcHope
<1>10. CASE TcHubReturns
  BY <1>10, <1>x DEF TcHubReturns, TcHope, TcHopeful
<1>11. CASE UNCHANGED tcVars
  BY <1>11, <1>x DEF tcVars, tcHubVars, TcHope, TcHopeful
<1> QED
  BY <1>1, <1>2, <1>3, <1>4, <1>5, <1>6, <1>7, <1>8, <1>9, <1>10, <1>11
  DEF TcNext, TcCopyStep, TcHubStep, TcDone

LEMMA TcHopeInit == TcInit => TcHopeInv
<1> SUFFICES ASSUME TcInit PROVE TcHope
  BY TcInitType DEF TcHopeInv
<1>1. \A c \in TcClients : tcPlace[c] = "idle" /\ tcWire[c] = <<>>
  BY DEF TcInit
<1> QED
  BY <1>1, TcHasNone, TunnelClientAssumption DEF TcInit, TcHope, TcHopeful

(* Copies that evict one another never all give up. *)
THEOREM TcSomebodySurvives == TcSpec => []TcSurvivor
<1>1. TcInit => TcHopeInv
  BY TcHopeInit
<1>2. TcHopeInv /\ [TcNext]_tcVars => TcHopeInv'
  BY TcHopeNext
<1>3. TcHopeInv => TcSurvivor
  BY DEF TcHopeInv, TcHope, TcHopeful, TcSurvivor
<1> QED
  BY <1>1, <1>2, <1>3, PTL DEF TcSpec

-----------------------------------------------------------------------------
(* One socket at a time *)

TcTold(c) == TcHas(tcWire[c], TcClosing)

(* The hub's socket and the copies' agree: the copy the hub holds is connected
   and has been told of no close; a connected copy that has been told of none
   is the one the hub holds. *)
TcOneSocket ==
  \A c \in TcClients :
    /\ tcHolder = c => tcPlace[c] \in TcWorking \cup {"dialing"} /\ ~TcTold(c)
    /\ tcPlace[c] \in TcWorking /\ ~TcTold(c) => tcHolder = c

(* Besides: a copy between sockets has nothing to hear; what an upgrade said is
   heard before anything else is; a copy shut down elsewhere than in Go is over. *)
TcSocketOf(c) ==
  /\ tcHolder = c => tcPlace[c] \in TcWorking \cup {"dialing"} /\ ~TcTold(c)
  /\ tcPlace[c] \in TcWorking /\ ~TcTold(c) => tcHolder = c
  /\ tcPlace[c] \in TcStill => tcWire[c] = <<>>
  /\ tcPlace[c] = "dialing" /\ ~TcTold(c) =>
       IF tcHolder = c THEN tcWire[c] = <<"open">> ELSE tcWire[c] = <<>>
  /\ c \in tcShut => tcLib[c] = "go" \/ tcPlace[c] = "over"

TcSocketInv == TcTypeOK /\ \A c \in TcClients : TcSocketOf(c)

(* A copy of which nothing changes, but the hub's holding another. *)
LEMMA TcSocketKept ==
  ASSUME NEW d \in TcClients, TcSocketOf(d), tcPlace'[d] = tcPlace[d],
         tcWire'[d] = tcWire[d], tcLib'[d] = tcLib[d],
         d \in tcShut' <=> d \in tcShut, tcHolder' = d <=> tcHolder = d
  PROVE  TcSocketOf(d)'
  BY DEF TcSocketOf, TcTold

LEMMA TcSocketNext == TcSocketInv /\ [TcNext]_tcVars => TcSocketInv'
<1> SUFFICES ASSUME TcSocketInv, [TcNext]_tcVars, NEW d \in TcClients
             PROVE  TcSocketOf(d)'
  BY TcNextType DEF TcSocketInv
<1>t. /\ TcTypeOK /\ tcPlace \in [TcClients -> TcPlaces]
      /\ tcWire \in [TcClients -> Seq(TcFrames)] /\ d # TcNobody
  BY TunnelClientAssumption DEF TcSocketInv, TcTypeOK
<1>d. TcSocketOf(d)
  BY DEF TcSocketInv
<1>p. tcPlace[d] \in TcWorking \cup TcStill \cup {"dialing"}
  BY <1>t DEF TcPlaces, TcWorking, TcStill
<1>f. /\ \A e \in {"open", "ok"} : ~TcHas(<<e>>, TcClosing)
      /\ \A e \in {"401", "5xx", "403", "refused", "other"} : TcHas(<<e>>, TcClosing)
  BY TcHasOne DEF TcFrames, TcCloseCodes, TcClosing
<1>a. \A e \in {"4000", "4001", "4002"} : TcHas(Append(tcWire[d], e), TcClosing)
  BY <1>t, TcHasAppend DEF TcFrames, TcCloseCodes, TcClosing
<1>u. ASSUME tcPlace'[d] = tcPlace[d], tcHolder = d, tcHolder' # d,
             tcLib'[d] = tcLib[d], tcShut' = tcShut,
             NEW e \in {"4000", "4001", "4002"}, tcWire'[d] = Append(tcWire[d], e)
      PROVE  TcSocketOf(d)'
  BY <1>a, <1>d, <1>u DEF TcSocketOf, TcTold, TcWorking, TcStill
<1>l. ASSUME tcPlace'[d] = tcPlace[d], tcPlace[d] \in TcWorking \cup {"dialing"}, tcHolder' # d,
             tcLib'[d] = tcLib[d], tcShut' = tcShut,
             NEW e \in {"401", "5xx", "403", "refused", "other"}, tcWire'[d] = <<e>>
      PROVE  TcSocketOf(d)'
  BY <1>f, <1>d, <1>l DEF TcSocketOf, TcTold, TcWorking, TcStill
<1>1. ASSUME NEW c \in TcClients, TcStarts(c) PROVE TcSocketOf(d)'
  <2>1. CASE d # c
    BY <1>1, <1>t, <1>d, <2>1, TcSocketKept DEF TcStarts, TcMoves, tcHubVars
  <2>2. CASE d = c
    <3>1. tcPlace[d] = "idle" /\ tcPlace'[d] \in {"waiting", "dialing"}
          /\ UNCHANGED <<tcLib, tcShut, tcWire, tcHolder>>
      BY <1>1, <1>t, <2>2 DEF TcStarts, TcMoves, tcHubVars
    <3> QED
      BY <1>d, <3>1 DEF TcSocketOf, TcTold, TcWorking, TcStill
  <2> QED
    BY <2>1, <2>2
<1>2. ASSUME NEW c \in TcClients, TcWakes(c) PROVE TcSocketOf(d)'
  <2>1. CASE d # c
    BY <1>2, <1>t, <1>d, <2>1, TcSocketKept DEF TcWakes, tcHubVars
  <2>2. CASE d = c
    <3>1. /\ tcPlace[d] = "waiting"
          /\ tcPlace'[d] = IF d \in tcShut THEN "over" ELSE "dialing"
          /\ UNCHANGED <<tcLib, tcShut, tcWire, tcHolder>>
      BY <1>2, <1>t, <2>2 DEF TcWakes, tcHubVars
    <3> QED
      BY <1>d, <3>1 DEF TcSocketOf, TcTold, TcWorking, TcStill
  <2> QED
    BY <2>1, <2>2
<1>3. ASSUME NEW c \in TcClients, TcHears(c) PROVE TcSocketOf(d)'
  <2>1. TcHeardFacts(c)
    BY <1>3, <1>t, TcHearsFacts
  <2>2. CASE d # c
    <3>1. /\ tcPlace'[d] = tcPlace[d] /\ tcWire'[d] = tcWire[d]
          /\ tcLib' = tcLib /\ tcShut' = tcShut /\ (tcHolder' = d <=> tcHolder = d)
      BY <1>t, <2>1, <2>2 DEF TcHeardFacts, TcForgets
    <3> QED
      BY <1>d, <3>1, TcSocketKept
  <2>3. CASE d = c
    <3>1. tcWire[d] \in Seq(TcFrames) /\ tcWire[d] # <<>>
      BY <1>3, <1>t, <2>3 DEF TcHears
    <3>2. TcHas(tcWire[d], TcClosing) /\ Head(tcWire[d]) \notin TcClosing =>
            TcHas(Tail(tcWire[d]), TcClosing)
      BY <3>1, TcHasTail
    <3>3. TcHas(Tail(tcWire[d]), TcClosing) => TcHas(tcWire[d], TcClosing)
      BY <3>1, TcHasTail
    <3>4. UNCHANGED <<tcLib, tcShut>>
      BY <2>1 DEF TcHeardFacts
    <3>5. tcPlace[d] \in TcWorking \cup {"dialing"}
      BY <1>d, <1>p, <3>1 DEF TcSocketOf
    <3>6. ~TcTold(d) => tcHolder = d
      BY <1>d, <3>1, <3>5 DEF TcSocketOf
    <3>7. d \in tcShut => tcLib[d] = "go"
      BY <1>d, <3>5 DEF TcSocketOf, TcWorking
    <3>8. CASE /\ Head(tcWire[d]) \in {"open", "ok"}
               /\ tcPlace'[d] \in TcWorking
               /\ tcWire'[d] = Tail(tcWire[d])
               /\ UNCHANGED tcHolder
      <4>1. TcTold(d)' <=> TcTold(d)
        BY <3>2, <3>3, <3>8 DEF TcTold, TcClosing
      <4> QED
        BY <1>d, <3>4, <3>6, <3>7, <3>8, <4>1 DEF TcSocketOf, TcWorking, TcStill
    <3>9. CASE /\ tcPlace'[d] \in {"waiting", "over", "dead"} /\ tcWire'[d] = <<>>
               /\ tcHolder' # d
               /\ d \in tcShut => tcLib[d] = "go"
      BY <3>4, <3>9 DEF TcSocketOf, TcWorking, TcStill
    <3> QED
      BY <1>t, <2>1, <2>3, <3>7, <3>8, <3>9 DEF TcHeardFacts, TcForgets, TcWorking
  <2> QED
    BY <2>2, <2>3
<1>4. ASSUME NEW c \in TcClients, TcHubUpgrades(c) PROVE TcSocketOf(d)'
  <2>1. UNCHANGED <<tcShut, tcLib, tcPlace>> /\ tcPlace[c] = "dialing" /\ tcWire[c] = <<>>
        /\ c # TcNobody
    BY <1>4, TunnelClientAssumption DEF TcHubUpgrades
  <2>2. CASE TcEvicts(c, "open") /\ tcHolder' = c
    <3>1. /\ tcWire'[c] = <<"open">>
          /\ \A b \in TcClients \ {c} :
               tcWire'[b] = IF b = tcHolder THEN Append(tcWire[b], "4000") ELSE tcWire[b]
      BY <1>t, <2>2, TcEvictsFacts
    <3>2. CASE d = c
      BY <1>d, <1>f, <2>1, <2>2, <3>1, <3>2 DEF TcSocketOf, TcTold, TcWorking, TcStill
    <3>3. CASE d # c /\ d = tcHolder
      BY <1>u, <2>1, <2>2, <3>1, <3>3
    <3>4. CASE d # c /\ d # tcHolder
      BY <1>d, <2>1, <2>2, <3>1, <3>4, TcSocketKept
    <3> QED
      BY <3>2, <3>3, <3>4
  <2>3. CASE TcEvicts(c, "5xx") /\ tcHolder' = TcNobody
    <3>1. /\ tcWire'[c] = <<"5xx">>
          /\ \A b \in TcClients \ {c} :
               tcWire'[b] = IF b = tcHolder THEN Append(tcWire[b], "4000") ELSE tcWire[b]
      BY <1>t, <2>3, TcEvictsFacts
    <3>2. CASE d = c
      BY <1>l, <1>t, <2>1, <2>3, <3>1, <3>2
    <3>3. CASE d # c /\ d = tcHolder
      BY <1>u, <1>t, <2>1, <2>3, <3>1, <3>3
    <3>4. CASE d # c /\ d # tcHolder
      BY <1>d, <1>t, <2>1, <2>3, <3>1, <3>4, TcSocketKept
    <3> QED
      BY <3>2, <3>3, <3>4
  <2>4. CASE /\ tcWire' = [tcWire EXCEPT ![c] = <<IF tcHub = "down" THEN "5xx"
                  ELSE IF tcApp = "archived" THEN "403" ELSE "401">>]
             /\ UNCHANGED tcHolder
    <3>1. PICK e \in {"5xx", "403", "401"} : tcWire' = [tcWire EXCEPT ![c] = <<e>>]
      BY <2>4
    <3>2. CASE d = c
      <4>1. tcHolder # d
        BY <1>d, <2>1, <3>2 DEF TcSocketOf
      <4> QED
        BY <1>l, <1>t, <2>1, <2>4, <3>1, <3>2, <4>1
    <3>3. CASE d # c
      BY <1>d, <1>t, <2>1, <2>4, <3>1, <3>3, TcSocketKept
    <3> QED
      BY <3>2, <3>3
  <2> QED
    BY <1>4, <2>2, <2>3, <2>4 DEF TcHubUpgrades
<1>5. ASSUME NEW c \in TcClients, TcHubRegisters(c) PROVE TcSocketOf(d)'
  <2>1. UNCHANGED <<tcShut, tcLib, tcPlace>> /\ tcPlace[c] = "registering" /\ tcHolder = c
    BY <1>5 DEF TcHubRegisters
  <2>2. CASE tcWire' = [tcWire EXCEPT ![c] = <<"ok">>] /\ UNCHANGED tcHolder
    <3>1. CASE d = c
      BY <1>d, <1>f, <1>t, <2>1, <2>2, <3>1 DEF TcSocketOf, TcTold, TcWorking, TcStill
    <3>2. CASE d # c
      BY <1>d, <1>t, <2>1, <2>2, <3>2, TcSocketKept
    <3> QED
      BY <3>1, <3>2
  <2>3. CASE /\ \E e \in {"refused", "other"} : tcWire' = [tcWire EXCEPT ![c] = <<e>>]
             /\ tcHolder' = TcNobody
    <3>1. PICK e \in {"refused", "other"} : tcWire' = [tcWire EXCEPT ![c] = <<e>>]
      BY <2>3
    <3>2. CASE d = c
      BY <1>l, <1>t, <2>1, <2>3, <3>1, <3>2 DEF TcWorking
    <3>3. CASE d # c
      BY <1>d, <1>t, <2>1, <2>3, <3>1, <3>3, TcSocketKept
    <3> QED
      BY <3>2, <3>3
  <2> QED
    BY <1>5, <2>2, <2>3 DEF TcHubRegisters
<1>6. ASSUME NEW c \in TcClients, TcCloses(c) PROVE TcSocketOf(d)'
  <2>1. tcShut' = tcShut \cup {c} /\ UNCHANGED tcLib
    BY <1>6 DEF TcCloses
  <2>2. \/ tcPlace' = [tcPlace EXCEPT ![c] = "over"]
        \/ tcLib[c] = "go" /\ UNCHANGED tcPlace /\ tcPlace[c] # "over"
    BY <1>6
    DEF TcCloses, TcJsCloses, TcPyCloses, TcGoCloses, TcRustCloses, TcStops, TcMoves
  <2>3. CASE tcPlace' = [tcPlace EXCEPT ![c] = "over"]
    <3>1. tcPlace'[c] = "over"
      BY <1>t, <2>3
    <3>2. tcWire' = [tcWire EXCEPT ![c] = <<>>]
          /\ tcHolder' = IF tcHolder = c THEN TcNobody ELSE tcHolder
      BY <1>6, <3>1 DEF TcCloses
    <3>3. CASE d = c
      <4>1. tcWire'[d] = <<>> /\ tcHolder' # d /\ tcPlace'[d] = "over"
        BY <1>t, <3>1, <3>2, <3>3
      <4> QED
        BY <4>1 DEF TcSocketOf, TcWorking, TcStill
    <3>4. CASE d # c
      <4>1. /\ tcPlace'[d] = tcPlace[d] /\ tcWire'[d] = tcWire[d]
            /\ (tcHolder' = d <=> tcHolder = d) /\ (d \in tcShut' <=> d \in tcShut)
        BY <1>t, <2>1, <2>3, <3>2, <3>4
      <4> QED
        BY <1>d, <2>1, <4>1, TcSocketKept
    <3> QED
      BY <3>3, <3>4
  <2>4. CASE tcLib[c] = "go" /\ UNCHANGED tcPlace /\ tcPlace[c] # "over"
    <3>1. UNCHANGED <<tcWire, tcHolder>>
      BY <1>6, <2>4 DEF TcCloses
    <3> QED
      BY <1>d, <2>1, <2>4, <3>1 DEF TcSocketOf, TcTold
  <2> QED
    BY <2>2, <2>3, <2>4
<1>7. ASSUME NEW c \in TcClients, TcLinkBreaks(c) PROVE TcSocketOf(d)'
  <2>1. /\ tcPlace[c] \in TcWorking \cup {"dialing"}
        /\ tcWire' = [tcWire EXCEPT ![c] = <<"other">>]
        /\ tcHolder' = IF tcHolder = c THEN TcNobody ELSE tcHolder
        /\ UNCHANGED <<tcLib, tcPlace, tcShut>>
    BY <1>7 DEF TcLinkBreaks, TcWorking
  <2>2. CASE d = c
    BY <1>l, <1>t, <2>1, <2>2
  <2>3. CASE d # c
    BY <1>d, <1>t, <2>1, <2>3, TcSocketKept
  <2> QED
    BY <2>2, <2>3
<1>8. CASE TcOwner
  <2>1. UNCHANGED <<tcLib, tcShut, tcPlace>>
    BY <1>8 DEF TcOwner
  <2>2. ASSUME NEW code \in {"4001", "4002"}, TcSevers(code) PROVE TcSocketOf(d)'
    <3>1. tcHolder' = TcNobody
          /\ tcWire'[d] = IF d = tcHolder THEN Append(tcWire[d], code) ELSE tcWire[d]
      BY <1>t, <2>2, TcSeversFacts
    <3>2. CASE d = tcHolder
      BY <1>u, <1>t, <2>1, <3>1, <3>2
    <3>3. CASE d # tcHolder
      BY <1>d, <1>t, <2>1, <3>1, <3>3, TcSocketKept
    <3> QED
      BY <3>2, <3>3
  <2>3. CASE UNCHANGED <<tcWire, tcHolder>>
    BY <1>d, <2>1, <2>3, TcSocketKept
  <2> QED
    BY <1>8, <2>2, <2>3 DEF TcOwner
<1>9. CASE TcHubGoes
  <2>1. /\ UNCHANGED <<tcLib, tcShut, tcPlace>> /\ tcHolder' = TcNobody
        /\ tcWire'[d] = IF tcPlace[d] \in TcWorking \/ tcWire[d] = <<"open">>
                          THEN <<"other">> ELSE tcWire[d]
    BY <1>9 DEF TcHubGoes, TcWorking
  <2>2. CASE tcPlace[d] \in TcWorking \/ tcWire[d] = <<"open">>
    <3>1. tcPlace[d] \in TcWorking \cup {"dialing"}
      BY <1>d, <1>p, <2>2 DEF TcSocketOf
    <3> QED
      BY <1>l, <1>t, <2>1, <2>2, <3>1
  <2>3. CASE ~(tcPlace[d] \in TcWorking \/ tcWire[d] = <<"open">>)
    BY <1>d, <1>t, <2>1, <2>3 DEF TcSocketOf, TcTold
  <2> QED
    BY <2>2, <2>3
<1>10. CASE TcHubReturns
  BY <1>10, <1>d, TcSocketKept DEF TcHubReturns
<1>11. CASE UNCHANGED tcVars
  BY <1>11, <1>d, TcSocketKept DEF tcVars, tcHubVars
<1> QED
  BY <1>1, <1>2, <1>3, <1>4, <1>5, <1>6, <1>7, <1>8, <1>9, <1>10, <1>11
  DEF TcNext, TcCopyStep, TcHubStep, TcDone

LEMMA TcSocketInit == TcInit => TcSocketInv
<1> SUFFICES ASSUME TcInit, NEW c \in TcClients PROVE TcSocketOf(c)
  BY TcInitType DEF TcSocketInv
<1>1. tcPlace[c] = "idle" /\ tcWire[c] = <<>> /\ tcHolder # c /\ c \notin tcShut
  BY TunnelClientAssumption DEF TcInit
<1> QED
  BY <1>1 DEF TcSocketOf, TcWorking, TcStill

(* The hub never holds the socket of a copy that has left it, and of two copies
   that are connected at most one has been told of no close. *)
THEOREM TcOneConnected == TcSpec => []TcOneSocket
<1>1. TcInit => TcSocketInv
  BY TcSocketInit
<1>2. TcSocketInv /\ [TcNext]_tcVars => TcSocketInv'
  BY TcSocketNext
<1>3. TcSocketInv => TcOneSocket
  BY DEF TcSocketInv, TcSocketOf, TcOneSocket
<1> QED
  BY <1>1, <1>2, <1>3, PTL DEF TcSpec
=============================================================================
