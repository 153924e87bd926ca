------------------------------ MODULE Doorbell ------------------------------
(***************************************************************************)
(* How a consumer hears that an app's catalog changed: the catalogs the    *)
(* app's Durable Object stores and the warms that refresh them             *)
(* (server/src/tunnel.ts), the bells it rings on its subscriber sockets,   *)
(* and the held listen stream of server/src/gateway.ts that relays them    *)
(* and re-authorizes itself at every keepalive.                            *)
(*                                                                         *)
(* A catalog's content is a number, 0 for the empty list.  A bell says     *)
(* only that a family changed, so frames of one family are alike and what  *)
(* is under way is a set of families.  AppConnection models the floor and  *)
(* the alarm; here a ring goes out at once or is owed to the alarm.        *)
(***************************************************************************)
EXTENDS Integers, FiniteSets

CONSTANTS Families,     \* catalog families, each with its own bell
          ToolFamily,   \* the family warmed when the app's answer is unknown
          Contents,     \* what a catalog can hold, 0 the empty list
          Warms         \* bound on the warms under way at once

ASSUME DoorbellAssumption ==
  /\ ToolFamily \in Families
  /\ 0 \in Contents /\ Contents \subseteq Nat

Absent == -1

VARIABLES
  \* the app and its socket
  dbApp,       \* family -> what the app would list now
  dbTold,      \* family -> what it would list as far as the hub was told
  dbLink,      \* a registered app socket is live
  \* the Durable Object
  dbDiscovering, \* the registration's server/discover is unanswered
  dbStored,    \* CATALOG_KEY[family]
  dbWarm,      \* warm -> family -> where its list request stands
  dbAsked,     \* warm -> family -> the content when the request left
  dbOwed,      \* bell:pending:*
  \* one held stream
  dbStream,    \* "none", "open" or "ended"
  dbTick,      \* where hold() is: "idle" between ticks
  dbMapped,    \* the subscriber socket is in the stream's map
  dbSocket,    \* "none", "open", "closing" closed by the object, unnoticed
  dbTransit,   \* bells on the subscriber socket
  dbBody,      \* bells written to the response body, unread
  dbKeepalive, \* a keepalive the body has not accepted
  \* its consumer and the owner
  dbView,      \* family -> what the consumer last listed, Absent before
  dbFate,      \* "fine", "left" the consumer stopped reading, "unadmitted" the
               \* door no longer admits the caller, "archived" the app is
  \* history
  \* of the app's present registration:
  dbFailed,    \* families whose last list request failed or was never made
  dbCrossed,   \* families last written by the answer to an overtaken request
  dbCutShort   \* the stream ended while a tick was awaiting something

dbAppVars == <<dbApp, dbTold, dbLink, dbDiscovering>>
dbObjectVars == <<dbStored, dbWarm, dbAsked, dbOwed, dbFailed, dbCrossed>>
dbStreamVars == <<dbStream, dbTick, dbMapped, dbSocket, dbTransit, dbBody,
                  dbKeepalive, dbCutShort>>
dbWorldVars == <<dbView, dbFate>>
dbVars == <<dbAppVars, dbObjectVars, dbStreamVars, dbWorldVars>>

(* overtaken: asked, and asked again since by a later warm. *)
WarmStates == {"no", "asked", "overtaken", "changed", "same"}
Waiting == {"asked", "overtaken"}
TickStates == {"idle", "reauthorizing", "resolving", "opening", "stopped"}
Fates == {"fine", "left", "unadmitted", "archived"}
NoWarm == [f \in Families |-> "no"]

DbTypeOK ==
  /\ dbApp \in [Families -> Contents] /\ dbTold \in [Families -> Contents]
  /\ dbStored \in [Families -> Contents \cup {Absent}]
  /\ dbView \in [Families -> Contents \cup {Absent}]
  /\ dbWarm \in [Warms -> [Families -> WarmStates]]
  /\ dbAsked \in [Warms -> [Families -> Contents]]
  /\ dbStream \in {"none", "open", "ended"} /\ dbTick \in TickStates
  /\ dbSocket \in {"none", "open", "closing"}
  /\ \A S \in {dbOwed, dbTransit, dbBody, dbFailed, dbCrossed} : S \subseteq Families
  /\ dbLink \in BOOLEAN /\ dbDiscovering \in BOOLEAN
  /\ {dbMapped, dbKeepalive, dbCutShort} \subseteq BOOLEAN
  /\ dbFate \in Fates

DbInit ==
  /\ dbApp \in [Families -> Contents] /\ dbTold = dbApp
  /\ dbLink = FALSE /\ dbDiscovering = FALSE
  /\ dbStored = [f \in Families |-> Absent]
  /\ dbWarm = [w \in Warms |-> NoWarm]
  /\ dbAsked = [w \in Warms |-> [f \in Families |-> 0]]
  /\ dbOwed = {} /\ dbFailed = {} /\ dbCrossed = {}
  /\ dbStream = "none" /\ dbTick = "stopped" /\ dbMapped = FALSE
  /\ dbSocket = "none" /\ dbTransit = {} /\ dbBody = {}
  /\ dbKeepalive = FALSE /\ dbCutShort = FALSE
  /\ dbView = [f \in Families |-> Absent] /\ dbFate = "fine"

-----------------------------------------------------------------------------
(* The object *)

(* Absent compares equal to the empty list: catalogChanged. *)
Listed(c) == IF c = Absent THEN 0 ELSE c
Differs(f, c) == Listed(dbStored[f]) # c

Idle(w) == dbWarm[w] = NoWarm
Asking(f) == {w \in Warms : dbWarm[w][f] \in Waiting}

(* One frame to every subscriber socket; a closing one gets nothing. *)
Fanout(S) ==
  dbTransit' = IF dbSocket = "open" THEN dbTransit \cup S ELSE dbTransit

(* What every warm awaits once w has asked for the families S and found the
   others as given. *)
Asked(w, S, others) ==
  [v \in Warms |-> [f \in Families |->
     IF v = w THEN (IF f \in S THEN "asked" ELSE others[f])
     ELSE IF f \in S /\ dbWarm[v][f] = "asked" THEN "overtaken" ELSE dbWarm[v][f]]]

AsksFor(w, S, told) ==
  [dbAsked EXCEPT ![w] = [f \in Families |-> IF f \in S THEN told[f] ELSE 0]]

(* Start a warm of the families S, told what the app lists as of told. *)
Ask(w, S, told) ==
  /\ dbWarm' = Asked(w, S, NoWarm)
  /\ dbAsked' = AsksFor(w, S, told)

(* An app registers: its server/discover is asked before anything is listed,
   and the catalogs stand as they were until it is answered. *)
AppRegisters ==
  /\ ~dbLink /\ dbFate # "archived"
  /\ dbLink' = TRUE /\ dbDiscovering' = TRUE
  /\ dbTold' = dbApp
  /\ UNCHANGED <<dbApp, dbObjectVars, dbStreamVars, dbWorldVars>>

(* Its answer names the served families, which are re-listed, and the catalogs
   of the others are emptied. *)
DiscoverAnswers(w) ==
  /\ dbDiscovering /\ Idle(w)
  /\ dbDiscovering' = FALSE
  /\ \E served \in SUBSET Families :
       /\ \A f \in Families \ served : dbTold[f] = 0
       /\ dbWarm' = Asked(w, served, [f \in Families |->
                      IF Differs(f, 0) THEN "changed" ELSE "same"])
       /\ dbAsked' = AsksFor(w, served, dbTold)
       /\ dbStored' = [f \in Families |-> IF f \in served THEN dbStored[f] ELSE 0]
       /\ dbFailed' = dbFailed \cap served
       /\ dbCrossed' = dbCrossed \cap served
  /\ UNCHANGED <<dbApp, dbTold, dbLink, dbOwed, dbStreamVars, dbWorldVars>>

(* No answer, or one the hub cannot read: the tools are re-listed and nothing
   else is touched. *)
DiscoverFails(w) ==
  /\ dbDiscovering /\ Idle(w)
  /\ dbDiscovering' = FALSE
  /\ Ask(w, {ToolFamily}, dbTold)
  /\ dbFailed' = dbFailed \cup (Families \ {ToolFamily})
  /\ UNCHANGED <<dbApp, dbTold, dbLink, dbStored, dbOwed, dbCrossed, dbStreamVars,
                 dbWorldVars>>

(* Fault: a frame that arrives while its family is being re-listed is taken to
   be answered by the request already under way. *)
HearsChange_OneAtATime(w, f) ==
  /\ dbLink /\ dbTold[f] # dbApp[f] /\ Idle(w)
  /\ dbTold' = [dbTold EXCEPT ![f] = dbApp[f]]
  /\ IF Asking(f) = {} THEN Ask(w, {f}, dbTold') ELSE UNCHANGED <<dbWarm, dbAsked>>
  /\ UNCHANGED <<dbApp, dbLink, dbDiscovering, dbStored, dbOwed, dbFailed,
                 dbCrossed, dbStreamVars, dbWorldVars>>

(* A list_changed frame re-lists its own family and no other. *)
HearsChange(w, f) ==
  /\ dbLink /\ dbTold[f] # dbApp[f] /\ Idle(w)
  /\ dbTold' = [dbTold EXCEPT ![f] = dbApp[f]]
  /\ Ask(w, {f}, dbTold')
  /\ UNCHANGED <<dbApp, dbLink, dbDiscovering, dbStored, dbOwed, dbFailed,
                 dbCrossed, dbStreamVars, dbWorldVars>>

(* Fault: the comparison is taken after the write. *)
Answer_ComparesLate(w, f) ==
  /\ dbLink /\ w \in Asking(f)
  /\ \E c \in {dbAsked[w][f], dbTold[f]} :
       /\ dbWarm' = [dbWarm EXCEPT ![w][f] = "same"]
       /\ dbStored' = [dbStored EXCEPT ![f] = c]
       /\ dbCrossed' = IF c # dbTold[f] /\ dbWarm[w][f] = "overtaken"
                         THEN dbCrossed \cup {f} ELSE dbCrossed \ {f}
  /\ dbAsked' = [dbAsked EXCEPT ![w][f] = 0]
  /\ dbFailed' = dbFailed \ {f}
  /\ UNCHANGED <<dbAppVars, dbOwed, dbStreamVars, dbWorldVars>>

(* An answer is what the app listed when the request reached it or later; the
   comparison with the stored catalog is taken before the write. *)
Answer(w, f) ==
  /\ dbLink /\ w \in Asking(f)
  /\ \E c \in {dbAsked[w][f], dbTold[f]} :
       /\ dbWarm' = [dbWarm EXCEPT ![w][f] =
                       IF Differs(f, c) THEN "changed" ELSE "same"]
       /\ dbStored' = [dbStored EXCEPT ![f] = c]
       /\ dbCrossed' = IF c # dbTold[f] /\ dbWarm[w][f] = "overtaken"
                         THEN dbCrossed \cup {f} ELSE dbCrossed \ {f}
  /\ dbAsked' = [dbAsked EXCEPT ![w][f] = 0]
  /\ dbFailed' = dbFailed \ {f}
  /\ UNCHANGED <<dbAppVars, dbOwed, dbStreamVars, dbWorldVars>>

(* No answer in CALL_TIMEOUT_MS, or one that is not a list: the stored catalog
   stands and nothing rings. *)
AnswerFails(w, f) ==
  /\ w \in Asking(f)
  /\ dbWarm' = [dbWarm EXCEPT ![w][f] = "same"]
  /\ dbAsked' = [dbAsked EXCEPT ![w][f] = 0]
  /\ dbFailed' = dbFailed \cup {f}
  /\ UNCHANGED <<dbAppVars, dbStored, dbOwed, dbCrossed, dbStreamVars,
                 dbWorldVars>>

(* Every family of the warm has answered: each bell rings once, now or, inside
   its floor, when the alarm fires. *)
DbRing(w) ==
  /\ dbWarm[w] # NoWarm /\ \A f \in Families : dbWarm[w][f] \notin Waiting
  /\ \E now \in SUBSET {f \in Families : dbWarm[w][f] = "changed"} :
       /\ Fanout(now)
       /\ dbOwed' = dbOwed \cup ({f \in Families : dbWarm[w][f] = "changed"} \ now)
  /\ dbWarm' = [dbWarm EXCEPT ![w] = NoWarm]
  /\ UNCHANGED <<dbAppVars, dbStored, dbAsked, dbFailed, dbCrossed, dbStream, dbTick,
                 dbMapped, dbSocket, dbBody, dbKeepalive, dbCutShort, dbWorldVars>>

DbFlushBells ==
  /\ dbOwed # {}
  /\ Fanout(dbOwed)
  /\ dbOwed' = {}
  /\ UNCHANGED <<dbAppVars, dbStored, dbWarm, dbAsked, dbFailed, dbCrossed,
                 dbStream, dbTick, dbMapped, dbSocket, dbBody, dbKeepalive,
                 dbCutShort, dbWorldVars>>

(* The app socket is lost: its waiters fail, so its warms answer unchanged. *)
LinkDrops ==
  /\ dbLink /\ dbLink' = FALSE /\ dbDiscovering' = FALSE
  /\ dbWarm' = [w \in Warms |-> [f \in Families |->
                  IF dbWarm[w][f] \in Waiting THEN "same" ELSE dbWarm[w][f]]]
  /\ dbAsked' = [w \in Warms |-> [f \in Families |-> 0]]
  /\ dbFailed' = {} /\ dbCrossed' = {}
  /\ UNCHANGED <<dbApp, dbTold, dbStored, dbOwed, dbStreamVars, dbWorldVars>>

(* Fault: the consumer's sockets outlive the object. *)
ObjectRestarts_KeepsSockets ==
  /\ dbLink' = FALSE /\ dbDiscovering' = FALSE
  /\ dbWarm' = [w \in Warms |-> NoWarm]
  /\ dbAsked' = [w \in Warms |-> [f \in Families |-> 0]]
  /\ dbFailed' = {} /\ dbCrossed' = {}
  /\ UNCHANGED <<dbApp, dbTold, dbStored, dbOwed, dbStreamVars, dbWorldVars>>

(* Deploy or crash of the object: storage stays; what was in memory, warms
   between their writes and their rings included, and every socket is gone. *)
ObjectRestarts ==
  /\ dbLink' = FALSE /\ dbDiscovering' = FALSE
  /\ dbWarm' = [w \in Warms |-> NoWarm]
  /\ dbAsked' = [w \in Warms |-> [f \in Families |-> 0]]
  /\ dbFailed' = {} /\ dbCrossed' = {}
  /\ dbSocket' = IF dbSocket = "open" THEN "closing" ELSE dbSocket
  /\ UNCHANGED <<dbApp, dbTold, dbStored, dbOwed, dbStream, dbTick, dbMapped,
                 dbTransit, dbBody, dbKeepalive, dbCutShort, dbWorldVars>>

-----------------------------------------------------------------------------
(* The held stream *)

(* end(): every socket out of the map and closed; idempotent.  The consumer of
   an ended stream lists again when it opens another, so its view is void. *)
dbEndVars == <<dbStream, dbMapped, dbSocket, dbTransit, dbBody, dbKeepalive, dbView>>

Ended ==
  /\ dbStream' = "ended"
  /\ dbMapped' = FALSE
  /\ dbSocket' = "none"
  /\ dbTransit' = {} /\ dbBody' = {}
  /\ dbKeepalive' = FALSE
  /\ dbView' = [f \in Families |-> Absent]

EndOnce == IF dbStream = "open" THEN Ended ELSE UNCHANGED dbEndVars

(* listenStream(): an archived app refuses; then one subscriber socket and the
   first keepalive, and hold() begins. *)
Listen ==
  /\ dbStream = "none" /\ dbFate = "fine"
  /\ dbStream' = "open" /\ dbTick' = "idle"
  /\ dbMapped' = TRUE /\ dbSocket' = "open"
  /\ dbKeepalive' = TRUE
  /\ UNCHANGED <<dbAppVars, dbObjectVars, dbTransit, dbBody, dbCutShort, dbWorldVars>>

(* A frame of the socket: forwarded while that socket is in the map of a
   stream that has not ended. *)
Relay(f) ==
  /\ f \in dbTransit
  /\ dbTransit' = dbTransit \ {f}
  /\ dbBody' = IF dbMapped /\ dbStream = "open" THEN dbBody \cup {f} ELSE dbBody
  /\ UNCHANGED <<dbAppVars, dbObjectVars, dbStream, dbTick, dbMapped, dbSocket,
                 dbKeepalive, dbCutShort, dbWorldVars>>

(* Fault: a close the stream did not ask for goes unnoticed. *)
SocketCloses_Deaf ==
  /\ dbSocket = "closing" /\ dbTransit = {}
  /\ dbSocket' = "open"
  /\ UNCHANGED <<dbAppVars, dbObjectVars, dbStream, dbTick, dbMapped, dbTransit,
                 dbBody, dbKeepalive, dbCutShort, dbWorldVars>>

(* Fault: the stream ends and leaves its socket to the object. *)
SocketCloses_KeepsMap ==
  /\ dbSocket = "closing" /\ dbTransit = {}
  /\ dbStream' = "ended" /\ dbSocket' = "none"
  /\ UNCHANGED <<dbAppVars, dbObjectVars, dbTick, dbMapped, dbTransit, dbBody,
                 dbKeepalive, dbCutShort, dbWorldVars>>

(* The socket's close event: nobody here closed it, so the stream ends, in the
   middle of a tick or between two. *)
SocketCloses ==
  /\ dbSocket = "closing" /\ dbTransit = {}
  /\ IF dbMapped /\ dbStream = "open"
       THEN Ended
       ELSE /\ dbSocket' = "none" /\ dbMapped' = FALSE
            /\ UNCHANGED <<dbStream, dbTransit, dbBody, dbKeepalive, dbView>>
  /\ dbCutShort' = (dbTick \notin {"idle", "stopped"})
  /\ UNCHANGED <<dbAppVars, dbObjectVars, dbTick, dbFate>>

(* Fault: the tick does not look at the keepalive before. *)
TickBegins_NeverStalls ==
  /\ dbTick = "idle"
  /\ \/ dbStream = "ended" /\ dbTick' = "stopped" /\ UNCHANGED dbKeepalive
     \/ dbStream = "open" /\ dbKeepalive' = TRUE /\ dbTick' = "reauthorizing"
  /\ UNCHANGED <<dbAppVars, dbObjectVars, dbStream, dbMapped, dbSocket, dbTransit,
                 dbBody, dbCutShort, dbWorldVars>>

(* hold(): the keepalive timer.  A keepalive still unaccepted ends the stream. *)
TickBegins ==
  /\ dbTick = "idle"
  /\ \/ /\ dbStream = "ended" /\ dbTick' = "stopped"
        /\ UNCHANGED dbEndVars
     \/ /\ dbStream = "open" /\ dbKeepalive
        /\ Ended /\ dbTick' = "stopped"
     \/ /\ dbStream = "open" /\ ~dbKeepalive
        /\ dbKeepalive' = TRUE /\ dbTick' = "reauthorizing"
        /\ UNCHANGED <<dbStream, dbMapped, dbSocket, dbTransit, dbBody, dbView>>
  /\ UNCHANGED <<dbAppVars, dbObjectVars, dbCutShort, dbFate>>

(* retick(): the door's verdict. *)
TickReauthorizes ==
  /\ dbTick = "reauthorizing"
  /\ \/ /\ dbFate # "unadmitted" /\ dbTick' = "resolving"
        /\ UNCHANGED dbEndVars
     \/ dbFate = "unadmitted" /\ dbTick' = "stopped" /\ EndOnce
  /\ UNCHANGED <<dbAppVars, dbObjectVars, dbCutShort, dbFate>>

(* subscribable(): an archived app ends the stream; an app whose socket is in
   the map is done; otherwise one is opened, ended stream or not. *)
TickResolves ==
  /\ dbTick = "resolving"
  /\ \/ dbFate = "archived" /\ dbTick' = "stopped" /\ EndOnce
     \/ /\ dbFate # "archived"
        /\ dbTick' = IF ~dbMapped THEN "opening"
                     ELSE IF dbStream = "ended" THEN "stopped" ELSE "idle"
        /\ UNCHANGED dbEndVars
  /\ UNCHANGED <<dbAppVars, dbObjectVars, dbCutShort, dbFate>>

(* subscribe() and ring(): the socket enters the map whatever became of the
   stream; an object that cannot be reached ends it. *)
TickOpens ==
  /\ dbTick = "opening"
  /\ \/ /\ dbMapped' = TRUE /\ dbSocket' = "open"
        /\ dbBody' = IF dbStream = "open" THEN Families ELSE dbBody
        /\ dbTick' = IF dbStream = "ended" THEN "stopped" ELSE "idle"
        /\ UNCHANGED <<dbStream, dbTransit, dbKeepalive, dbView>>
     \/ EndOnce /\ dbTick' = "stopped"
  /\ UNCHANGED <<dbAppVars, dbObjectVars, dbCutShort, dbFate>>

-----------------------------------------------------------------------------
(* The world *)

DbObjectOnly == UNCHANGED <<dbObjectVars, dbStreamVars>>

(* Bound: the app tells of one change of a family before the next. *)
AppChanges(f) ==
  /\ dbTold[f] = dbApp[f]
  /\ \E c \in Contents \ {dbApp[f]} : dbApp' = [dbApp EXCEPT ![f] = c]
  /\ dbTold' = IF dbLink THEN dbTold ELSE [dbTold EXCEPT ![f] = dbApp'[f]]
  /\ DbObjectOnly /\ UNCHANGED <<dbLink, dbDiscovering, dbWorldVars>>

(* A list is answered from storage; one that was never warmed is re-listed on
   demand, one request at a time for a family. *)
ConsumerLists(f) ==
  /\ dbStream = "open" /\ dbFate # "left"
  /\ dbView' = [dbView EXCEPT ![f] = Listed(dbStored[f])]
  /\ dbBody' = dbBody \ {f}
  /\ \/ /\ dbStored[f] # Absent \/ ~dbLink \/ Asking(f) # {}
        /\ UNCHANGED <<dbWarm, dbAsked>>
     \/ /\ dbStored[f] = Absent /\ dbLink /\ Asking(f) = {}
        /\ \E w \in Warms : Idle(w) /\ Ask(w, {f}, dbTold)
  /\ UNCHANGED <<dbAppVars, dbStored, dbOwed, dbFailed, dbCrossed, dbStream,
                 dbTick, dbMapped, dbSocket, dbTransit, dbKeepalive, dbCutShort,
                 dbFate>>

ConsumerReadsOn ==
  /\ dbFate # "left" /\ dbKeepalive
  /\ dbKeepalive' = FALSE
  /\ UNCHANGED <<dbAppVars, dbObjectVars, dbStream, dbTick, dbMapped, dbSocket,
                 dbTransit, dbBody, dbCutShort, dbWorldVars>>

(* One misfortune of the stream: its consumer stops reading, the door stops
   admitting it, or the owner archives the app, whose socket is severed. *)
Befalls ==
  /\ dbFate = "fine" /\ dbStream = "open"
  /\ dbFate' \in Fates \ {"fine"}
  /\ dbFate' = "archived" => ~dbLink
  /\ DbObjectOnly /\ UNCHANGED <<dbAppVars, dbView>>

DbTickStep == TickBegins \/ TickReauthorizes \/ TickResolves \/ TickOpens

DbNext ==
  \/ AppRegisters
  \/ \E w \in Warms : DiscoverAnswers(w) \/ DiscoverFails(w) \/ DbRing(w)
  \/ \E w \in Warms, f \in Families : HearsChange(w, f) \/ Answer(w, f) \/ AnswerFails(w, f)
  \/ DbFlushBells \/ LinkDrops \/ ObjectRestarts
  \/ Listen \/ SocketCloses \/ DbTickStep
  \/ \E f \in Families : Relay(f) \/ AppChanges(f) \/ ConsumerLists(f)
  \/ ConsumerReadsOn \/ Befalls

DbSpec == DbInit /\ [][DbNext]_dbVars

-----------------------------------------------------------------------------
(* Properties *)

(* A consumer with an open stream is never silently out of date: when what it
   last listed is no longer what the hub stores, the bell is still to come
   (in a warm that has written and not rung, owed to the alarm, on the socket
   or in the body) or the stream is about to end and be reopened.  A restart
   between a catalog's write and its ring loses the bell for good and is
   covered by the second case only (warmAndRing, ring, ListenStream). *)
BellOnItsWay(f) ==
  \/ \E w \in Warms : dbWarm[w][f] = "changed"
  \/ f \in dbOwed \cup dbTransit \cup dbBody

NoSilentStaleness ==
  dbStream = "open" /\ dbSocket = "open" =>
    \A f \in Families :
      dbView[f] # Absent /\ dbView[f] # Listed(dbStored[f]) => BellOnItsWay(f)

(* What the hub stores follows what the app lists: on a live socket a stored
   catalog is behind what the hub was told only while the app's server/discover
   or a re-list is under way, after a re-list that failed, or after the answer
   to an overtaken request was written last (warmDeclared, warmFamily,
   webSocketMessage). *)
StoredFollowsApp ==
  dbLink => \A f \in Families :
    Listed(dbStored[f]) # dbTold[f] =>
      dbDiscovering \/ Asking(f) # {} \/ f \in dbFailed \cup dbCrossed

(* Subscriptions die with the stream: an ended stream holds a socket only when
   it ended while a tick was waiting for the door or the registry, whose next
   step opens one that nothing closes (end, retick). *)
EndedStreamHoldsNothing ==
  dbStream = "ended" /\ dbMapped => dbCutShort

(* A stream whose consumer is gone, whose caller the door no longer admits, or
   whose app is archived, ends at one of its ticks (hold, retick). *)
StreamDies ==
  dbStream = "open" /\ dbFate # "fine" ~> dbStream = "ended"
=============================================================================
