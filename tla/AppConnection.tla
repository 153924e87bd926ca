--------------------------- MODULE AppConnection ---------------------------
(***************************************************************************)
(* The per-app Durable Object of server/src/tunnel.ts: the app sockets it  *)
(* accepts, the register handshake and its deadline, the one alarm slot    *)
(* that the deadline shares with the doorbells, and the correlation of     *)
(* forwarded calls.                                                        *)
(*                                                                         *)
(* A Durable Object is single threaded, and its input gate holds events    *)
(* back while a handler awaits its own storage.  It does not hold them     *)
(* back behind any other await, so a handler is cut into one action per    *)
(* stretch between two awaits of D1.  Instants are kept as the time left   *)
(* until them (deadline, slot) or the time gone since them (quiet, age).   *)
(* Catalogs are left to Doorbell: here a handler asks for a bell.          *)
(***************************************************************************)
EXTENDS Integers, FiniteSets

CONSTANTS Tokens,        \* app tokens that open sockets
          Calls,         \* calls a consumer forwards to the app
          Bells,         \* the list_changed bells, one per family
          Upgrades,      \* upgrade requests the object can be serving at once
          MaxSockets,    \* bound on the sockets ever accepted
          DeadlineMs,    \* limits.REGISTRATION_DEADLINE_MS, in clock units
          BellFloor,     \* limits.LISTEN_BELL_MIN_INTERVAL_MS, same units
          Deletable      \* whether the owner may delete the app

Sockets == 1 .. MaxSockets   \* a socket is its place in the order of acceptance

None  == "none"              \* no token
Unset == -1                  \* a timer that is not armed

ASSUME ConstantsAssumption ==
  /\ MaxSockets \in Nat
  /\ DeadlineMs \in Nat \ {0}
  /\ BellFloor \in Nat \ {0}
  /\ None \notin Tokens
  /\ Deletable \in BOOLEAN

(* Close codes 4000, 4001, 4002, 4003 and 4004. *)
CloseCodes == {"replaced", "revoked", "archived", "rowGone", "protocol"}

VARIABLES
  \* the runtime's sockets and the attachments they carry
  accepted,     \* how many sockets were ever accepted
  wire,         \* "new", "open", the code it is closing with, or "gone"
  opener,       \* attachment.tokenId
  registered,   \* attachment.registered
  \* handlers parked at an await
  arriving,     \* upgrade -> token, while its eviction's audit row is written
  registering,  \* socket -> where its register handler is parked
  \* correlation, in memory
  call,         \* call -> its state or outcome
  carrier,      \* the socket a call's frame left on, 0 if it never left
  \* durable storage
  deadline,     \* ALARM_DEADLINE_KEY, as the time left
  slot,         \* the alarm slot, as the time left
  owed,         \* bell:pending:*
  quiet,        \* time since bell:rang:*, counted up to BellFloor
  \* history, read by properties only
  age,          \* time a socket has been open and unregistered, up to DeadlineMs
  executed,     \* calls the app has executed
  unheard       \* bells asked of ring() that have not gone out since

socketVars == <<accepted, wire, opener, registered, age>>
handlerVars == <<arriving, registering>>
callVars == <<call, carrier, executed>>
alarmVars == <<deadline, slot>>
bellVars == <<owed, quiet, unheard>>
vars == <<socketVars, handlerVars, callVars, alarmVars, bellVars>>

Verdicts == {"stored", "refused", "rowGone", "failed"}
Outcomes == {"ok", "offline", "timeout", "disconnected", "unreachable"}

TypeOK ==
  /\ accepted \in 0 .. MaxSockets
  /\ wire \in [Sockets -> {"new", "open", "gone"} \cup CloseCodes]
  /\ opener \in [Sockets -> Tokens \cup {None}]
  /\ registered \in [Sockets -> BOOLEAN]
  /\ arriving \in [Upgrades -> Tokens \cup {None}]
  /\ registering \in [Sockets -> {None, "upserting"} \cup Verdicts]
  /\ call \in [Calls -> {"idle", "sent"} \cup Outcomes]
  /\ carrier \in [Calls -> 0 .. MaxSockets]
  /\ deadline \in 0 .. DeadlineMs \cup {Unset}
  /\ slot \in Nat \cup {Unset}
  /\ owed \subseteq Bells
  /\ quiet \in [Bells -> 0 .. BellFloor]
  /\ age \in [Sockets -> 0 .. DeadlineMs]
  /\ executed \subseteq Calls
  /\ unheard \subseteq Bells

Init ==
  /\ accepted = 0
  /\ wire = [s \in Sockets |-> "new"]
  /\ opener = [s \in Sockets |-> None]
  /\ registered = [s \in Sockets |-> FALSE]
  /\ arriving = [u \in Upgrades |-> None]
  /\ registering = [s \in Sockets |-> None]
  /\ call = [c \in Calls |-> "idle"]
  /\ carrier = [c \in Calls |-> 0]
  /\ deadline = Unset
  /\ slot = Unset
  /\ owed = {}
  /\ quiet = [b \in Bells |-> BellFloor]
  /\ age = [s \in Sockets |-> 0]
  /\ executed = {}
  /\ unheard = {}

-----------------------------------------------------------------------------
(* What the handlers are built from. *)

(* ctx.getWebSockets(): a socket is listed from its acceptance until its
   close handshake has ended, the newest first. *)
Attached == {s \in Sockets : wire[s] \in {"open"} \cup CloseCodes}

(* socket(): the first app socket the runtime lists. *)
Current == CHOOSE s \in Attached : \A t \in Attached : t <= s

(* live() # null *)
Live == Attached # {} /\ registered[Current]

(* ws.close(code) on a socket that is already closing changes nothing. *)
Closed(s, code) == [wire EXCEPT ![s] = IF @ = "open" THEN code ELSE @]

(* Faults of drain: no waiter fails; waiters of every socket fail; waiters
   fail as if their frame had never left. *)
Drained_None(s) == call

Drained_All(s) ==
  [c \in Calls |-> IF call[c] = "sent" THEN "disconnected" ELSE call[c]]

Drained_Offline(s) ==
  [c \in Calls |-> IF call[c] = "sent" /\ carrier[c] = s
                     THEN "offline" ELSE call[c]]

(* drain(ws): the waiters of this socket fail, those of any other do not. *)
Drained(s) ==
  [c \in Calls |-> IF call[c] = "sent" /\ carrier[c] = s
                     THEN "disconnected" ELSE call[c]]

(* drop(ws, code) *)
Drop(s, code) ==
  /\ wire' = Closed(s, code)
  /\ call' = Drained(s)

(* Fault: the newest purpose takes the slot. *)
Armed_Overwrites(at) == at

(* armAlarm(at): never behind an alarm that is already set for sooner. *)
Armed(at) == IF slot = Unset \/ at < slot THEN at ELSE slot

(* The bound on sockets leaves room for the upgrades already parked. *)
Room ==
  accepted + Cardinality({u \in Upgrades : arriving[u] # None}) < MaxSockets

(* The rest of fetch(), once nothing sits on the slot: attach, and arm the
   deadline.  The number of the socket is its place in the order. *)
Accept(t) ==
  LET s == accepted + 1 IN
  /\ accepted < MaxSockets
  /\ accepted' = s
  /\ wire' = [wire EXCEPT ![s] = "open"]
  /\ opener' = [opener EXCEPT ![s] = t]
  /\ deadline' = DeadlineMs
  /\ slot' = Armed(DeadlineMs)
  /\ UNCHANGED <<registered, age, registering, callVars, bellVars>>

-----------------------------------------------------------------------------
(* Upgrades *)

(* Fault: the newcomer is accepted without a look at the slot. *)
Upgrade_NoEviction(t) ==
  /\ \E u \in Upgrades : arriving[u] = None
  /\ Room
  /\ Accept(t)
  /\ UNCHANGED arriving

(* fetch() with no app socket to evict: accepted in the same turn. *)
Upgrade(t) ==
  /\ \E u \in Upgrades : arriving[u] = None
  /\ Room
  /\ Attached = {}
  /\ Accept(t)
  /\ UNCHANGED arriving

(* fetch() over a sitting socket: it is closed at once, and the handler parks
   in the D1 write of the connect.replaced row. *)
Evict(t) ==
  \E u \in Upgrades :
    /\ arriving[u] = None
    /\ Attached # {}
    /\ Room
    /\ Drop(Current, "replaced")
    /\ arriving' = [arriving EXCEPT ![u] = t]
    /\ UNCHANGED <<accepted, opener, registered, age, registering, carrier,
                   executed, alarmVars, bellVars>>

(* The audit row is written: the newcomer is accepted. *)
EvictionRecorded(u) ==
  /\ arriving[u] # None
  /\ Accept(arriving[u])
  /\ arriving' = [arriving EXCEPT ![u] = None]

(* It is not: fetch() rejects, the sitting socket is gone all the same and
   the newcomer is never accepted. *)
EvictionFailed(u) ==
  /\ arriving[u] # None
  /\ arriving' = [arriving EXCEPT ![u] = None]
  /\ UNCHANGED <<socketVars, registering, callVars, alarmVars, bellVars>>

-----------------------------------------------------------------------------
(* The register handshake *)

(* A first frame that is not a valid hub/register: refused and closed. *)
BadFirstFrame(s) ==
  /\ s \in Attached
  /\ ~registered[s]
  /\ Drop(s, "protocol")
  /\ UNCHANGED <<accepted, opener, registered, age, handlerVars, carrier,
                 executed, alarmVars, bellVars>>

(* A valid hub/register: its handler parks in the D1 upsert of the roles.  The
   frame may still be delivered while the socket is closing. *)
RegisterFrame(s) ==
  /\ s \in Attached
  /\ ~registered[s]
  /\ registering[s] = None
  /\ registering' = [registering EXCEPT ![s] = "upserting"]
  /\ UNCHANGED <<socketVars, arriving, callVars, alarmVars, bellVars>>

(* D1 answers: stored, refused by a rule, no app row left, or a failure. *)
UpsertAnswers(s, verdict) ==
  /\ registering[s] = "upserting"
  /\ registering' = [registering EXCEPT ![s] = verdict]
  /\ UNCHANGED <<socketVars, arriving, callVars, alarmVars, bellVars>>

(* The handler resumes on the declaration it stored, whatever became of its
   socket meanwhile: the socket is registered and the deadline is spent. *)
RegisterStored(s) ==
  /\ registering[s] = "stored"
  /\ registering' = [registering EXCEPT ![s] = None]
  /\ registered' = [registered EXCEPT ![s] = TRUE]
  /\ deadline' = Unset
  /\ UNCHANGED <<accepted, wire, opener, age, arriving, callVars, slot,
                 bellVars>>

(* ... or on a refusal, and closes the socket with the code for it. *)
RegisterRefused(s) ==
  /\ registering[s] \in {"refused", "rowGone"}
  /\ Drop(s, IF registering[s] = "refused" THEN "protocol" ELSE "rowGone")
  /\ registering' = [registering EXCEPT ![s] = None]
  /\ UNCHANGED <<accepted, opener, registered, age, arriving, carrier,
                 executed, alarmVars, bellVars>>

(* ... or on another error, which is rethrown: the deadline is left to act. *)
RegisterFailed(s) ==
  /\ registering[s] = "failed"
  /\ registering' = [registering EXCEPT ![s] = None]
  /\ UNCHANGED <<socketVars, arriving, callVars, alarmVars, bellVars>>

-----------------------------------------------------------------------------
(* Forwarded calls *)

(* forward(): refused when no registered socket is listed, or when the one
   listed is already closing and the send throws; sent otherwise. *)
ForwardOffline(c) ==
  /\ call[c] = "idle"
  /\ ~(Live /\ wire[Current] = "open")
  /\ call' = [call EXCEPT ![c] = "offline"]
  /\ UNCHANGED <<socketVars, handlerVars, carrier, executed, alarmVars,
                 bellVars>>

Forward(c) ==
  /\ call[c] = "idle"
  /\ Live
  /\ wire[Current] = "open"
  /\ call' = [call EXCEPT ![c] = "sent"]
  /\ carrier' = [carrier EXCEPT ![c] = Current]
  /\ UNCHANGED <<socketVars, handlerVars, executed, alarmVars, bellVars>>

(* The app runs a call whose frame left; its socket may be closing by then. *)
Execute(c) ==
  /\ carrier[c] # 0
  /\ executed' = executed \cup {c}
  /\ UNCHANGED <<socketVars, handlerVars, call, carrier, alarmVars, bellVars>>

(* Fault: an answer settles a call that was given up. *)
Settle_Late(c, outcome) ==
  /\ c \in executed
  /\ wire[carrier[c]] = "open"
  /\ call' = [call EXCEPT ![c] = outcome]
  /\ UNCHANGED <<socketVars, handlerVars, carrier, executed, alarmVars,
                 bellVars>>

(* settle(): an answer finds its waiter, one nobody waits for is dropped, and
   one that is no JSON-RPC response counts as silence. *)
Settle(c, outcome) ==
  /\ c \in executed
  /\ wire[carrier[c]] = "open"
  /\ call[c] = "sent"
  /\ call' = [call EXCEPT ![c] = outcome]
  /\ UNCHANGED <<socketVars, handlerVars, carrier, executed, alarmVars,
                 bellVars>>

(* Fault: the timer is cleared once the app has the call. *)
CallTimeout_ClearedEarly(c) ==
  /\ call[c] = "sent"
  /\ c \notin executed
  /\ call' = [call EXCEPT ![c] = "timeout"]
  /\ UNCHANGED <<socketVars, handlerVars, carrier, executed, alarmVars,
                 bellVars>>

(* The call budget runs out. *)
CallTimeout(c) ==
  /\ call[c] = "sent"
  /\ call' = [call EXCEPT ![c] = "timeout"]
  /\ UNCHANGED <<socketVars, handlerVars, carrier, executed, alarmVars,
                 bellVars>>

-----------------------------------------------------------------------------
(* Doorbells and the alarm *)

(* Faults: a ring within the floor is dropped; it is owed but arms nothing. *)
Ring_Dropped(b) ==
  /\ IF quiet[b] = BellFloor
       THEN /\ quiet' = [quiet EXCEPT ![b] = 0]
            /\ unheard' = unheard \ {b}
       ELSE /\ unheard' = unheard \cup {b}
            /\ UNCHANGED quiet
  /\ UNCHANGED <<owed, slot>>

Ring_Unarmed(b) ==
  /\ IF quiet[b] = BellFloor
       THEN /\ quiet' = [quiet EXCEPT ![b] = 0]
            /\ unheard' = unheard \ {b}
            /\ UNCHANGED owed
       ELSE /\ owed' = owed \cup {b}
            /\ unheard' = unheard \cup {b}
            /\ UNCHANGED quiet
  /\ UNCHANGED slot

(* ring(bell): at once in a quiet window, else owed until the floor. *)
Ring(b) ==
  IF quiet[b] = BellFloor
    THEN /\ quiet' = [quiet EXCEPT ![b] = 0]
         /\ unheard' = unheard \ {b}
         /\ UNCHANGED <<owed, slot>>
    ELSE /\ owed' = owed \cup {b}
         /\ slot' = Armed(BellFloor - quiet[b])
         /\ unheard' = unheard \cup {b}
         /\ UNCHANGED quiet

(* The end of a warm asks for the bells of the catalogs it has changed, each
   as a ring of its own.  Its socket may be gone by then, but not the object:
   what a warm has written and not yet rung dies with the object's memory. *)
Rings(s, b) ==
  /\ registered[s]
  /\ Ring(b)
  /\ UNCHANGED <<socketVars, handlerVars, callVars, deadline>>

(* flushBells(): every owed bell rings, without a look at the clock. *)
FlushBells ==
  /\ owed' = {}
  /\ quiet' = [b \in Bells |-> IF b \in owed THEN 0 ELSE quiet[b]]
  /\ unheard' = unheard \ owed

(* alarm() when the slot belongs to the bells: no deadline is stored, or one
   is and is not yet due, in which case the slot goes back to it. *)
BellAlarm ==
  /\ slot = 0
  /\ deadline = Unset \/ (owed # {} /\ deadline > 0)
  /\ FlushBells
  /\ slot' = deadline
  /\ UNCHANGED <<socketVars, handlerVars, callVars, deadline>>

(* Fault: the deadline leg runs on a firing the bells own. *)
DeadlineAlarm_SharedFiring ==
  /\ slot = 0
  /\ deadline # Unset
  /\ FlushBells
  /\ slot' = Unset
  /\ deadline' = Unset
  /\ IF Attached # {} /\ ~registered[Current]
       THEN Drop(Current, "protocol")
       ELSE UNCHANGED <<wire, call>>
  /\ UNCHANGED <<accepted, opener, registered, age, handlerVars, carrier,
                 executed>>

(* alarm() otherwise: the bells first, then the deadline leg. *)
DeadlineAlarm ==
  /\ slot = 0
  /\ deadline # Unset
  /\ owed = {} \/ deadline = 0
  /\ FlushBells
  /\ slot' = Unset
  /\ deadline' = Unset
  /\ IF Attached # {} /\ ~registered[Current]
       THEN Drop(Current, "protocol")
       ELSE UNCHANGED <<wire, call>>
  /\ UNCHANGED <<accepted, opener, registered, age, handlerVars, carrier,
                 executed>>

(* Fault: a timer that has run out runs on. *)
Elapsed_Unclamped(t) == t - 1

(* One unit of a timer; 0 has run out and Unset is not armed. *)
Elapsed(t) == IF t > 0 THEN t - 1 ELSE t

(* Time passes.  An alarm whose time has come may still fire late. *)
Tick ==
  /\ deadline' = Elapsed(deadline)
  /\ slot' = Elapsed(slot)
  /\ quiet' = [b \in Bells |->
                 IF quiet[b] < BellFloor THEN quiet[b] + 1 ELSE quiet[b]]
  /\ age' = [s \in Sockets |->
               IF wire[s] = "open" /\ ~registered[s] /\ age[s] < DeadlineMs
                 THEN age[s] + 1 ELSE age[s]]
  /\ UNCHANGED <<accepted, wire, opener, registered, handlerVars, callVars,
                 owed, unheard>>

-----------------------------------------------------------------------------
(* Owner evictions and the environment *)

(* sever(code, onlyIfTokenId): None stands for an absent onlyIfTokenId. *)
Sever(code, onlyIf) ==
  /\ IF Attached # {} /\ (onlyIf = None \/ opener[Current] = onlyIf)
       THEN Drop(Current, code)
       ELSE UNCHANGED <<wire, call>>
  /\ UNCHANGED <<accepted, opener, registered, age, handlerVars, carrier,
                 executed, alarmVars, bellVars>>

(* wipe(): everything stored is erased, the alarm with it, and the sockets
   are left to the sever that came before. *)
Wipe ==
  /\ deadline' = Unset
  /\ slot' = Unset
  /\ owed' = {}
  /\ quiet' = [b \in Bells |-> BellFloor]
  /\ unheard' = {}
  /\ UNCHANGED <<socketVars, handlerVars, callVars>>

(* The peer closes or the transport breaks: webSocketClose/webSocketError. *)
PeerCloses(s) ==
  /\ s \in Attached
  /\ wire' = [wire EXCEPT ![s] = "gone"]
  /\ call' = Drained(s)
  /\ UNCHANGED <<accepted, opener, registered, age, handlerVars, carrier,
                 executed, alarmVars, bellVars>>

(* The object is restarted: its memory and its sockets are gone, attachments
   included, its storage and its alarm are not; a caller waiting on it sees the
   stub throw. *)
Restart ==
  /\ wire' = [s \in Sockets |-> IF s \in Attached THEN "gone" ELSE wire[s]]
  /\ call' = [c \in Calls |->
                IF call[c] = "sent" THEN "unreachable" ELSE call[c]]
  /\ arriving' = [u \in Upgrades |-> None]
  /\ registering' = [s \in Sockets |-> None]
  /\ registered' = [s \in Sockets |-> FALSE]
  /\ UNCHANGED <<accepted, opener, age, carrier, executed, alarmVars,
                 bellVars>>

-----------------------------------------------------------------------------
Handshake ==
  \E s \in Sockets :
    \/ BadFirstFrame(s)
    \/ RegisterFrame(s)
    \/ \E verdict \in Verdicts : UpsertAnswers(s, verdict)
    \/ RegisterStored(s)
    \/ RegisterRefused(s)
    \/ RegisterFailed(s)

Calling ==
  \E c \in Calls :
    \/ ForwardOffline(c)
    \/ Forward(c)
    \/ Execute(c)
    \/ \E outcome \in {"ok", "timeout"} : Settle(c, outcome)
    \/ CallTimeout(c)

Next ==
  \/ \E t \in Tokens : Upgrade(t) \/ Evict(t)
  \/ \E u \in Upgrades : EvictionRecorded(u) \/ EvictionFailed(u)
  \/ Handshake
  \/ Calling
  \/ \E s \in Sockets, b \in Bells : Rings(s, b)
  \/ BellAlarm
  \/ DeadlineAlarm
  \/ Tick
  \/ \E t \in Tokens : Sever("revoked", t)
  \/ \E code \in {"revoked", "archived"} : Sever(code, None)
  \/ Deletable /\ Wipe
  \/ \E s \in Sockets : PeerCloses(s)
  \/ Restart

(* Time passes, an armed alarm fires, a parked handler resumes and a call's
   timer runs.  Nothing is owed by the peer or by the owner. *)
Fairness ==
  /\ WF_vars(Tick)
  /\ WF_vars(BellAlarm)
  /\ WF_vars(DeadlineAlarm)
  /\ \A u \in Upgrades : WF_vars(EvictionRecorded(u) \/ EvictionFailed(u))
  /\ \A s \in Sockets :
       /\ WF_vars(\E verdict \in Verdicts : UpsertAnswers(s, verdict))
       /\ WF_vars(RegisterStored(s) \/ RegisterRefused(s) \/ RegisterFailed(s))
  /\ \A c \in Calls : WF_vars(CallTimeout(c))

Spec == Init /\ [][Next]_vars
FairSpec == Spec /\ Fairness

-----------------------------------------------------------------------------
(* The promise *)

Promise == INSTANCE CallPromise WITH ran <- executed

(* Every call keeps what forward() promises: refused, or sent once and ended
   once, by an outcome that is final and true. *)
KeepsPromise == Promise!Spec

(* Safety *)

(* Newest wins at acceptance: the object never has two open app sockets
   (fetch() evicts before it accepts). *)
AtMostOneOpen ==
  \A s, t \in Sockets : wire[s] = "open" /\ wire[t] = "open" => s = t

(* The two purposes share one slot and neither pushes the other out: while a
   deadline is stored the alarm is set no later than it, a bell asked of ring()
   has gone out or is owed in storage, and while a bell is owed the alarm is
   set no later than the end of its floor (armAlarm, ring, alarm). *)
AlarmCovers ==
  /\ deadline # Unset => slot # Unset /\ slot <= deadline
  /\ unheard \subseteq owed
  /\ \A b \in owed : slot # Unset /\ slot <= BellFloor - quiet[b]

(* Every waiter waits on a socket that can still answer it: no drop, close,
   eviction or sever leaves a call in flight behind (drop, drain). *)
InFlightIsAnswerable ==
  \A c \in Calls : call[c] = "sent" =>
    /\ carrier[c] \in Sockets
    /\ wire[carrier[c]] = "open"
    /\ registered[carrier[c]]

(* "offline" is the one outcome that says the call certainly did not run
   (forward, request, drain). *)
OfflineNeverRan == \A c \in Calls : call[c] = "offline" => c \notin executed

(* A call fails as disconnected only in the step that ends its own socket:
   another socket's close never touches it (drain). *)
DrainIsScoped ==
  [][\A c \in Calls :
       call[c] = "sent" /\ call'[c] = "disconnected"
         => wire[carrier[c]] = "open" /\ wire'[carrier[c]] # "open"]_vars

(* A firing that some bell owns never spends the handshake window of an
   unregistered socket (alarm's rang branch). *)
CoalescerSparesHandshake ==
  [][\A s \in Sockets :
       owed # {} /\ slot = 0 /\ owed' = {}
         /\ wire[s] = "open" /\ wire'[s] # "open"
         => age[s] = DeadlineMs]_vars

(* A socket closed by the missed deadline has had its whole window. *)
WindowIsKept ==
  [][\A s \in Sockets :
       DeadlineAlarm /\ wire[s] = "open" /\ wire'[s] # "open"
         => age[s] = DeadlineMs]_vars

(* Liveness *)

(* A forwarded call always gets its one outcome (request's timer, drain). *)
CallsEnd == \A c \in Calls : call[c] = "sent" ~> call[c] # "sent"

(* A bell asked of ring() goes out, whatever else the alarm is armed for: from
   ring() on the final state of a burst always rings, restarts included (ring,
   flushBells, alarm). *)
RingIsHeard == \A b \in Bells : b \in unheard ~> b \notin unheard

(* A socket does not stay open and unregistered for ever: the registration
   deadline bounds that window (fetch, alarm). *)
HandshakeEnds ==
  \A s \in Sockets :
    wire[s] = "open" /\ ~registered[s] ~> wire[s] # "open" \/ registered[s]
=============================================================================
