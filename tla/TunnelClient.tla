---------------------------- MODULE TunnelClient ----------------------------
(***************************************************************************)
(* The reconnecting end of a tunnel: several copies of one app, each on    *)
(* one of the four client libraries (clients/js, py, go, rust), dial the   *)
(* same slot of the hub.  A copy keeps its own loop of dial, register,     *)
(* serve and wait; the hub keeps the newest socket and closes the one      *)
(* before it with 4000.  The hub is modelled by what it says on a socket:  *)
(* AppConnection models its side.                                          *)
(***************************************************************************)
EXTENDS Integers, FiniteSets, Sequences

CONSTANTS TcClients,     \* copies of the app
          TcLibraries,   \* libraries they may be built on
          TcMaxAttempt,  \* bound: attempts are counted up to here
          TcOverflow,    \* the attempt whose window the Python library cannot
                         \* compute: 1024 in the code
          TcMaxFaults    \* bound on lost links, restarts and failed writes

TcNobody == "nobody"

ASSUME TunnelClientAssumption ==
  /\ TcClients # {} /\ TcNobody \notin TcClients
  /\ TcLibraries \subseteq {"js", "py", "go", "rust"} /\ TcLibraries # {}
  /\ TcMaxAttempt \in Nat /\ TcOverflow \in Nat /\ TcMaxFaults \in Nat

VARIABLES
  tcLib,      \* copy -> its library
  tcPlace,    \* copy -> where its loop is
  tcAttempt,  \* copy -> consecutive failures, as its library counts them
  tcShut,     \* copies shut down locally whose loop has not noticed
  tcWire,     \* copy -> what is still to be heard on its current socket
  tcHolder,   \* the copy whose socket the hub's object has, if any
  tcHub,      \* "up" or "down"
  tcApp,      \* "live", "archived" or "revoked" (or deleted)
  tcFaults,   \* faults so far
  \* history
  tcExcused   \* a copy was refused, shut down or died, or the credential did

tcHubVars == <<tcHolder, tcHub, tcApp, tcFaults>>
tcVars == <<tcLib, tcPlace, tcAttempt, tcShut, tcWire, tcHubVars, tcExcused>>

(* dead: the loop's task ended by an error nobody handles. *)
TcPlaces == {"idle", "waiting", "dialing", "registering", "serving", "over", "dead"}
TcCloseCodes == {"4000", "4001", "4002", "other"}
TcFrames == {"open", "401", "403", "5xx", "ok", "refused"} \cup TcCloseCodes

TcTypeOK ==
  /\ tcLib \in [TcClients -> TcLibraries]
  /\ tcPlace \in [TcClients -> TcPlaces]
  /\ tcAttempt \in [TcClients -> 0 .. TcMaxAttempt]
  /\ tcShut \subseteq TcClients
  /\ tcWire \in [TcClients -> Seq(TcFrames)]
  /\ tcHolder \in TcClients \cup {TcNobody}
  /\ tcHub \in {"up", "down"} /\ tcApp \in {"live", "archived", "revoked"}
  /\ tcFaults \in 0 .. TcMaxFaults
  /\ tcExcused \in BOOLEAN

TcInit ==
  /\ tcLib \in [TcClients -> TcLibraries]
  /\ tcPlace = [c \in TcClients |-> "idle"]
  /\ tcAttempt = [c \in TcClients |-> 0]
  /\ tcShut = {}
  /\ tcWire = [c \in TcClients |-> <<>>]
  /\ tcHolder = TcNobody /\ tcHub = "up" /\ tcApp = "live"
  /\ tcFaults = 0
  /\ tcExcused = FALSE

-----------------------------------------------------------------------------
(* How an ending is read *)

(* Fault: every refusal is final. *)
TcUpgradeEnding_AllFatal(status) == "stop_fatal"

(* A refused upgrade: 401 is the credential's death, 403 an archived app. *)
TcUpgradeEnding(status) ==
  CASE status = "401" -> "stop_fatal"
    [] status = "403" -> "max_only"
    [] OTHER -> "exponential"


(* A close code; one that is unknown means reconnect. *)
TcCloseEnding(code) ==
  CASE code = "4000" -> "stop_quiet"
    [] code = "4001" -> "stop_fatal"
    [] code = "4002" -> "max_only"
    [] OTHER -> "exponential"

TcEnding(frame) ==
  CASE frame = "refused" -> "stop_fatal"
    [] frame \in {"401", "403", "5xx"} -> TcUpgradeEnding(frame)
    [] OTHER -> TcCloseEnding(frame)

TcMore(n) == IF n < TcMaxAttempt THEN n + 1 ELSE n

(* What a copy's socket says is forgotten with the socket. *)
TcMoves(c, place, attempt) ==
  /\ tcPlace' = [tcPlace EXCEPT ![c] = place]
  /\ tcAttempt' = [tcAttempt EXCEPT ![c] = attempt]

TcStops(c) == TcMoves(c, "over", tcAttempt[c])

(* A copy that hears it was refused, or whose loop dies, is no survivor. *)
TcHeard(c, frame) ==
  /\ tcWire' = [tcWire EXCEPT ![c] =
       IF frame \in {"open", "ok"} THEN Tail(tcWire[c]) ELSE <<>>]
  /\ tcHolder' = IF frame \notin {"open", "ok"} /\ tcHolder = c
                   THEN TcNobody ELSE tcHolder
  /\ tcExcused' = (tcExcused \/ frame = "refused" \/ tcPlace'[c] = "dead")
  /\ UNCHANGED <<tcLib, tcShut, tcHub, tcApp, tcFaults>>

-----------------------------------------------------------------------------
(* JavaScript: start(), loop(), connectOnce() *)

TcJsHears(c, frame) ==
  /\ tcLib[c] = "js"
  /\ \/ frame = "open" /\ TcMoves(c, "registering", 0)
     \/ frame = "ok" /\ TcMoves(c, "serving", tcAttempt[c])
     \/ /\ frame \notin {"open", "ok"}
        /\ \/ TcEnding(frame) \in {"stop_quiet", "stop_fatal"} /\ TcStops(c)
           \/ TcEnding(frame) = "max_only" /\ TcMoves(c, "waiting", tcAttempt[c])
           \/ /\ TcEnding(frame) = "exponential"
              /\ TcMoves(c, "waiting", TcMore(tcAttempt[c]))

(* close(): finish() tears the socket down at once; a sleeping loop finds out
   when it wakes and dials no more. *)
TcJsCloses(c) == tcLib[c] = "js" /\ TcStops(c)

-----------------------------------------------------------------------------
(* Python: _run(), _connect_once(), _pump() *)

(* The window is a float product that overflows at an attempt of TcOverflow or
   more; the error ends the task of _run() and nothing is left to report it. *)
TcPyHears(c, frame) ==
  /\ tcLib[c] = "py"
  /\ \/ frame = "open" /\ TcMoves(c, "registering", 0)
     \/ frame = "ok" /\ TcMoves(c, "serving", tcAttempt[c])
     \/ /\ frame \notin {"open", "ok"}
        /\ \/ TcEnding(frame) \in {"stop_quiet", "stop_fatal"} /\ TcStops(c)
           \/ TcEnding(frame) = "max_only" /\ TcMoves(c, "waiting", tcAttempt[c])
           \/ /\ TcEnding(frame) = "exponential"
              /\ TcMoves(c, IF tcAttempt[c] >= TcOverflow THEN "dead" ELSE "waiting",
                         TcMore(tcAttempt[c]))

(* _teardown(): both tasks are cancelled wherever they are. *)
TcPyCloses(c) == tcLib[c] = "py" /\ TcStops(c)

-----------------------------------------------------------------------------
(* Go: Read(), establish(), register(), install() *)

(* The attempts are a local of establish(), which Read() enters anew for every
   socket it loses; install() drops the socket of a connection that was closed
   meanwhile. *)
TcGoHears(c, frame) ==
  /\ tcLib[c] = "go"
  /\ \/ frame = "open" /\ TcMoves(c, "registering", 0)
     \/ /\ frame = "ok"
        /\ TcMoves(c, IF c \in tcShut THEN "over" ELSE "serving", tcAttempt[c])
     \/ /\ frame \notin {"open", "ok"}
        /\ \/ TcEnding(frame) \in {"stop_quiet", "stop_fatal"} /\ TcStops(c)
           \/ /\ TcEnding(frame) = "max_only"
              /\ TcMoves(c, "waiting", IF tcPlace[c] = "serving" THEN 0 ELSE tcAttempt[c])
           \/ /\ TcEnding(frame) = "exponential"
              /\ TcMoves(c, "waiting",
                   TcMore(IF tcPlace[c] = "serving" THEN 0 ELSE tcAttempt[c]))

(* Close(): the installed socket goes at once; a connection that is being
   established learns of it after its sleep or its registration. *)
TcGoCloses(c) ==
  /\ tcLib[c] = "go"
  /\ IF tcPlace[c] \in {"waiting", "dialing", "registering"}
       THEN UNCHANGED <<tcPlace, tcAttempt>>
       ELSE TcStops(c)

-----------------------------------------------------------------------------
(* Rust: establish(), register(), receive_message() *)

(* Only a registration clears the attempts. *)
TcRustHears(c, frame) ==
  /\ tcLib[c] = "rust"
  /\ \/ frame = "open" /\ TcMoves(c, "registering", tcAttempt[c])
     \/ frame = "ok" /\ TcMoves(c, "serving", 0)
     \/ /\ frame \notin {"open", "ok"}
        /\ \/ TcEnding(frame) \in {"stop_quiet", "stop_fatal"} /\ TcStops(c)
           \/ TcEnding(frame) = "max_only" /\ TcMoves(c, "waiting", tcAttempt[c])
           \/ /\ TcEnding(frame) = "exponential"
              /\ TcMoves(c, "waiting", TcMore(tcAttempt[c]))

(* close() runs once nothing is being received any more. *)
TcRustCloses(c) == tcLib[c] = "rust" /\ TcStops(c)

-----------------------------------------------------------------------------
(* Steps of a copy *)

(* The first dial waits for nothing, except in Go. *)
TcStarts(c) ==
  /\ tcPlace[c] = "idle"
  /\ IF tcLib[c] = "go" THEN TcMoves(c, "waiting", TcMore(0))
                        ELSE TcMoves(c, "dialing", 0)
  /\ UNCHANGED <<tcLib, tcShut, tcWire, tcHubVars, tcExcused>>

(* The backoff ends: dial, or notice a shutdown. *)
TcWakes(c) ==
  /\ tcPlace[c] = "waiting"
  /\ tcPlace' = [tcPlace EXCEPT ![c] = IF c \in tcShut THEN "over" ELSE "dialing"]
  /\ UNCHANGED <<tcLib, tcAttempt, tcShut, tcWire, tcHubVars, tcExcused>>

TcHears(c) ==
  /\ tcWire[c] # <<>>
  /\ LET frame == Head(tcWire[c]) IN
       /\ TcJsHears(c, frame) \/ TcPyHears(c, frame) \/ TcGoHears(c, frame)
            \/ TcRustHears(c, frame)
       /\ IF frame = "ok" /\ c \in tcShut
            THEN /\ tcWire' = [tcWire EXCEPT ![c] = <<>>]
                 /\ tcHolder' = IF tcHolder = c THEN TcNobody ELSE tcHolder
                 /\ UNCHANGED <<tcLib, tcShut, tcHub, tcApp, tcFaults, tcExcused>>
            ELSE TcHeard(c, frame)

(* A local shutdown; the socket it had, if any, closes normally. *)
TcCloses(c) ==
  /\ tcPlace[c] \notin {"idle", "over", "dead"} /\ c \notin tcShut
  /\ TcJsCloses(c) \/ TcPyCloses(c) \/ TcGoCloses(c) \/ TcRustCloses(c)
  /\ tcShut' = tcShut \cup {c}
  /\ tcExcused' = TRUE
  /\ IF tcPlace'[c] = "over"
       THEN /\ tcWire' = [tcWire EXCEPT ![c] = <<>>]
            /\ tcHolder' = IF tcHolder = c THEN TcNobody ELSE tcHolder
       ELSE UNCHANGED <<tcWire, tcHolder>>
  /\ UNCHANGED <<tcLib, tcHub, tcApp, tcFaults>>

-----------------------------------------------------------------------------
(* The hub, by what it says *)

(* The newest accepted upgrade closes the socket before it. *)
TcEvicts(c, answer) ==
  tcWire' = [d \in TcClients |->
    IF d = c THEN <<answer>>
    ELSE IF d = tcHolder THEN Append(tcWire[d], "4000") ELSE tcWire[d]]

TcHubUpgrades(c) ==
  /\ tcPlace[c] = "dialing" /\ tcWire[c] = <<>>
  /\ \/ /\ tcHub = "up" /\ tcApp = "live"
        /\ TcEvicts(c, "open") /\ tcHolder' = c
        /\ UNCHANGED tcFaults
     \/ \* the newcomer's row of the audit log could not be written
        /\ tcHub = "up" /\ tcApp = "live" /\ tcHolder \notin {c, TcNobody}
        /\ tcFaults < TcMaxFaults /\ tcFaults' = tcFaults + 1
        /\ TcEvicts(c, "5xx") /\ tcHolder' = TcNobody
     \/ /\ tcHub = "down" \/ tcApp # "live"
        /\ tcWire' = [tcWire EXCEPT ![c] = <<IF tcHub = "down" THEN "5xx"
             ELSE IF tcApp = "archived" THEN "403" ELSE "401">>]
        /\ UNCHANGED <<tcHolder, tcFaults>>
  /\ UNCHANGED <<tcLib, tcPlace, tcAttempt, tcShut, tcHub, tcApp, tcExcused>>

(* hub/register is answered, or its deadline passes first. *)
TcHubRegisters(c) ==
  /\ tcPlace[c] = "registering" /\ tcWire[c] = <<>> /\ tcHolder = c
  /\ \/ /\ tcWire' = [tcWire EXCEPT ![c] = <<"ok">>]
        /\ UNCHANGED <<tcHolder, tcFaults>>
     \/ /\ tcFaults < TcMaxFaults /\ tcFaults' = tcFaults + 1
        /\ \E frame \in {"refused", "other"} :
             tcWire' = [tcWire EXCEPT ![c] = <<frame>>]
        /\ tcHolder' = TcNobody
  /\ UNCHANGED <<tcLib, tcPlace, tcAttempt, tcShut, tcHub, tcApp, tcExcused>>

(* Close the sitting socket, if there is one. *)
TcSevers(code) ==
  /\ tcWire' = [d \in TcClients |->
       IF d = tcHolder THEN Append(tcWire[d], code) ELSE tcWire[d]]
  /\ tcHolder' = TcNobody

TcOwner ==
  /\ \/ tcApp = "live" /\ tcApp' = "archived" /\ TcSevers("4002")
     \/ tcApp = "archived" /\ tcApp' = "live" /\ UNCHANGED <<tcWire, tcHolder>>
     \/ tcApp # "revoked" /\ tcApp' = "revoked" /\ TcSevers("4001")
  /\ tcExcused' = (tcExcused \/ tcApp' = "revoked")
  /\ UNCHANGED <<tcLib, tcPlace, tcAttempt, tcShut, tcHub, tcFaults>>

(* A lost link: what was under way on the socket is lost with it. *)
TcLinkBreaks(c) ==
  /\ \/ tcPlace[c] \in {"registering", "serving"}
     \/ tcPlace[c] = "dialing" /\ tcWire[c] = <<"open">>
  /\ tcFaults < TcMaxFaults /\ tcFaults' = tcFaults + 1
  /\ tcWire' = [tcWire EXCEPT ![c] = <<"other">>]
  /\ tcHolder' = IF tcHolder = c THEN TcNobody ELSE tcHolder
  /\ UNCHANGED <<tcLib, tcPlace, tcAttempt, tcShut, tcHub, tcApp, tcExcused>>

(* A deploy takes every socket; dials fail until the hub is back. *)
TcHubGoes ==
  /\ tcHub = "up" /\ tcFaults < TcMaxFaults
  /\ tcHub' = "down" /\ tcFaults' = tcFaults + 1
  /\ tcHolder' = TcNobody
  /\ tcWire' = [c \in TcClients |->
       IF tcPlace[c] \in {"registering", "serving"} \/ tcWire[c] = <<"open">>
         THEN <<"other">> ELSE tcWire[c]]
  /\ UNCHANGED <<tcLib, tcPlace, tcAttempt, tcShut, tcApp, tcExcused>>

TcHubReturns ==
  /\ tcHub = "down" /\ tcHub' = "up"
  /\ UNCHANGED <<tcLib, tcPlace, tcAttempt, tcShut, tcWire, tcHolder, tcApp,
                 tcFaults, tcExcused>>

(* Every copy has stopped. *)
TcDone ==
  /\ \A c \in TcClients : tcPlace[c] \in {"over", "dead"}
  /\ UNCHANGED tcVars

TcCopyStep(c) == TcStarts(c) \/ TcWakes(c) \/ TcHears(c)
TcHubStep(c) == TcHubUpgrades(c) \/ TcHubRegisters(c)

TcNext ==
  \/ \E c \in TcClients : TcCopyStep(c) \/ TcHubStep(c) \/ TcCloses(c) \/ TcLinkBreaks(c)
  \/ TcOwner \/ TcHubGoes \/ TcHubReturns
  \/ TcDone

(* A started copy runs on, its backoff ends, and a hub that is up answers. *)
TcFairness == \A c \in TcClients : WF_tcVars(TcCopyStep(c)) /\ WF_tcVars(TcHubStep(c))

TcSpec == TcInit /\ [][TcNext]_tcVars
TcFairSpec == TcSpec /\ TcFairness

-----------------------------------------------------------------------------
(* Properties *)

(* Copies that evict one another never all give up: unless a copy was shut
   down or refused, or its loop or the credential died, one of them is still
   trying or serving, whatever closes crossed whatever dials and whichever libraries
   they are built on (close codes 4000, 4002 and the unknown ones). *)
TcSurvivor ==
  ~tcExcused => \E c \in TcClients : tcPlace[c] # "over"

(* Once the hub stays up and the app live, copies that were started and
   replace one another settle: one serves and the others have stopped for
   good (the newest-wins eviction, stop_quiet of its code 4000). *)
TcHealthy ==
  tcHub = "up" /\ tcApp = "live" /\ \A c \in TcClients : tcPlace[c] # "idle"
TcOneServes ==
  \E c \in TcClients : /\ tcPlace[c] = "serving"
                       /\ \A d \in TcClients \ {c} : tcPlace[d] = "over"
=============================================================================
