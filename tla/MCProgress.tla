----------------------------- MODULE MCProgress -----------------------------
(***************************************************************************)
(* Model checking of what must come in the end, on small instances: the    *)
(* bell and the deadline that share the alarm of an app's object, a winner *)
(* among the copies of an app that dial it, an answer for the calls that   *)
(* loop through the approval gate, and the end of a program of the hub.    *)
(* None of them shares state with another in the code but by the calls and *)
(* closes each module already has, so they are checked side by side: a     *)
(* behaviour is one of a single subject while the others stand still.      *)
(***************************************************************************)
EXTENDS AppConnection, TunnelClient, HubExecution

CONSTANTS GateCalls, GateDeciders, GateReaders, GateRows

VARIABLES now, status, expires, online, stage, pass, stale, asOf, ruling,
          reading, ledger, ran

GateOf == INSTANCE ApprovalGate
            WITH Calls <- GateCalls, Deciders <- GateDeciders,
                 Readers <- GateReaders, MaxRows <- GateRows,
                 Window <- 1, Retention <- 9, MaxNow <- 2

VARIABLE subject

gateVars == <<now, online, status, expires, ledger, stage, pass, stale, asOf,
             ran, ruling, reading>>
progressVars == <<subject, vars, tcVars, hubVars, gateVars>>

(* Those that stand still start in one state. *)
ProgressInit ==
  /\ Init /\ TcInit /\ HubInit /\ GateOf!Init
  /\ subject \in {"object", "copies", "hub", "gate"}
  /\ subject # "copies" => \A c \in TcClients : tcLib[c] = "js"
  /\ subject # "gate" => online

ProgressNext ==
  \/ subject = "object" /\ Next /\ UNCHANGED <<subject, tcVars, hubVars, gateVars>>
  \/ subject = "copies" /\ TcNext /\ UNCHANGED <<subject, vars, hubVars, gateVars>>
  \/ subject = "hub" /\ HubNext /\ UNCHANGED <<subject, vars, tcVars, gateVars>>
  \/ subject = "gate" /\ GateOf!Next /\ UNCHANGED <<subject, vars, tcVars, hubVars>>

(* The fairness each module states, while it is the subject; of the object's
   that of the clock and of its alarm. *)
ProgressSpec ==
  /\ ProgressInit /\ [][ProgressNext]_progressVars
  /\ WF_vars(subject = "object" /\ Tick)
  /\ WF_vars(subject = "object" /\ BellAlarm)
  /\ WF_vars(subject = "object" /\ DeadlineAlarm)
  /\ \A c \in TcClients :
       /\ WF_tcVars(subject = "copies" /\ TcCopyStep(c))
       /\ WF_tcVars(subject = "copies" /\ TcHubStep(c))
  /\ WF_hubVars(subject = "hub" /\ HubRunsOn)
  /\ WF_hubVars(subject = "hub" /\ HubGuestStopped)
  /\ WF_hubVars(subject = "hub" /\ HubClock)
  /\ \A c \in GateCalls :
       WF_gateVars(subject = "gate" /\ stage[c] # "idle" /\ GateOf!Step(c))

(* A call that has entered the gate leaves it with an answer (passGate). *)
GateAnswers == GateOf!GateAnswers
=============================================================================
