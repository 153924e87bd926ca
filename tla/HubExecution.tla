---------------------------- MODULE HubExecution ----------------------------
(***************************************************************************)
(* One admitted `execute` of the hub: gateway.ts hubCall around the        *)
(* QuickJS executor of hub-quickjs.ts.  Guest bytecode runs synchronously  *)
(* on the worker's thread ("running"), and the callbacks of host           *)
(* operations run only while that thread is free.  The clock, the client's *)
(* disconnect and a revocation are flags of the world: any check of the    *)
(* code may find them changed.  The clock keeps the two instants the code  *)
(* compares it with: the work deadline and the admitted deadline.          *)
(***************************************************************************)
EXTENDS Integers, FiniteSets

CONSTANTS HubOps,          \* the host operations the guest may ask for
          HubConcurrency,  \* HUB_INNER_CONCURRENCY_MAX
          HubOperations    \* HUB_INNER_OPERATIONS_MAX

ASSUME HubAssumption ==
  /\ IsFiniteSet(HubOps)
  /\ HubConcurrency \in Nat \ {0}
  /\ HubOperations \in Nat \ {0}

VARIABLES
  hubTime,      \* "open", "late" past the work deadline, "over" past deadlineAt
  hubAborted,   \* request.lifecycle.signal.aborted
  hubLive,      \* the invoking credential still authorizes its principal
  hubPhase,     \* where the invocation's continuation is
  hubAlive,     \* ExecutionState.alive
  hubOp,        \* operation -> its race in dispatchPromise
  hubHost,      \* operations whose own worker promise has not settled
  hubLimits,    \* ExecutionState.limitErrors: operation -> frozen mayHaveRun
  hubDispatched,\* ExecutionState.dispatched
  hubWake,      \* ExecutionState.wakePending
  hubResult,    \* the executor's result, before it is authorized
  hubAnswer,    \* what hubCall is about to answer, or answered
  \* history
  hubStarted,   \* operations handed to the existing dispatcher
  hubSpoiled    \* "revoked" or "gone" before the program had ended, and still

hubVars == <<hubTime, hubAborted, hubLive, hubPhase, hubAlive, hubOp, hubHost,
             hubLimits, hubDispatched, hubWake, hubResult, hubAnswer,
             hubStarted, hubSpoiled>>
hubGuestVars == <<hubOp, hubHost, hubLimits, hubDispatched, hubStarted>>
hubWorldVars == <<hubTime, hubAborted, hubLive, hubSpoiled>>

(* flying: the race is undecided; settling: the deferred is settled and the
   finally callback is still to run; queued: its guest job waits for the pump;
   seen: the guest has observed it; dropped: settled with nobody to tell. *)
HubRaces == {"none", "flying", "settling", "queued", "seen", "dropped"}
HubWorking == {"collecting", "compiling", "loading", "running", "asleep", "woken"}
HubPhases == HubWorking \cup {"publishing", "auditing", "ended"}
HubKinds == {"completed", "type_error", "runtime_error", "limit_exceeded"}
HubNoResult == [kind |-> "none", mayHaveRun |-> FALSE]
HubResult(kind, ran) == [kind |-> kind, mayHaveRun |-> ran]
HubAnswers == {"none", "result", "catalog", "revoked", "aborted", "failed"}

HubTypeOK ==
  /\ hubTime \in {"open", "late", "over"}
  /\ {hubAborted, hubLive, hubAlive, hubWake} \subseteq BOOLEAN
  /\ hubSpoiled \subseteq {"gone", "revoked"}
  /\ hubPhase \in HubPhases
  /\ hubOp \in [HubOps -> HubRaces]
  /\ hubHost \subseteq HubOps /\ hubStarted \subseteq HubOps
  /\ hubLimits \in [HubOps -> {"none", "ran", "idle"}]
  /\ hubDispatched \in Nat
  /\ hubResult = HubNoResult \/ hubResult \in [kind : HubKinds, mayHaveRun : BOOLEAN]
  /\ hubAnswer \in HubAnswers

HubInit ==
  /\ hubTime = "open" /\ hubAborted = FALSE /\ hubLive = TRUE
  /\ hubPhase = "collecting"
  /\ hubAlive = FALSE
  /\ hubOp = [o \in HubOps |-> "none"]
  /\ hubHost = {} /\ hubStarted = {}
  /\ hubLimits = [o \in HubOps |-> "none"]
  /\ hubDispatched = 0
  /\ hubWake = FALSE
  /\ hubResult = HubNoResult
  /\ hubAnswer = "none"
  /\ hubSpoiled = {}

HubFlying == {o \in HubOps : hubOp[o] \in {"flying", "settling"}}
HubJobs == {o \in HubOps : hubOp[o] = "queued"}

-----------------------------------------------------------------------------
(* Ending the program *)

(* The finally clause of executeProgram: the runtime is disposed, no deferred
   of it can be settled any more, and the result waits for authorization. *)
HubDisposed(kind, ran) ==
  /\ hubAlive' = FALSE
  /\ hubResult' = HubResult(kind, ran)
  /\ hubPhase' = "publishing"
  /\ hubOp' = [o \in HubOps |->
       IF hubOp[o] \in {"settling", "queued"} THEN "dropped" ELSE hubOp[o]]
  /\ UNCHANGED <<hubHost, hubLimits, hubDispatched, hubWake, hubAnswer, hubStarted>>

(* A disconnect leaves the executor as HubExecutionAbortedError: no result,
   and no authorization either. *)
HubDisposedAborted ==
  /\ hubAlive' = FALSE
  /\ hubAnswer' = "aborted"
  /\ hubPhase' = "auditing"
  /\ hubOp' = [o \in HubOps |->
       IF hubOp[o] \in {"settling", "queued"} THEN "dropped" ELSE hubOp[o]]
  /\ UNCHANGED <<hubHost, hubLimits, hubDispatched, hubWake, hubResult, hubStarted>>

(* Fault: a program is taken to have run something only while it still does. *)
HubMayHaveRun_InFlight == HubFlying # {}

HubMayHaveRun == hubDispatched > 0

-----------------------------------------------------------------------------
(* Before the guest runs *)

(* hubCall collects the caller's catalog; one that overflows is refused before
   the executor, and a failure is a refusal of its own. *)
HubCollect ==
  /\ hubPhase = "collecting"
  /\ \/ hubPhase' = "compiling" /\ UNCHANGED hubAnswer
     \/ hubPhase' = "auditing" /\ hubAnswer' \in {"catalog", "failed"}
  /\ UNCHANGED <<hubAlive, hubGuestVars, hubWake, hubResult, hubWorldVars>>

HubCompile ==
  /\ hubPhase = "compiling"
  /\ \/ hubPhase' = "loading" /\ UNCHANGED hubResult
     \/ hubPhase' = "publishing" /\ hubResult' = HubResult("type_error", FALSE)
  /\ UNCHANGED <<hubAlive, hubGuestVars, hubWake, hubAnswer, hubWorldVars>>

(* loadModule() raced with the work deadline and the disconnect. *)
HubLoad ==
  /\ hubPhase = "loading"
  /\ \/ /\ ~hubAborted /\ hubTime = "open"
        /\ \/ hubPhase' = "running" /\ hubAlive' = TRUE /\ UNCHANGED hubResult
           \/ /\ hubPhase' = "publishing"
              /\ hubResult' = HubResult("runtime_error", FALSE)
              /\ UNCHANGED hubAlive
        /\ UNCHANGED hubAnswer
     \/ /\ hubAborted
        /\ hubPhase' = "auditing" /\ hubAnswer' = "aborted"
        /\ UNCHANGED <<hubAlive, hubResult>>
     \/ /\ ~hubAborted /\ hubTime # "open"
        /\ hubPhase' = "publishing"
        /\ hubResult' = HubResult("limit_exceeded", FALSE)
        /\ UNCHANGED <<hubAlive, hubAnswer>>
  /\ UNCHANGED <<hubGuestVars, hubWake, hubWorldVars>>

-----------------------------------------------------------------------------
(* Guest code *)

(* A refusal settles its deferred at once: a job is queued and the pump woken. *)
HubRefused(o) ==
  /\ hubOp' = [hubOp EXCEPT ![o] = "queued"]
  /\ hubWake' = TRUE
  /\ UNCHANGED <<hubHost, hubDispatched, hubStarted>>

(* dispatchPromise(): liveness, then the two counters, then the dispatch. *)
HubGuestCalls(o) ==
  /\ hubPhase = "running" /\ hubOp[o] = "none"
  /\ \/ /\ hubAborted \/ hubTime # "open"
        /\ HubRefused(o)
        /\ UNCHANGED hubLimits
     \/ /\ ~hubAborted /\ hubTime = "open"
        /\ \/ Cardinality(HubFlying) >= HubConcurrency
           \/ hubDispatched >= HubOperations
        /\ HubRefused(o)
        /\ hubLimits' = [hubLimits EXCEPT ![o] =
                           IF HubMayHaveRun THEN "ran" ELSE "idle"]
     \/ /\ ~hubAborted /\ hubTime = "open"
        /\ Cardinality(HubFlying) < HubConcurrency
        /\ hubDispatched < HubOperations
        /\ hubOp' = [hubOp EXCEPT ![o] = "flying"]
        /\ hubHost' = hubHost \cup {o}
        /\ hubStarted' = hubStarted \cup {o}
        /\ hubDispatched' = hubDispatched + 1
        /\ UNCHANGED <<hubLimits, hubWake>>
  /\ UNCHANGED <<hubPhase, hubAlive, hubResult, hubAnswer, hubWorldVars>>

(* The program's promise is fulfilled, or its value is not bounded JSON. *)
HubGuestReturns ==
  /\ hubPhase = "running"
  /\ \/ HubDisposed("completed", HubMayHaveRun)
     \/ HubDisposed("runtime_error", HubMayHaveRun)
  /\ UNCHANGED hubWorldVars

(* The program rejects.  An escaping limit error is known by its identity and
   keeps the verdict frozen when it was made; next the host's own reasons. *)
HubGuestThrows ==
  /\ hubPhase = "running"
  /\ \/ \E o \in HubOps : /\ hubLimits[o] # "none" /\ hubOp[o] = "seen"
                          /\ HubDisposed("limit_exceeded", hubLimits[o] = "ran")
     \/ hubAborted /\ HubDisposedAborted
     \/ /\ ~hubAborted
        /\ HubDisposed(IF hubTime = "open" THEN "runtime_error"
                                           ELSE "limit_exceeded", HubMayHaveRun)
  /\ UNCHANGED hubWorldVars

(* Memory, stack, and the interrupt handler: a guest that never yields is
   stopped by the callback budget, the deadline or the disconnect. *)
HubGuestStopped ==
  /\ hubPhase = "running"
  /\ \/ hubAborted /\ HubDisposedAborted
     \/ ~hubAborted /\ HubDisposed("limit_exceeded", HubMayHaveRun)
  /\ UNCHANGED hubWorldVars

(* executePendingJobs(): the continuation of one settled promise runs. *)
HubGuestResumes(o) ==
  /\ hubPhase = "running" /\ hubOp[o] = "queued"
  /\ hubOp' = [hubOp EXCEPT ![o] = "seen"]
  /\ UNCHANGED <<hubHost, hubLimits, hubDispatched, hubStarted, hubPhase,
                 hubAlive, hubWake, hubResult, hubAnswer, hubWorldVars>>

-----------------------------------------------------------------------------
(* The pump: settleProgram, waitForWake and wake *)

(* No job is left and the program is pending: sleep, or spend a wake that was
   recorded meanwhile and go round once more. *)
HubSleep ==
  /\ hubPhase = "running" /\ HubJobs = {}
  /\ hubPhase' = IF hubWake THEN "woken" ELSE "asleep"
  /\ hubWake' = FALSE
  /\ UNCHANGED <<hubGuestVars, hubAlive, hubResult, hubAnswer, hubWorldVars>>

(* The loop's head: the disconnect, then the deadline, then the jobs. *)
HubPump ==
  /\ hubPhase = "woken"
  /\ \/ hubAborted /\ HubDisposedAborted
     \/ /\ ~hubAborted /\ hubTime # "open"
        /\ HubDisposed("limit_exceeded", HubMayHaveRun)
     \/ /\ ~hubAborted /\ hubTime = "open"
        /\ hubPhase' = "running"
        /\ UNCHANGED <<hubGuestVars, hubAlive, hubWake, hubResult, hubAnswer>>
  /\ UNCHANGED hubWorldVars

(* Fault: the pump sleeps on the wake alone. *)
HubSleepEnds_NoTimer ==
  /\ hubPhase = "asleep" /\ hubAborted
  /\ HubDisposedAborted
  /\ UNCHANGED hubWorldVars

(* withinExecution around the sleep: its timer or its abort listener fires. *)
HubSleepEnds ==
  /\ hubPhase = "asleep"
  /\ \/ hubAborted /\ HubDisposedAborted
     \/ ~hubAborted /\ hubTime # "open" /\ HubDisposed("limit_exceeded", HubMayHaveRun)
  /\ UNCHANGED hubWorldVars

(* Fault: the callbacks of an operation never wake the pump. *)
HubWakes_Never == UNCHANGED <<hubPhase, hubWake>>

(* wake(): resolve the sleeping pump, or record the wake. *)
HubWakes ==
  IF hubPhase = "asleep" THEN hubPhase' = "woken" /\ UNCHANGED hubWake
                         ELSE hubWake' = TRUE /\ UNCHANGED hubPhase

-----------------------------------------------------------------------------
(* Host operations: the promise of the dispatcher and the race around it.  A
   callback runs only while the worker's thread is free. *)

HubThreadFree == hubPhase \notin {"compiling", "running"}

(* The dispatcher's promise settles; the race may have been decided before. *)
HubHostAnswers(o) ==
  /\ HubThreadFree /\ o \in hubHost
  /\ hubHost' = hubHost \ {o}
  /\ UNCHANGED <<hubOp, hubLimits, hubDispatched, hubStarted, hubPhase,
                 hubAlive, hubWake, hubResult, hubAnswer, hubWorldVars>>

(* Fault: the callback does not ask whether its runtime still exists. *)
HubRaceEnds_AlwaysSettles(o) ==
  /\ HubThreadFree /\ hubOp[o] = "flying"
  /\ hubOp' = [hubOp EXCEPT ![o] = "settling"]
  /\ UNCHANGED <<hubHost, hubLimits, hubDispatched, hubStarted, hubPhase,
                 hubAlive, hubWake, hubResult, hubAnswer, hubWorldVars>>

(* The race is decided by the answer, the operation's own deadline (at most
   the work deadline) or the disconnect.  The then/catch callback settles the
   deferred of a live runtime; an oversized answer is a limit of its own. *)
HubRaceEnds(o) ==
  /\ HubThreadFree /\ hubOp[o] = "flying"
  /\ hubOp' = [hubOp EXCEPT ![o] = IF hubAlive THEN "settling" ELSE "dropped"]
  /\ \/ UNCHANGED hubLimits
     \/ /\ hubAlive /\ o \notin hubHost
        /\ hubLimits' = [hubLimits EXCEPT ![o] = "ran"]
  /\ UNCHANGED <<hubHost, hubDispatched, hubStarted, hubPhase, hubAlive,
                 hubWake, hubResult, hubAnswer, hubWorldVars>>

(* The finally callback gives the slot back and wakes the pump. *)
HubSlotFreed(o) ==
  /\ HubThreadFree /\ hubOp[o] = "settling"
  /\ hubOp' = [hubOp EXCEPT ![o] = "queued"]
  /\ HubWakes
  /\ UNCHANGED <<hubHost, hubLimits, hubDispatched, hubStarted, hubAlive,
                 hubResult, hubAnswer, hubWorldVars>>

-----------------------------------------------------------------------------
(* Publication *)

(* Fault: a program that failed publishes its failure without asking. *)
HubAuthorize_OnlySuccess ==
  /\ hubPhase = "publishing"
  /\ hubPhase' = "auditing"
  /\ hubAnswer' = IF hubAborted THEN "aborted"
                  ELSE IF hubLive \/ hubResult.kind # "completed" THEN "result"
                  ELSE "revoked"
  /\ UNCHANGED <<hubGuestVars, hubAlive, hubWake, hubResult, hubWorldVars>>

(* authorizePublication() runs in the reserved tail of the deadline: whatever
   the program returned, only a credential that is live now publishes it; a
   query that fails or misses the deadline refuses it as revoked. *)
HubAuthorize ==
  /\ hubPhase = "publishing"
  /\ hubPhase' = "auditing"
  /\ \/ hubAborted /\ hubAnswer' = "aborted"
     \/ ~hubAborted /\ hubAnswer' = "revoked"
     \/ ~hubAborted /\ hubTime # "over" /\ hubLive /\ hubAnswer' = "result"
  /\ UNCHANGED <<hubGuestVars, hubAlive, hubWake, hubResult, hubWorldVars>>

(* The one outer audit row is awaited; when it cannot be written the call
   fails, whatever the program returned. *)
HubAudit ==
  /\ hubPhase = "auditing"
  /\ hubPhase' = "ended"
  /\ hubAnswer' \in {hubAnswer, "failed"}
  /\ UNCHANGED <<hubGuestVars, hubAlive, hubWake, hubResult, hubWorldVars>>

-----------------------------------------------------------------------------
(* The world *)

HubNoWork == UNCHANGED <<hubGuestVars, hubAlive, hubPhase, hubWake, hubResult,
                         hubAnswer>>

HubClock ==
  /\ hubTime # "over" /\ hubPhase # "ended"
  /\ hubTime' = IF hubTime = "open" THEN "late" ELSE "over"
  /\ UNCHANGED <<hubAborted, hubLive, hubSpoiled>> /\ HubNoWork

HubDisconnect ==
  /\ ~hubAborted /\ hubPhase # "ended"
  /\ hubAborted' = TRUE
  /\ hubSpoiled' = IF hubPhase \in HubWorking THEN hubSpoiled \cup {"gone"} ELSE hubSpoiled
  /\ UNCHANGED <<hubTime, hubLive>> /\ HubNoWork

HubRevoke ==
  /\ hubLive /\ hubPhase # "ended"
  /\ hubLive' = FALSE
  /\ hubSpoiled' = IF hubPhase \in HubWorking THEN hubSpoiled \cup {"revoked"} ELSE hubSpoiled
  /\ UNCHANGED <<hubTime, hubAborted>> /\ HubNoWork

(* A revoked OAuth connection is consented again for the same agent: the
   reference that was captured is good again. *)
HubRestored ==
  /\ ~hubLive /\ hubPhase # "ended"
  /\ hubLive' = TRUE
  /\ hubSpoiled' = hubSpoiled \ {"revoked"}
  /\ UNCHANGED <<hubTime, hubAborted>> /\ HubNoWork

HubDone ==
  /\ hubPhase = "ended" /\ hubHost = {}
  /\ \A o \in HubOps : hubOp[o] # "flying"
  /\ UNCHANGED hubVars

HubGuestStep ==
  HubGuestReturns \/ HubGuestThrows \/ HubGuestStopped \/ HubSleep
    \/ \E o \in HubOps : HubGuestCalls(o) \/ HubGuestResumes(o)

HubRunsOn ==
  HubCollect \/ HubCompile \/ HubLoad \/ HubPump \/ HubSleepEnds
    \/ HubAuthorize \/ HubAudit

HubNext ==
  \/ HubRunsOn \/ HubGuestStep
  \/ \E o \in HubOps : HubHostAnswers(o) \/ HubRaceEnds(o) \/ HubSlotFreed(o)
  \/ HubClock \/ HubDisconnect \/ HubRevoke \/ HubRestored
  \/ HubDone

HubSpec == HubInit /\ [][HubNext]_hubVars

(* Queries answer or fail, time passes and the interrupt handler is called;
   guest code is trusted with nothing, and host operations may never settle. *)
HubFairSpec ==
  HubSpec /\ WF_hubVars(HubRunsOn) /\ WF_hubVars(HubGuestStopped) /\ WF_hubVars(HubClock)

-----------------------------------------------------------------------------
(* Properties *)

(* What a caller is told about side effects is the truth: a published result
   that says nothing can have run was preceded by no dispatched operation,
   even when the error that escaped was made before the operation. *)
HubHonest ==
  (hubAnswer = "result" /\ hubResult.kind # "completed" /\ ~hubResult.mayHaveRun)
    => hubStarted = {}

(* Nothing of a program, neither its value nor its diagnostics, leaves for a
   caller whose connection was gone before the program ended, or whose
   credential was revoked before it ended and at no moment live since. *)
HubPublishesToLive == hubAnswer = "result" => hubSpoiled = {}

(* The pump never sleeps on work it could do: while it is asleep every settled
   promise still has the callback coming that wakes it.  And a late answer
   never re-enters a disposed runtime: once the program has ended no promise
   of it is settled and no continuation queued (settleProgram, wake, the
   callbacks of dispatchPromise). *)
HubSleepsSound == hubPhase = "asleep" => HubJobs = {} /\ ~hubWake
HubNeverReenters ==
  hubPhase \in {"publishing", "auditing", "ended"} =>
    \A o \in HubOps : hubOp[o] \notin {"settling", "queued"}
HubRuntimeSound == HubSleepsSound /\ HubNeverReenters

(* Every execution that began is answered, whatever the guest does and however
   long the operations it started take (executeProgram, withinExecution). *)
HubEnds == hubPhase # "collecting" ~> hubPhase = "ended"
=============================================================================
