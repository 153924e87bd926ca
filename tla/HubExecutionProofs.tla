------------------------- MODULE HubExecutionProofs --------------------------
(***************************************************************************)
(* Proofs about HubExecution, for every set of operations, every bound on  *)
(* their number and every bound on those in flight.                        *)
(***************************************************************************)
EXTENDS HubExecution, FiniteSetTheorems, TLAPS

HubBefore == {"collecting", "compiling", "loading"}
HubGuest == {"running", "asleep", "woken"}
HubAfter == {"publishing", "auditing", "ended"}

(* Nothing ran before the guest did, and what ran was counted. *)
HubCounted ==
  /\ hubPhase \in HubBefore => hubDispatched = 0 /\ \A o \in HubOps : hubOp[o] = "none"
  /\ hubDispatched = 0 =>
       hubStarted = {} /\ \A o \in HubOps : hubOp[o] \notin {"flying", "settling"}
  /\ \A o \in HubOps : hubLimits[o] # "idle"

(* A result is there from the program's end on, and its verdict is true. *)
HubJudged ==
  /\ hubPhase \in HubWorking => hubResult = HubNoResult
  /\ hubPhase = "publishing" => hubResult # HubNoResult
  /\ hubAnswer = "result" => hubResult # HubNoResult
  /\ hubResult # HubNoResult /\ ~hubResult.mayHaveRun => hubStarted = {}

(* An answer is there from the authorization on, and what spoils one is still
   so when it is given. *)
HubAsked ==
  /\ hubAnswer # "none" => hubPhase \in {"auditing", "ended"}
  /\ "gone" \in hubSpoiled => hubAborted
  /\ "revoked" \in hubSpoiled => ~hubLive

HubLifetime == hubAlive <=> hubPhase \in HubGuest

HubInv ==
  /\ HubTypeOK /\ HubCounted /\ HubJudged /\ HubAsked /\ HubLifetime
  /\ HubPublishesToLive /\ HubRuntimeSound

LEMMA HubInvHonest == HubInv => HubHonest
  BY DEF HubInv, HubJudged, HubHonest

LEMMA HubInitInv == HubInit => HubInv
<1> SUFFICES ASSUME HubInit PROVE HubInv
  OBVIOUS
<1> USE DEF HubInit
<1>1. HubTypeOK
  BY DEF HubTypeOK, HubPhases, HubWorking, HubRaces, HubAnswers
<1>2. HubCounted
  BY DEF HubCounted
<1>3. HubJudged /\ HubAsked /\ HubLifetime /\ HubPublishesToLive
  BY DEF HubJudged, HubAsked, HubLifetime, HubPublishesToLive, HubGuest
<1>4. HubRuntimeSound
  BY DEF HubRuntimeSound, HubSleepsSound, HubNeverReenters
<1> QED
  BY <1>1, <1>2, <1>3, <1>4 DEF HubInv

(* Some operation in flight was dispatched. *)
LEMMA HubFlyingCounted ==
  HubInv /\ Cardinality(HubFlying) >= HubConcurrency => hubDispatched > 0
<1> SUFFICES ASSUME HubInv, Cardinality(HubFlying) >= HubConcurrency
             PROVE  hubDispatched > 0
  OBVIOUS
<1>1. hubDispatched = 0 => HubFlying = {}
  BY DEF HubInv, HubCounted, HubFlying
<1>2. HubFlying # {}
  BY FS_EmptySet, HubAssumption
<1>3. hubDispatched \in Nat
  BY DEF HubInv, HubTypeOK
<1> QED
  BY <1>1, <1>2, <1>3

(* The end of a program keeps the invariant when its verdict is true. *)
LEMMA HubDisposedInv ==
  ASSUME HubInv, hubPhase \in HubGuest, UNCHANGED hubWorldVars,
         \/ HubDisposedAborted
         \/ \E kind \in HubKinds, ran \in BOOLEAN :
              HubDisposed(kind, ran) /\ (~ran => hubStarted = {})
  PROVE  HubInv'
<1> USE DEF HubInv, HubGuest, HubBefore, HubWorking, HubPhases
<1>1. /\ hubAlive' = FALSE /\ hubPhase' \in {"publishing", "auditing"}
      /\ hubOp' = [o \in HubOps |->
           IF hubOp[o] \in {"settling", "queued"} THEN "dropped" ELSE hubOp[o]]
      /\ UNCHANGED <<hubHost, hubLimits, hubDispatched, hubWake, hubStarted>>
      /\ UNCHANGED <<hubTime, hubAborted, hubLive, hubSpoiled>>
  BY DEF HubDisposed, HubDisposedAborted, hubWorldVars
<1>2. \A o \in HubOps : /\ hubOp'[o] \in HubRaces \ {"settling", "queued"}
                        /\ hubOp'[o] = "flying" => hubOp[o] = "flying"
  BY <1>1 DEF HubTypeOK, HubRaces
<1>3. hubResult = HubNoResult /\ hubAnswer = "none"
  BY DEF HubJudged, HubAsked
<1>4. \/ hubPhase' = "auditing" /\ hubAnswer' = "aborted" /\ hubResult' = HubNoResult
      \/ /\ hubPhase' = "publishing" /\ hubAnswer' = "none"
         /\ \E kind \in HubKinds, ran \in BOOLEAN :
              hubResult' = [kind |-> kind, mayHaveRun |-> ran] /\ (~ran => hubStarted = {})
  BY <1>3 DEF HubDisposed, HubDisposedAborted, HubResult
<1>5. HubTypeOK'
  <2>1. hubOp' \in [HubOps -> HubRaces]
    BY <1>1, <1>2
  <2>2. hubResult' = HubNoResult \/ hubResult' \in [kind : HubKinds, mayHaveRun : BOOLEAN]
    BY <1>4
  <2> QED
    BY <1>1, <1>4, <2>1, <2>2 DEF HubTypeOK, HubAnswers
<1>6. HubCounted'
  BY <1>1, <1>2 DEF HubCounted
<1>7. HubJudged'
  <2>1. \A kind \in HubKinds, ran \in BOOLEAN :
          [kind |-> kind, mayHaveRun |-> ran] # HubNoResult
    BY DEF HubKinds, HubNoResult
  <2> QED
    BY <1>1, <1>4, <2>1 DEF HubJudged
<1>8. HubAsked' /\ HubLifetime' /\ HubPublishesToLive'
  BY <1>1, <1>4 DEF HubAsked, HubLifetime, HubPublishesToLive
<1>9. HubRuntimeSound'
  BY <1>1, <1>2 DEF HubRuntimeSound, HubSleepsSound, HubNeverReenters
<1> QED
  BY <1>5, <1>6, <1>7, <1>8, <1>9

(* Steps before the guest runs. *)
LEMMA HubBeforeInv == HubInv /\ (HubCollect \/ HubCompile \/ HubLoad) => HubInv'
<1> SUFFICES ASSUME HubInv, HubCollect \/ HubCompile \/ HubLoad PROVE HubInv'
  OBVIOUS
<1> USE DEF HubInv, HubBefore, HubGuest, HubWorking, HubPhases
<1>1. /\ hubPhase \in HubBefore /\ ~hubAlive
      /\ UNCHANGED <<hubOp, hubHost, hubLimits, hubDispatched, hubStarted, hubWake>>
      /\ UNCHANGED <<hubTime, hubAborted, hubLive, hubSpoiled>>
  BY DEF HubCollect, HubCompile, HubLoad, hubGuestVars, hubWorldVars, HubLifetime
<1>2. /\ hubResult = HubNoResult /\ hubAnswer = "none" /\ hubStarted = {} /\ hubDispatched = 0
      /\ \A o \in HubOps : hubOp[o] = "none"
  BY <1>1 DEF HubJudged, HubAsked, HubCounted
<1>3. \/ /\ hubPhase' \in {"compiling", "loading"}
         /\ UNCHANGED <<hubResult, hubAnswer, hubAlive>>
      \/ hubPhase' = "running" /\ hubAlive' = TRUE /\ UNCHANGED <<hubResult, hubAnswer>>
      \/ /\ hubPhase' = "auditing" /\ hubAnswer' \in {"catalog", "failed", "aborted"}
         /\ UNCHANGED <<hubResult, hubAlive>>
      \/ /\ hubPhase' = "publishing" /\ UNCHANGED <<hubAnswer, hubAlive>>
         /\ \E kind \in HubKinds : hubResult' = [kind |-> kind, mayHaveRun |-> FALSE]
  BY DEF HubCollect, HubCompile, HubLoad, HubResult, HubKinds
<1>4. \A kind \in HubKinds : /\ [kind |-> kind, mayHaveRun |-> FALSE] # HubNoResult
                             /\ [kind |-> kind, mayHaveRun |-> FALSE].mayHaveRun = FALSE
  BY DEF HubKinds, HubNoResult
<1>5. HubTypeOK'
  <2>1. hubResult' = HubNoResult \/ hubResult' \in [kind : HubKinds, mayHaveRun : BOOLEAN]
    <3> DEFINE verdict(kind) == [kind |-> kind, mayHaveRun |-> FALSE]
    <3>1. \A kind \in HubKinds : verdict(kind) \in [kind : HubKinds, mayHaveRun : BOOLEAN]
      OBVIOUS
    <3>2. hubResult' = hubResult \/ \E kind \in HubKinds : hubResult' = verdict(kind)
      BY <1>3
    <3> HIDE DEF verdict
    <3> QED
      BY <1>2, <3>1, <3>2
  <2>2. hubPhase' \in HubPhases /\ hubAnswer' \in HubAnswers
    BY <1>2, <1>3 DEF HubAnswers
  <2>3. hubAlive' \in BOOLEAN
    BY <1>3 DEF HubTypeOK
  <2> HIDE DEF HubPhases
  <2> QED
    BY <1>1, <2>1, <2>2, <2>3 DEF HubTypeOK
<1>6. HubCounted'
  BY <1>1, <1>2 DEF HubCounted
<1>7. HubJudged' /\ HubAsked' /\ HubLifetime' /\ HubPublishesToLive'
  BY <1>1, <1>2, <1>3, <1>4 DEF HubJudged, HubAsked, HubLifetime, HubPublishesToLive
<1>8. HubRuntimeSound'
  BY <1>1, <1>2, <1>3 DEF HubRuntimeSound, HubSleepsSound, HubNeverReenters
<1> QED
  BY <1>5, <1>6, <1>7, <1>8

(* The guest asks for an operation, or observes the end of one. *)
LEMMA HubGuestAsksInv ==
  ASSUME HubInv, NEW o \in HubOps, HubGuestCalls(o) \/ HubGuestResumes(o)
  PROVE  HubInv'
<1> USE DEF HubInv, HubBefore, HubGuest, HubWorking, HubPhases
<1>1. /\ hubPhase = "running" /\ hubOp[o] \in {"none", "queued"}
      /\ UNCHANGED <<hubPhase, hubAlive, hubResult, hubAnswer>>
      /\ UNCHANGED <<hubTime, hubAborted, hubLive, hubSpoiled>>
  BY DEF HubGuestCalls, HubGuestResumes, hubWorldVars
<1>2. \/ /\ hubOp' = [hubOp EXCEPT ![o] = "queued"]
         /\ hubWake' = TRUE
         /\ UNCHANGED <<hubHost, hubDispatched, hubStarted>>
         /\ hubLimits' = hubLimits \/ hubLimits' = [hubLimits EXCEPT ![o] = "ran"]
      \/ /\ hubOp' = [hubOp EXCEPT ![o] = "flying"]
         /\ hubHost' = hubHost \cup {o} /\ hubStarted' = hubStarted \cup {o}
         /\ hubDispatched' = hubDispatched + 1
         /\ UNCHANGED <<hubLimits, hubWake>>
      \/ /\ hubOp' = [hubOp EXCEPT ![o] = "seen"]
         /\ UNCHANGED <<hubHost, hubLimits, hubDispatched, hubStarted, hubWake>>
  <2>1. hubDispatched >= HubOperations => hubDispatched > 0
    BY HubAssumption DEF HubTypeOK
  <2>2. Cardinality(HubFlying) >= HubConcurrency => hubDispatched > 0
    BY HubFlyingCounted
  <2> QED
    BY <2>1, <2>2 DEF HubGuestCalls, HubGuestResumes, HubRefused, HubMayHaveRun
<1>3. HubTypeOK'
  <2>1. hubOp' \in [HubOps -> HubRaces]
    BY <1>2 DEF HubTypeOK, HubRaces
  <2>2. hubLimits' \in [HubOps -> {"none", "ran", "idle"}]
    BY <1>2 DEF HubTypeOK
  <2>3. hubHost' \subseteq HubOps /\ hubStarted' \subseteq HubOps
    BY <1>2 DEF HubTypeOK
  <2>4. hubDispatched' \in Nat
    BY <1>2 DEF HubTypeOK
  <2>5. hubWake' \in BOOLEAN
    BY <1>2 DEF HubTypeOK
  <2> QED
    BY <1>1, <2>1, <2>2, <2>3, <2>4, <2>5 DEF HubTypeOK
<1>4. HubCounted'
  <2>1. hubDispatched' = 0 => hubDispatched = 0 /\ UNCHANGED hubStarted
    BY <1>2 DEF HubTypeOK
  <2>2. hubDispatched' = 0 => \A q \in HubOps : hubOp'[q] \notin {"flying", "settling"}
    BY <1>2, <2>1 DEF HubTypeOK, HubCounted
  <2>3. \A q \in HubOps : hubLimits'[q] # "idle"
    BY <1>2 DEF HubTypeOK, HubCounted
  <2> QED
    BY <1>1, <2>1, <2>2, <2>3 DEF HubCounted
<1>5. HubJudged' /\ HubAsked' /\ HubLifetime' /\ HubPublishesToLive' /\ HubRuntimeSound'
  BY <1>1 DEF HubJudged, HubAsked, HubLifetime, HubPublishesToLive, HubRuntimeSound,
              HubSleepsSound, HubNeverReenters
<1> QED
  BY <1>3, <1>4, <1>5

(* The program ends by itself or is stopped. *)
LEMMA HubProgramEndsInv ==
  HubInv /\ (HubGuestReturns \/ HubGuestThrows \/ HubGuestStopped) => HubInv'
<1> SUFFICES ASSUME HubInv, HubGuestReturns \/ HubGuestThrows \/ HubGuestStopped
             PROVE  HubInv'
  OBVIOUS
<1>1. hubPhase \in HubGuest /\ UNCHANGED hubWorldVars
  BY DEF HubGuestReturns, HubGuestThrows, HubGuestStopped, HubGuest
<1>2. HubMayHaveRun \in BOOLEAN /\ (~HubMayHaveRun => hubStarted = {})
  BY DEF HubMayHaveRun, HubInv, HubCounted, HubTypeOK
<1>3. \A o \in HubOps : hubLimits[o] # "none" => hubLimits[o] = "ran"
  BY DEF HubInv, HubCounted, HubTypeOK
<1>4. \/ HubDisposedAborted
      \/ \E kind \in HubKinds, ran \in BOOLEAN :
           HubDisposed(kind, ran) /\ (~ran => hubStarted = {})
  <2>1. CASE HubGuestReturns
    BY <1>2, <2>1 DEF HubGuestReturns, HubKinds
  <2>2. CASE HubGuestThrows
    <3>1. CASE \E o \in HubOps : /\ hubLimits[o] # "none" /\ hubOp[o] = "seen"
                                 /\ HubDisposed("limit_exceeded", hubLimits[o] = "ran")
      <4>1. PICK o \in HubOps : /\ hubLimits[o] = "ran"
                                /\ HubDisposed("limit_exceeded", hubLimits[o] = "ran")
        BY <1>3, <3>1
      <4>2. (hubLimits[o] = "ran") \in BOOLEAN /\ (hubLimits[o] = "ran")
        BY <4>1
      <4>3. "limit_exceeded" \in HubKinds
        BY DEF HubKinds
      <4> QED
        BY <4>1, <4>2, <4>3
    <3>2. CASE hubAborted /\ HubDisposedAborted
      BY <3>2
    <3>3. CASE HubDisposed(IF hubTime = "open" THEN "runtime_error"
                                               ELSE "limit_exceeded", HubMayHaveRun)
      <4>1. (IF hubTime = "open" THEN "runtime_error" ELSE "limit_exceeded") \in HubKinds
        BY DEF HubKinds
      <4> QED
        BY <1>2, <3>3, <4>1
    <3> QED
      BY <2>2, <3>1, <3>2, <3>3 DEF HubGuestThrows
  <2>3. CASE HubGuestStopped
    BY <1>2, <2>3 DEF HubGuestStopped, HubKinds
  <2> QED
    BY <2>1, <2>2, <2>3
<1> QED
  BY <1>1, <1>4, HubDisposedInv

(* The pump sleeps, wakes and goes round. *)
LEMMA HubPumpInv == HubInv /\ (HubSleep \/ HubPump \/ HubSleepEnds) => HubInv'
<1> SUFFICES ASSUME HubInv, HubSleep \/ HubPump \/ HubSleepEnds PROVE HubInv'
  OBVIOUS
<1>1. HubMayHaveRun \in BOOLEAN /\ (~HubMayHaveRun => hubStarted = {})
  BY DEF HubMayHaveRun, HubInv, HubCounted, HubTypeOK
<1>2. "limit_exceeded" \in HubKinds
  BY DEF HubKinds
<1>3. CASE /\ hubPhase \in HubGuest /\ UNCHANGED hubWorldVars
           /\ HubDisposedAborted \/ HubDisposed("limit_exceeded", HubMayHaveRun)
  BY <1>1, <1>2, <1>3, HubDisposedInv
<1>4. CASE hubPhase' = "running" /\ HubPump
  <2>1. /\ hubPhase = "woken"
        /\ UNCHANGED <<hubOp, hubHost, hubLimits, hubDispatched, hubStarted>>
        /\ UNCHANGED <<hubAlive, hubWake, hubResult, hubAnswer>>
        /\ UNCHANGED <<hubTime, hubAborted, hubLive, hubSpoiled>>
    BY <1>4 DEF HubPump, HubDisposed, HubDisposedAborted, hubGuestVars, hubWorldVars
  <2>2. HubTypeOK'
    BY <1>4, <2>1 DEF HubInv, HubTypeOK, HubPhases, HubWorking
  <2>3. HubCounted' /\ HubJudged' /\ HubAsked' /\ HubLifetime'
    BY <1>4, <2>1 DEF HubInv, HubCounted, HubJudged, HubAsked, HubLifetime, HubBefore,
                      HubGuest, HubWorking
  <2>4. HubPublishesToLive' /\ HubRuntimeSound'
    BY <1>4, <2>1 DEF HubInv, HubPublishesToLive, HubRuntimeSound, HubSleepsSound,
                      HubNeverReenters
  <2> QED
    BY <2>2, <2>3, <2>4 DEF HubInv
<1>5. CASE HubSleep
  BY <1>5 DEF HubSleep, HubInv, HubTypeOK, HubCounted, HubJudged, HubAsked, HubLifetime,
              HubPublishesToLive, HubRuntimeSound, HubSleepsSound, HubNeverReenters,
              HubBefore, HubGuest, HubWorking, HubPhases, hubGuestVars, hubWorldVars,
              HubJobs
<1> QED
  BY <1>3, <1>4, <1>5 DEF HubPump, HubSleepEnds, HubGuest

(* The callbacks of an operation. *)
LEMMA HubCallbackInv ==
  ASSUME HubInv, NEW o \in HubOps, HubHostAnswers(o) \/ HubRaceEnds(o) \/ HubSlotFreed(o)
  PROVE  HubInv'
<1> USE DEF HubInv, HubBefore, HubGuest, HubWorking, HubPhases
<1>1. CASE HubHostAnswers(o)
  BY <1>1 DEF HubHostAnswers, HubTypeOK, HubCounted, HubJudged, HubAsked, HubLifetime,
              HubPublishesToLive, HubRuntimeSound, HubSleepsSound, HubNeverReenters,
              hubWorldVars, HubJobs
<1>2. CASE HubRaceEnds(o)
  <2>1. /\ hubOp[o] = "flying"
        /\ hubOp' = [hubOp EXCEPT ![o] = IF hubAlive THEN "settling" ELSE "dropped"]
        /\ hubLimits' = hubLimits \/ hubLimits' = [hubLimits EXCEPT ![o] = "ran"]
        /\ UNCHANGED <<hubHost, hubDispatched, hubStarted, hubPhase, hubAlive, hubWake,
                       hubResult, hubAnswer>>
        /\ UNCHANGED <<hubTime, hubAborted, hubLive, hubSpoiled>>
    BY <1>2 DEF HubRaceEnds, hubWorldVars
  <2>2. HubTypeOK'
    <3>1. hubOp' \in [HubOps -> HubRaces] /\ hubLimits' \in [HubOps -> {"none", "ran", "idle"}]
      BY <2>1 DEF HubTypeOK, HubRaces
    <3> QED
      BY <2>1, <3>1 DEF HubTypeOK
  <2>3. HubCounted'
    BY <2>1 DEF HubTypeOK, HubCounted
  <2>4. HubJudged' /\ HubAsked' /\ HubLifetime' /\ HubPublishesToLive'
    BY <2>1 DEF HubJudged, HubAsked, HubLifetime, HubPublishesToLive
  <2>5. HubRuntimeSound'
    BY <2>1 DEF HubTypeOK, HubLifetime, HubRuntimeSound, HubSleepsSound, HubNeverReenters,
                HubJobs
  <2> QED
    BY <2>2, <2>3, <2>4, <2>5
<1>3. CASE HubSlotFreed(o)
  <2>1. /\ hubOp[o] = "settling"
        /\ hubOp' = [hubOp EXCEPT ![o] = "queued"]
        /\ \/ hubPhase = "asleep" /\ hubPhase' = "woken" /\ UNCHANGED hubWake
           \/ hubPhase # "asleep" /\ hubWake' = TRUE /\ UNCHANGED hubPhase
        /\ UNCHANGED <<hubHost, hubLimits, hubDispatched, hubStarted, hubAlive, hubResult,
                       hubAnswer>>
        /\ UNCHANGED <<hubTime, hubAborted, hubLive, hubSpoiled>>
    BY <1>3 DEF HubSlotFreed, HubWakes, hubWorldVars
  <2>2. hubPhase \in HubGuest
    BY <2>1 DEF HubCounted, HubRuntimeSound, HubNeverReenters, HubTypeOK
  <2>3. HubTypeOK'
    <3>1. hubOp' \in [HubOps -> HubRaces]
      BY <2>1 DEF HubTypeOK, HubRaces
    <3> QED
      BY <2>1, <3>1 DEF HubTypeOK
  <2>4. HubCounted'
    BY <2>1, <2>2 DEF HubTypeOK, HubCounted
  <2>5. HubJudged' /\ HubAsked' /\ HubLifetime' /\ HubPublishesToLive'
    BY <2>1, <2>2 DEF HubJudged, HubAsked, HubLifetime, HubPublishesToLive
  <2>6. HubRuntimeSound'
    BY <2>1, <2>2 DEF HubRuntimeSound, HubSleepsSound, HubNeverReenters
  <2> QED
    BY <2>3, <2>4, <2>5, <2>6
<1> QED
  BY <1>1, <1>2, <1>3

(* Publication. *)
LEMMA HubPublicationInv == HubInv /\ (HubAuthorize \/ HubAudit) => HubInv'
<1> SUFFICES ASSUME HubInv, HubAuthorize \/ HubAudit PROVE HubInv'
  OBVIOUS
<1> USE DEF HubInv, HubBefore, HubGuest, HubWorking, HubPhases
<1>1. /\ UNCHANGED <<hubOp, hubHost, hubLimits, hubDispatched, hubStarted>>
      /\ UNCHANGED <<hubAlive, hubWake, hubResult>>
      /\ UNCHANGED <<hubTime, hubAborted, hubLive, hubSpoiled>>
  BY DEF HubAuthorize, HubAudit, hubGuestVars, hubWorldVars
<1>2. \/ /\ hubPhase = "publishing" /\ hubPhase' = "auditing"
         /\ \/ hubAnswer' \in {"aborted", "revoked"}
            \/ ~hubAborted /\ hubLive /\ hubAnswer' = "result"
      \/ /\ hubPhase = "auditing" /\ hubPhase' = "ended"
         /\ hubAnswer' \in {hubAnswer, "failed"}
  BY DEF HubAuthorize, HubAudit
<1>3. HubTypeOK'
  BY <1>1, <1>2 DEF HubTypeOK, HubAnswers
<1>4. HubCounted' /\ HubJudged' /\ HubAsked' /\ HubLifetime'
  BY <1>1, <1>2 DEF HubCounted, HubJudged, HubAsked, HubLifetime
<1>5. HubPublishesToLive'
  BY <1>1, <1>2 DEF HubTypeOK, HubAsked, HubPublishesToLive
<1>6. HubRuntimeSound'
  BY <1>1, <1>2 DEF HubRuntimeSound, HubSleepsSound, HubNeverReenters
<1> QED
  BY <1>3, <1>4, <1>5, <1>6

(* The clock, the disconnect, the revocation and its repair. *)
LEMMA HubWorldInv ==
  HubInv /\ (HubClock \/ HubDisconnect \/ HubRevoke \/ HubRestored) => HubInv'
<1> SUFFICES ASSUME HubInv, HubClock \/ HubDisconnect \/ HubRevoke \/ HubRestored
             PROVE  HubInv'
  OBVIOUS
<1> USE DEF HubInv, HubBefore, HubGuest, HubWorking, HubPhases
<1>1. /\ UNCHANGED <<hubOp, hubHost, hubLimits, hubDispatched, hubStarted>>
      /\ UNCHANGED <<hubAlive, hubPhase, hubWake, hubResult, hubAnswer>>
  BY DEF HubClock, HubDisconnect, HubRevoke, HubRestored, HubNoWork, hubGuestVars
<1>2. HubTypeOK'
  BY <1>1 DEF HubClock, HubDisconnect, HubRevoke, HubRestored, HubTypeOK
<1>3. HubCounted' /\ HubJudged' /\ HubLifetime'
  BY <1>1 DEF HubCounted, HubJudged, HubLifetime
<1>4. HubAsked'
  BY <1>1 DEF HubClock, HubDisconnect, HubRevoke, HubRestored, HubAsked
<1>5. HubPublishesToLive'
  BY <1>1 DEF HubClock, HubDisconnect, HubRevoke, HubRestored, HubAsked, HubPublishesToLive
<1>6. HubRuntimeSound'
  BY <1>1 DEF HubRuntimeSound, HubSleepsSound, HubNeverReenters, HubJobs
<1> QED
  BY <1>2, <1>3, <1>4, <1>5, <1>6

(* The invariant is inductive. *)
LEMMA HubNextInv == HubInv /\ [HubNext]_hubVars => HubInv'
<1>1. CASE UNCHANGED hubVars
  BY <1>1 DEF hubVars, HubInv, HubTypeOK, HubCounted, HubJudged, HubAsked, HubLifetime,
              HubPublishesToLive, HubRuntimeSound, HubSleepsSound, HubNeverReenters,
              HubJobs
<1> QED
  BY <1>1, HubBeforeInv, HubGuestAsksInv, HubProgramEndsInv, HubPumpInv, HubCallbackInv,
     HubPublicationInv, HubWorldInv
     DEF HubNext, HubRunsOn, HubGuestStep, HubDone

(* The execution's state has its types. *)
THEOREM HubTypeCorrect == HubSpec => []HubTypeOK
<1>1. HubInv => HubTypeOK
  BY DEF HubInv
<1> QED
  BY <1>1, HubInitInv, HubNextInv, PTL DEF HubSpec

(* A published failure that says nothing can have run is the truth. *)
THEOREM HubTellsTheTruth == HubSpec => []HubHonest
  BY HubInvHonest, HubInitInv, HubNextInv, PTL DEF HubSpec

(* Nothing of a program is published to a caller who was gone, or whose
   credential was revoked and not live since, before the program ended. *)
THEOREM HubPublishesOnlyToLive == HubSpec => []HubPublishesToLive
<1>1. HubInv => HubPublishesToLive
  BY DEF HubInv
<1> QED
  BY <1>1, HubInitInv, HubNextInv, PTL DEF HubSpec

(* The pump never sleeps on work it could do, and no answer re-enters a
   disposed runtime. *)
THEOREM HubRuntimeIsSound == HubSpec => []HubRuntimeSound
<1>1. HubInv => HubRuntimeSound
  BY DEF HubInv
<1> QED
  BY <1>1, HubInitInv, HubNextInv, PTL DEF HubSpec
=============================================================================
