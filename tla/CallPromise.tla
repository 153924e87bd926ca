---------------------------- MODULE CallPromise ----------------------------
(***************************************************************************)
(* What forward() of server/src/tunnel.ts promises the gateway about one   *)
(* call, and nothing of how: a call is refused without leaving, or leaves  *)
(* once and gets one outcome, which is final.  Only "offline" says that    *)
(* the app certainly did not run it.  ForwardFailure and ForwardResult     *)
(* name the outcomes; "unreachable" is the object failing its caller.      *)
(***************************************************************************)
CONSTANT Calls

VARIABLES call,    \* a call's state or outcome
          ran      \* the calls the app ran

vars == <<call, ran>>

AfterLeaving == {"ok", "timeout", "disconnected", "unreachable"}

Init ==
  /\ call = [c \in Calls |-> "idle"]
  /\ ran = {}

(* Nothing is sent and nothing is queued. *)
Refuse(c) ==
  /\ call[c] = "idle"
  /\ call' = [call EXCEPT ![c] = "offline"]
  /\ UNCHANGED ran

Leave(c) ==
  /\ call[c] = "idle"
  /\ call' = [call EXCEPT ![c] = "sent"]
  /\ UNCHANGED ran

(* Whatever left may be run, even after the caller was given an outcome. *)
Run(c) ==
  /\ call[c] \in {"sent"} \cup AfterLeaving
  /\ ran' = ran \cup {c}
  /\ UNCHANGED call

(* Some of the calls in flight end together, with one outcome; only a call
   that ran is answered. *)
End(C, outcome) ==
  /\ \A c \in C : call[c] = "sent"
  /\ outcome = "ok" => C \subseteq ran
  /\ call' = [c \in Calls |-> IF c \in C THEN outcome ELSE call[c]]
  /\ UNCHANGED ran

Next ==
  \/ \E c \in Calls : Refuse(c) \/ Leave(c) \/ Run(c)
  \/ \E C \in SUBSET Calls, outcome \in AfterLeaving : End(C, outcome)

Spec == Init /\ [][Next]_vars
=============================================================================
