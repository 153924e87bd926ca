---------------------- MODULE UpstreamCredentialProofs ----------------------
(***************************************************************************)
(* Proofs about UpstreamCredential, for any dials, callbacks and grants    *)
(* and any number of generations: type correctness, the single redemption  *)
(* of a code, the flag that only the AS's refusal costs, and that no       *)
(* bundle gives way to an older one.                                       *)
(***************************************************************************)
EXTENDS UpstreamCredential, TLAPS

(* What the envelopes are made of. *)
LEMMA EnvelopeFacts ==
  /\ Empty \in Envelopes /\ Headers \in Envelopes
  /\ Empty \notin Bundles /\ Headers \notin Bundles
  /\ Empty.grant \notin Grants /\ Headers.grant \notin Grants
  /\ ~Empty.dead /\ ~Headers.dead
  /\ Bundles \subseteq Envelopes
  /\ \A e \in Envelopes : e.kind = "oauth" <=> e \in Bundles
  /\ \A e \in Envelopes : e.grant \in Grants <=> e \in Bundles
  /\ \A e \in Envelopes : e.dead => e \in Bundles
BY CredentialAssumption DEF Envelopes, Bundles, Empty, Headers

LEMMA BundleFacts ==
  /\ \A e \in Bundles : e.grant \in Grants /\ e.gen \in 1 .. MaxGen
  /\ \A e \in Bundles : /\ [e EXCEPT !.dead = TRUE] \in Bundles
                        /\ [e EXCEPT !.dead = TRUE].grant = e.grant
                        /\ [e EXCEPT !.dead = TRUE].gen = e.gen
                        /\ [e EXCEPT !.dead = TRUE].dead
  /\ \A g \in Grants, k \in 1 .. MaxGen :
       /\ Bundle(g, k) \in Bundles
       /\ Bundle(g, k).grant = g
       /\ Bundle(g, k).gen = k
       /\ ~Bundle(g, k).dead
BY DEF Bundles, Bundle

(* A dial that waits for the AS or has its answer to write holds a bundle. *)
InUse(r) == dial[r] \in {"exchanging", "rejected", "exchanged"}

HoldsBundle == \A r \in Dials : InUse(r) => held[r] \in Bundles

(* A callback past its read has a flow. *)
AboutFlow ==
  \A c \in Callbacks :
    callback[c] \in {"read", "consumed", "redeemed"} => about[c] \in Grants

Shape == TypeOK /\ HoldsBundle /\ AboutFlow

LEMMA ShapeInit == Init => Shape
<1> SUFFICES ASSUME Init PROVE Shape
  OBVIOUS
<1>1. 0 \in Generations /\ Empty \in Envelopes
  BY CredentialAssumption, EnvelopeFacts DEF Generations
<1>2. TypeOK
  <2>1. /\ held \in [Dials -> Envelopes]
        /\ newest \in [Grants -> Generations]
        /\ redeemed \in [Grants -> 0 .. 2]
    BY <1>1 DEF Init
  <2>2. /\ flow \in [Grants -> {"none", "pending", "expired", "gone"}]
        /\ about \in [Callbacks -> Grants \cup {NoGrant}]
    BY DEF Init
  <2> QED BY <1>1, <2>1, <2>2 DEF Init, TypeOK
<1>3. HoldsBundle /\ AboutFlow
  BY DEF Init, HoldsBundle, InUse, AboutFlow
<1> QED BY <1>2, <1>3 DEF Shape

(* Every step keeps the types, what the dials hold and what the callbacks are
   about. *)
LEMMA ShapeStep == Shape /\ [Next]_vars => Shape'
<1> SUFFICES ASSUME Shape, [Next]_vars PROVE Shape'
  OBVIOUS
<1> USE DEF Shape, TypeOK, HoldsBundle, InUse, AboutFlow, atHub, atServer,
            calling, connecting, history, End
<1>1. ASSUME NEW r \in Dials, Dial(r) PROVE Shape'
  <2>1. Usable(cell) /\ cell \in lapsed => cell \in Bundles
    OBVIOUS
  <2> QED BY <1>1, <2>1 DEF Dial
<1>2. ASSUME NEW r \in Dials, Rejected(r) PROVE Shape'
  BY <1>2 DEF Rejected
<1>3. ASSUME NEW r \in Dials, Unanswered(r) PROVE Shape'
  BY <1>3 DEF Unanswered
<1>4. ASSUME NEW r \in Dials, NEW arrives \in BOOLEAN, Minted(r, arrives)
      PROVE  Shape'
  <2> DEFINE g == held[r].grant
  <2>1. g \in Grants /\ newest[g] + 1 \in 1 .. MaxGen
    BY <1>4, BundleFacts, CredentialAssumption DEF Minted, Generations
  <2>2. Bundle(g, newest[g] + 1) \in Bundles
    BY <2>1, BundleFacts
  <2>3. Bundle(g, newest[g] + 1) \in Envelopes
    BY <2>2, EnvelopeFacts
  <2>4. newest' \in [Grants -> Generations]
    BY <1>4, <2>1 DEF Minted, Generations
  <2> HIDE DEF g
  <2>5. lost' \subseteq Grants
    BY <1>4, <2>1 DEF Minted, g
  <2>6. held' \in [Dials -> Envelopes]
    BY <1>4, <2>3 DEF Minted, g
  <2>7. HoldsBundle'
    BY <1>4, <2>2 DEF Minted, g
  <2>8. TypeOK'
    BY <1>4, <2>4, <2>5, <2>6 DEF Minted
  <2>9. AboutFlow'
    BY <1>4 DEF Minted
  <2> QED BY <2>7, <2>8, <2>9
<1>5. ASSUME NEW r \in Dials, StoreRefreshed(r) PROVE Shape'
  BY <1>5 DEF StoreRefreshed
<1>6. ASSUME NEW r \in Dials, Flip(r) PROVE Shape'
  <2>1. [held[r] EXCEPT !.dead = TRUE] \in Envelopes
    BY <1>6, BundleFacts, EnvelopeFacts DEF Flip
  <2> QED BY <1>6, <2>1 DEF Flip
<1>7. ASSUME NEW r \in Dials, Reread(r) PROVE Shape'
  BY <1>7 DEF Reread
<1>8. ASSUME NEW r \in Dials, DialDies(r) PROVE Shape'
  BY <1>8, BundleFacts DEF DialDies
<1>9. ASSUME NEW c \in Callbacks, NEW g \in Grants, CallbackReads(c, g)
      PROVE  Shape'
  BY <1>9 DEF CallbackReads
<1>10. ASSUME NEW c \in Callbacks, NEW honoured \in BOOLEAN, Redeem(c, honoured)
       PROVE  Shape'
  <2>1. newest' \in [Grants -> Generations]
    BY <1>10, CredentialAssumption DEF Redeem, Generations
  <2>2. redeemed' \in [Grants -> 0 .. 2]
    BY <1>10 DEF Redeem
  <2>3. callback' \in [Callbacks -> {"idle", "read", "consumed", "redeemed",
                                    "done", "refused"}]
    BY <1>10 DEF Redeem
  <2>4. AboutFlow'
    BY <1>10 DEF Redeem
  <2> QED BY <1>10, <2>1, <2>2, <2>3, <2>4 DEF Redeem
<1>11. ASSUME NEW c \in Callbacks, Consume(c) PROVE Shape'
  <2>1. flow' \in [Grants -> {"none", "pending", "expired", "gone"}]
    BY <1>11 DEF Consume
  <2>2. callback' \in [Callbacks -> {"idle", "read", "consumed", "redeemed",
                                    "done", "refused"}]
    BY <1>11 DEF Consume
  <2> QED BY <1>11, <2>1, <2>2 DEF Consume
<1>12. ASSUME NEW c \in Callbacks, StoreConnected(c) PROVE Shape'
  <2>1. Bundle(about[c], 1) \in Envelopes
    BY <1>12, BundleFacts, EnvelopeFacts, CredentialAssumption
       DEF StoreConnected
  <2> QED BY <1>12, <2>1 DEF StoreConnected
<1>13. ASSUME NEW c \in Callbacks, CallbackDies(c) PROVE Shape'
  BY <1>13 DEF CallbackDies
<1>14. ASSUME NEW g \in Grants, BeginConnect(g) \/ FlowExpires(g) \/ Revokes(g)
       PROVE  Shape'
  BY <1>14 DEF BeginConnect, FlowExpires, Revokes
<1>15. CASE CleanupStaleState
  BY <1>15 DEF CleanupStaleState
<1>16. CASE Disconnect \/ SetHeadersStores \/ SetHeadersReads \/ FlipMode
  BY <1>16, EnvelopeFacts
     DEF Disconnect, SetHeadersStores, SetHeadersReads, FlipMode
<1>17. CASE Lapses
  BY <1>17, EnvelopeFacts DEF Lapses
<1>18. CASE UNCHANGED vars
  BY <1>18 DEF vars
<1> QED
  BY <1>1, <1>2, <1>3, <1>4, <1>5, <1>6, <1>7, <1>8, <1>9, <1>10, <1>11,
     <1>12, <1>13, <1>14, <1>15, <1>16, <1>17, <1>18 DEF Next

LEMMA ShapeHolds == Spec => []Shape
BY ShapeInit, ShapeStep, PTL DEF Spec

(* Every variable keeps its type (upstream.ts as a whole). *)
THEOREM CredentialTypeCorrect == Spec => []TypeOK
BY ShapeHolds, PTL DEF Shape

-----------------------------------------------------------------------------
(* The consuming delete: a callback that won it found the row, which no other
   callback finds again, and the code of a redeemed flow has no row. *)
WinnerIsFirst ==
  \A c \in Callbacks :
    callback[c] = "consumed" =>
      /\ flow[about[c]] = "gone" /\ redeemed[about[c]] = 0
      /\ \A d \in Callbacks : callback[d] = "consumed" /\ about[d] = about[c]
                                => c = d

RedeemedIsGone == \A g \in Grants : redeemed[g] >= 1 => flow[g] = "gone"

CodeInv == Shape /\ WinnerIsFirst /\ RedeemedIsGone /\ CodeRedeemedOnce

LEMMA CodeInit == Init => CodeInv
<1> SUFFICES ASSUME Init PROVE CodeInv
  OBVIOUS
<1>1. Shape
  BY ShapeInit
<1> QED
  BY <1>1 DEF Init, CodeInv, WinnerIsFirst, RedeemedIsGone, CodeRedeemedOnce

(* Every step keeps CodeInv. *)
LEMMA CodeStep == CodeInv /\ [Next]_vars => CodeInv'
<1> SUFFICES ASSUME CodeInv, [Next]_vars PROVE CodeInv'
  OBVIOUS
<1>0. Shape'
  BY ShapeStep DEF CodeInv
<1> USE <1>0 DEF CodeInv, WinnerIsFirst, RedeemedIsGone, CodeRedeemedOnce,
                 atHub, atServer, calling, connecting, history
<1>1. TypeOK /\ AboutFlow
  BY DEF Shape
<1>2. ASSUME UNCHANGED <<flow, callback, about, redeemed>> PROVE CodeInv'
  BY <1>2
<1>3. ASSUME NEW r \in Dials,
             \/ Dial(r) \/ Rejected(r) \/ Unanswered(r) \/ StoreRefreshed(r)
             \/ Flip(r) \/ Reread(r) \/ DialDies(r)
             \/ \E arrives \in BOOLEAN : Minted(r, arrives)
      PROVE  CodeInv'
  <2>1. UNCHANGED <<flow, callback, about, redeemed>>
    BY <1>3 DEF Dial, Rejected, Unanswered, StoreRefreshed, Flip, Reread,
                DialDies, Minted
  <2> QED BY <2>1, <1>2
<1>4. ASSUME NEW c \in Callbacks, NEW g \in Grants, CallbackReads(c, g)
      PROVE  CodeInv'
  BY <1>4, <1>1 DEF CallbackReads, TypeOK
<1>5. ASSUME NEW c \in Callbacks, Consume(c) PROVE CodeInv'
  <2>1. about[c] \in Grants
    BY <1>1, <1>5 DEF AboutFlow, Consume
  <2>2. \A g \in Grants : flow[g] = "gone" => flow'[g] = "gone"
    BY <1>1, <1>5 DEF Consume, TypeOK
  <2>3. flow'[about[c]] = "gone" /\ UNCHANGED <<about, redeemed>>
    BY <1>1, <1>5, <2>1 DEF Consume, TypeOK
  <2>4. \A d \in Callbacks : d # c => callback'[d] = callback[d]
    BY <1>1, <1>5 DEF Consume, TypeOK
  <2>5. CASE flow[about[c]] = "gone"
    <3>1. callback'[c] = "refused"
      BY <1>1, <1>5, <2>5 DEF Consume, TypeOK
    <3>2. WinnerIsFirst'
      BY <1>1, <2>2, <2>3, <2>4, <3>1 DEF AboutFlow
    <3> QED BY <2>2, <2>3, <3>2
  <2>6. CASE flow[about[c]] # "gone"
    <3>1. redeemed[about[c]] = 0
      BY <1>1, <2>1, <2>6 DEF TypeOK
    <3>2. \A d \in Callbacks : callback[d] = "consumed" => about[d] # about[c]
      BY <2>6
    <3>3. WinnerIsFirst'
      BY <1>1, <2>2, <2>3, <2>4, <3>1, <3>2 DEF AboutFlow
    <3> QED BY <2>2, <2>3, <3>3
  <2> QED BY <2>5, <2>6
<1>6. ASSUME NEW c \in Callbacks, NEW honoured \in BOOLEAN, Redeem(c, honoured)
      PROVE  CodeInv'
  <2>1. /\ about[c] \in Grants
        /\ flow[about[c]] = "gone" /\ redeemed[about[c]] = 0
    BY <1>1, <1>6 DEF AboutFlow, Redeem
  <2>2. redeemed' = [redeemed EXCEPT ![about[c]] = 1]
    BY <1>1, <1>6, <2>1 DEF Redeem, TypeOK
  <2>3. /\ callback'[c] # "consumed"
        /\ \A d \in Callbacks : d # c => callback'[d] = callback[d]
        /\ UNCHANGED <<flow, about>>
    BY <1>1, <1>6 DEF Redeem, TypeOK
  <2>4. \A d \in Callbacks :
          d # c /\ callback[d] = "consumed" => about[d] # about[c]
    BY <1>6 DEF Redeem
  <2>5. WinnerIsFirst'
    BY <1>1, <2>1, <2>2, <2>3, <2>4 DEF AboutFlow, TypeOK
  <2>6. RedeemedIsGone' /\ CodeRedeemedOnce'
    BY <1>1, <2>1, <2>2, <2>3 DEF TypeOK
  <2> QED BY <2>5, <2>6
<1>7. ASSUME NEW c \in Callbacks, StoreConnected(c) \/ CallbackDies(c)
      PROVE  CodeInv'
  BY <1>7, <1>1 DEF StoreConnected, CallbackDies, TypeOK
<1>8. ASSUME NEW g \in Grants, BeginConnect(g) \/ FlowExpires(g) \/ Revokes(g)
      PROVE  CodeInv'
  <2>1. /\ \A h \in Grants : flow[h] = "gone" => flow'[h] = "gone"
        /\ UNCHANGED <<callback, about, redeemed>>
    BY <1>8, <1>1 DEF BeginConnect, FlowExpires, Revokes, TypeOK
  <2> QED BY <2>1, <1>1 DEF AboutFlow
<1>9. CASE CleanupStaleState
  BY <1>9, <1>1 DEF CleanupStaleState, AboutFlow
<1>10. CASE \/ Disconnect \/ SetHeadersReads \/ SetHeadersStores \/ FlipMode
            \/ Lapses \/ UNCHANGED vars
  <2>1. UNCHANGED <<flow, callback, about, redeemed>>
    BY <1>10 DEF Disconnect, SetHeadersReads, SetHeadersStores, FlipMode,
                 Lapses, vars
  <2> QED BY <2>1, <1>2
<1> QED
  BY <1>3, <1>4, <1>5, <1>6, <1>7, <1>8, <1>9, <1>10 DEF Next

(* However many callbacks carry one state, its code is redeemed once
   (handleCallback's consuming delete). *)
THEOREM CodeSpentOnce == Spec => []CodeRedeemedOnce
<1>1. Spec => []CodeInv
  BY CodeInit, CodeStep, PTL DEF Spec
<1> QED BY <1>1, PTL DEF CodeInv

-----------------------------------------------------------------------------
(* Where the generations of a grant are.  None is ahead of the AS's; the one
   the AS honours is in the hands of at most one dial, and then nothing stored
   and no other dial has it. *)
CellMinted == cell \in Bundles => cell.gen <= newest[cell.grant]

HeldMinted ==
  \A r \in Dials : InUse(r) => held[r].gen <= newest[held[r].grant]

WinnerAlone ==
  \A r \in Dials :
    dial[r] = "exchanged" =>
      /\ ~held[r].dead
      /\ held[r].gen = newest[held[r].grant]
      /\ cell.grant = held[r].grant => cell.gen < held[r].gen
      /\ \A s \in Dials : s # r /\ InUse(s) /\ held[s].grant = held[r].grant
                            => held[s].gen < held[r].gen

(* The first generation is in the hands of one callback, and of no one else. *)
FirstAlone ==
  \A c \in Callbacks :
    callback[c] = "redeemed" =>
      /\ newest[about[c]] = 1
      /\ cell.grant # about[c]
      /\ \A r \in Dials : InUse(r) => held[r].grant # about[c]
      /\ \A d \in Callbacks : d # c /\ callback[d] = "redeemed"
                                => about[d] # about[c]

(* A stored bundle falls behind only while its successor is on the way or
   lost. *)
BehindIsAwaited ==
  cell \in Bundles /\ cell.gen < newest[cell.grant] /\ cell.grant \notin lost =>
    \E r \in Dials : dial[r] = "exchanged" /\ held[r].grant = cell.grant

(* The AS refuses a grant for a reason. *)
Refusable(e) ==
  \/ e.grant \notin Renewable
  \/ e.grant \in revoked
  \/ e.gen < newest[e.grant]

RefusedForCause == \A r \in Dials : dial[r] = "rejected" => Refusable(held[r])

DeadForCause == cell.dead => Refusable(cell)

MintInv ==
  /\ Shape
  /\ CellMinted /\ HeldMinted /\ WinnerAlone /\ FirstAlone
  /\ BehindIsAwaited /\ RefusedForCause /\ DeadForCause

LEMMA MintInit == Init => MintInv
<1> SUFFICES ASSUME Init PROVE MintInv
  OBVIOUS
<1>1. Shape /\ cell \notin Bundles /\ ~cell.dead
  BY ShapeInit, EnvelopeFacts DEF Init
<1>2. \A r \in Dials : dial[r] = "idle"
  BY DEF Init
<1>3. \A c \in Callbacks : callback[c] = "idle"
  BY DEF Init
<1> QED
  BY <1>1, <1>2, <1>3 DEF MintInv, CellMinted, HeldMinted, InUse, WinnerAlone,
     FirstAlone, BehindIsAwaited, RefusedForCause, DeadForCause

(* A step that leaves the AS and the store alone, and at most lets a dial go
   that has nothing to store, changes none of it. *)
LEMMA QuietStep ==
  ASSUME MintInv, Shape',
         UNCHANGED <<cell, newest>>, revoked \subseteq revoked',
         lost \subseteq lost',
         \A c \in Callbacks : callback'[c] = "redeemed"
                            => callback[c] = "redeemed" /\ about'[c] = about[c],
         \A r \in Dials :
           \/ dial'[r] = dial[r] /\ held'[r] = held[r]
           \/ /\ dial'[r] \notin {"exchanging", "rejected", "exchanged"}
              /\ dial[r] = "exchanged" => held[r].grant \in lost'
  PROVE  MintInv'
<1> USE DEF MintInv
<1>0. TypeOK /\ AboutFlow /\ HoldsBundle
  BY DEF Shape
<1>1. \A r \in Dials : InUse(r)' => /\ InUse(r)
                                    /\ dial'[r] = dial[r]
                                    /\ held'[r] = held[r]
  BY DEF InUse
<1>2. \A e : Refusable(e) => Refusable(e)'
  BY DEF Refusable
<1>3. CellMinted' /\ HeldMinted'
  BY <1>0, <1>1 DEF CellMinted, HeldMinted
<1>4. WinnerAlone'
  BY <1>0, <1>1 DEF WinnerAlone, InUse
<1>5. FirstAlone'
  BY <1>0, <1>1 DEF FirstAlone
<1>6. BehindIsAwaited'
  BY <1>0 DEF BehindIsAwaited
<1>7. RefusedForCause'
  BY <1>1, <1>2 DEF RefusedForCause, InUse
<1>8. DeadForCause'
  BY <1>2 DEF DeadForCause
<1> QED BY <1>3, <1>4, <1>5, <1>6, <1>7, <1>8

(* A wipe, or a set of headers, takes the place of whatever was stored. *)
LEMMA WipeStep ==
  ASSUME MintInv, Shape', cell' \in {Empty, Headers},
         UNCHANGED <<dial, held, callback, about, newest, revoked, lost>>
  PROVE  MintInv'
<1> USE DEF MintInv
<1>0. TypeOK /\ AboutFlow /\ HoldsBundle
  BY DEF Shape
<1>1. cell' \notin Bundles /\ ~cell'.dead /\ cell'.grant \notin Grants
  BY EnvelopeFacts
<1>2. CellMinted' /\ BehindIsAwaited' /\ DeadForCause'
  BY <1>1 DEF CellMinted, BehindIsAwaited, DeadForCause
<1>3. HeldMinted' /\ RefusedForCause'
  BY DEF HeldMinted, InUse, RefusedForCause, Refusable
<1>4. WinnerAlone'
  <2>1. \A r \in Dials : dial[r] = "exchanged" => held[r].grant \in Grants
    BY <1>0, BundleFacts DEF HoldsBundle, InUse
  <2> QED BY <1>1, <2>1 DEF WinnerAlone, InUse
<1>5. FirstAlone'
  BY <1>0, <1>1 DEF FirstAlone, AboutFlow, InUse
<1> QED BY <1>2, <1>3, <1>4, <1>5

(* A dial opens the stored bundle. *)
LEMMA DialStep ==
  ASSUME MintInv, Shape', NEW r \in Dials, Dial(r)
  PROVE  MintInv'
<1> USE DEF MintInv, atHub, connecting, atServer, history, End
<1>0. TypeOK /\ AboutFlow /\ HoldsBundle
  BY DEF Shape
<1>1. UNCHANGED <<cell, callback, about, newest, revoked, lost>>
  BY DEF Dial
<1>2. /\ \A s \in Dials : s # r => dial'[s] = dial[s] /\ held'[s] = held[s]
      /\ held'[r] = cell
      /\ dial'[r] \in {"exchanging", "rejected"} => cell \in Bundles
      /\ dial'[r] = "rejected" => cell.grant \notin Renewable
      /\ dial'[r] # "exchanged" /\ dial[r] # "exchanged"
  <2>1. cell \in lapsed => cell \in Bundles
    BY <1>0 DEF TypeOK
  <2> QED BY <1>0, <2>1 DEF Dial, TypeOK
<1>3. CellMinted' /\ DeadForCause' /\ BehindIsAwaited'
  BY <1>1, <1>2 DEF CellMinted, DeadForCause, BehindIsAwaited, Refusable
<1>4. HeldMinted'
  BY <1>1, <1>2 DEF HeldMinted, CellMinted, InUse
<1>5. WinnerAlone'
  BY <1>1, <1>2 DEF WinnerAlone, InUse
<1>6. FirstAlone'
  BY <1>1, <1>2 DEF FirstAlone, InUse
<1>7. RefusedForCause'
  BY <1>1, <1>2 DEF RefusedForCause, Refusable
<1> QED BY <1>3, <1>4, <1>5, <1>6, <1>7

(* The AS refuses an exchange. *)
LEMMA RejectedStep ==
  ASSUME MintInv, Shape', NEW r \in Dials, Rejected(r)
  PROVE  MintInv'
<1> USE DEF MintInv, atHub, connecting, atServer, history, End
<1>0. TypeOK /\ AboutFlow /\ HoldsBundle
  BY DEF Shape
<1>1. UNCHANGED <<cell, held, callback, about, newest, revoked, lost>>
  BY DEF Rejected
<1>2. /\ \A s \in Dials : s # r => dial'[s] = dial[s]
      /\ dial'[r] = "rejected" /\ dial[r] = "exchanging"
  BY <1>0 DEF Rejected, TypeOK
<1>3. Refusable(held[r])
  <2>1. held[r] \in Bundles /\ held[r].gen <= newest[held[r].grant]
    BY <1>0, <1>2 DEF HoldsBundle, HeldMinted, InUse
  <2>2. held[r].gen \in Nat /\ newest[held[r].grant] \in Nat
    BY <1>0, <2>1, BundleFacts DEF TypeOK, Generations
  <2> QED BY <2>1, <2>2 DEF Rejected, Refusable
<1>4. CellMinted' /\ DeadForCause' /\ BehindIsAwaited'
  BY <1>1, <1>2 DEF CellMinted, DeadForCause, BehindIsAwaited, Refusable
<1>5. HeldMinted'
  BY <1>1, <1>2 DEF HeldMinted, InUse
<1>6. WinnerAlone'
  BY <1>1, <1>2 DEF WinnerAlone, InUse
<1>7. FirstAlone'
  BY <1>1, <1>2 DEF FirstAlone, InUse
<1>8. RefusedForCause'
  BY <1>1, <1>2, <1>3 DEF RefusedForCause, Refusable
<1> QED BY <1>4, <1>5, <1>6, <1>7, <1>8

(* The AS mints a generation and no longer honours the one before. *)
LEMMA MintedStep ==
  ASSUME MintInv, Shape', NEW r \in Dials, NEW arrives \in BOOLEAN,
         Minted(r, arrives)
  PROVE  MintInv'
<1> USE DEF MintInv, atHub, connecting, End
<1> DEFINE g == held[r].grant
<1>0. TypeOK /\ AboutFlow /\ HoldsBundle
  BY DEF Shape
<1>1. UNCHANGED <<cell, callback, about, revoked>>
  BY DEF Minted
<1>2. /\ dial[r] = "exchanging" /\ held[r] \in Bundles
      /\ g \in Grants /\ held[r].gen = newest[g]
      /\ newest[g] \in Nat /\ newest[g] + 1 \in 1 .. MaxGen
  BY <1>0, BundleFacts, CredentialAssumption
     DEF Minted, HoldsBundle, InUse, TypeOK, Generations
<1>3. /\ newest' = [newest EXCEPT ![g] = newest[g] + 1]
      /\ \A s \in Dials : s # r => dial'[s] = dial[s] /\ held'[s] = held[s]
      /\ \/ /\ dial'[r] = "exchanged" /\ lost' = lost
            /\ held'[r] = Bundle(g, newest[g] + 1)
         \/ dial'[r] = "refused" /\ lost' = lost \cup {g}
  BY <1>0 DEF Minted, TypeOK
<1>4. /\ Bundle(g, newest[g] + 1).grant = g
      /\ Bundle(g, newest[g] + 1).gen = newest[g] + 1
      /\ ~Bundle(g, newest[g] + 1).dead
  BY <1>2, BundleFacts
<1>5. \A s \in Dials : dial[s] = "exchanged" => held[s].grant # g
  BY <1>2 DEF WinnerAlone, InUse
<1>6. \A c \in Callbacks : callback[c] = "redeemed" => about[c] # g
  BY <1>2 DEF FirstAlone, InUse
<1> HIDE DEF g
<1>7. /\ newest'[g] = newest[g] + 1
      /\ \A h \in Grants : h # g => newest'[h] = newest[h]
      /\ \A h \in Grants : newest'[h] \in Nat /\ newest[h] \in Nat
  BY <1>0, <1>2, <1>3 DEF TypeOK, Generations
<1>8. \A e \in Bundles : /\ e.grant \in Grants /\ e.gen \in Nat
                         /\ e.gen <= newest[e.grant] => e.gen <= newest'[e.grant]
                         /\ Refusable(e) => Refusable(e)'
  BY <1>1, <1>7, BundleFacts DEF Refusable
<1>9. \A s \in Dials : InUse(s) /\ held[s].grant = g => held[s].gen < newest'[g]
  BY <1>0, <1>7, <1>8 DEF HeldMinted, HoldsBundle
<1>10. cell.grant = g => cell \in Bundles /\ cell.gen < newest'[g]
  BY <1>0, <1>2, <1>7, <1>8, EnvelopeFacts DEF CellMinted, TypeOK
<1>11. CellMinted'
  BY <1>1, <1>8 DEF CellMinted
<1>12. HeldMinted'
  <2>1. ASSUME NEW s \in Dials, InUse(s)'
        PROVE  held'[s].gen <= newest'[held'[s].grant]
    <3>1. CASE s # r
      <4>1. InUse(s) /\ held'[s] = held[s]
        BY <1>3, <2>1, <3>1 DEF InUse
      <4>2. held[s] \in Bundles /\ held[s].gen <= newest[held[s].grant]
        BY <1>0, <4>1 DEF HoldsBundle, HeldMinted
      <4> QED BY <1>8, <4>1, <4>2
    <3>2. CASE s = r
      <4>1. held'[s] = Bundle(g, newest[g] + 1)
        BY <1>3, <2>1, <3>2 DEF InUse
      <4>2. held'[s].gen = newest'[g] /\ held'[s].grant = g /\ newest'[g] \in Nat
        BY <1>2, <1>4, <1>7, <4>1
      <4> QED BY <4>2
    <3> QED BY <3>1, <3>2
  <2> QED BY <2>1 DEF HeldMinted
<1>13. WinnerAlone'
  <2>1. ASSUME NEW s \in Dials, dial'[s] = "exchanged"
        PROVE  /\ ~held'[s].dead
               /\ held'[s].gen = newest'[held'[s].grant]
               /\ cell'.grant = held'[s].grant => cell'.gen < held'[s].gen
               /\ \A t \in Dials :
                    t # s /\ InUse(t)' /\ held'[t].grant = held'[s].grant
                      => held'[t].gen < held'[s].gen
    <3>1. CASE s = r
      BY <1>1, <1>3, <1>4, <1>7, <1>9, <1>10, <2>1, <3>1 DEF InUse
    <3>2. CASE s # r
      <4>1. dial[s] = "exchanged" /\ held'[s] = held[s] /\ held[s].grant # g
        BY <1>3, <1>5, <2>1, <3>2
      <4>2. held[s].grant \in Grants
        BY <1>0, <1>8, <4>1 DEF HoldsBundle, InUse
      <4> QED BY <1>1, <1>3, <1>4, <1>7, <4>1, <4>2 DEF WinnerAlone, InUse
    <3> QED BY <3>1, <3>2
  <2> QED BY <2>1 DEF WinnerAlone
<1>14. FirstAlone'
  <2>1. \A s \in Dials : InUse(s)' => InUse(s) /\ held'[s].grant = held[s].grant
    BY <1>2, <1>3, <1>4 DEF InUse, g
  <2> QED BY <1>0, <1>1, <1>6, <1>7, <2>1 DEF FirstAlone, AboutFlow
<1>15. BehindIsAwaited'
  <2>1. CASE cell.grant = g
    BY <1>1, <1>3, <1>4, <2>1 DEF BehindIsAwaited
  <2>2. CASE cell.grant # g
    BY <1>1, <1>2, <1>3, <1>7, <1>8, <2>2 DEF BehindIsAwaited
  <2> QED BY <2>1, <2>2
<1>16. RefusedForCause'
  <2>1. \A s \in Dials : dial'[s] = "rejected"
          => /\ dial[s] = "rejected" /\ held'[s] = held[s]
             /\ held[s] \in Bundles
    BY <1>0, <1>2, <1>3 DEF HoldsBundle, InUse
  <2>2. \A s \in Dials : dial[s] = "rejected" =>
          \/ held[s].grant \notin Renewable
          \/ held[s].grant \in revoked
          \/ held[s].gen < newest[held[s].grant]
    BY DEF RefusedForCause, Refusable
  <2>3. \A e \in Bundles :
          e.gen < newest[e.grant] => e.gen < newest'[e.grant]
    BY <1>7, <1>8
  <2> QED BY <1>1, <2>1, <2>2, <2>3 DEF RefusedForCause, Refusable
<1>17. DeadForCause'
  BY <1>0, <1>1, <1>8, EnvelopeFacts DEF DeadForCause, TypeOK
<1> QED BY <1>11, <1>12, <1>13, <1>14, <1>15, <1>16, <1>17
(* The one write of a refreshed bundle. *)
LEMMA StoreStep ==
  ASSUME MintInv, Shape', NEW r \in Dials, StoreRefreshed(r)
  PROVE  MintInv'
<1> USE DEF MintInv, connecting, atServer, history, End
<1>0. TypeOK /\ AboutFlow /\ HoldsBundle
  BY DEF Shape
<1>1. UNCHANGED <<held, callback, about, newest, revoked, lost>>
  BY DEF StoreRefreshed
<1>2. /\ dial[r] = "exchanged" /\ dial'[r] = "spent"
      /\ \A s \in Dials : s # r => dial'[s] = dial[s]
      /\ cell' = held[r]
  BY <1>0 DEF StoreRefreshed, TypeOK
<1>3. /\ held[r] \in Bundles /\ ~held[r].dead
      /\ held[r].gen = newest[held[r].grant] /\ held[r].gen \in Nat
  BY <1>0, <1>2, BundleFacts DEF WinnerAlone, HoldsBundle, InUse
<1>4. \A s \in Dials : dial'[s] = "exchanged" => held[s].grant # held[r].grant
  <2>1. \A s \in Dials : dial'[s] = "exchanged"
          => s # r /\ dial[s] = "exchanged" /\ held[s].gen = newest[held[s].grant]
    BY <1>2 DEF WinnerAlone
  <2>2. \A s \in Dials : s # r /\ InUse(s) /\ held[s].grant = held[r].grant
          => held[s].gen < held[r].gen
    BY <1>2 DEF WinnerAlone
  <2> QED BY <1>3, <2>1, <2>2 DEF InUse
<1>5. CellMinted' /\ DeadForCause' /\ BehindIsAwaited'
  BY <1>1, <1>2, <1>3 DEF CellMinted, DeadForCause, BehindIsAwaited
<1>6. HeldMinted' /\ RefusedForCause'
  BY <1>1, <1>2 DEF HeldMinted, InUse, RefusedForCause, Refusable
<1>7. WinnerAlone'
  BY <1>1, <1>2, <1>4 DEF WinnerAlone, InUse
<1>8. FirstAlone'
  BY <1>1, <1>2 DEF FirstAlone, InUse
<1> QED BY <1>5, <1>6, <1>7, <1>8

(* The compare-and-set of the flag. *)
LEMMA FlipStep ==
  ASSUME MintInv, Shape', NEW r \in Dials, Flip(r)
  PROVE  MintInv'
<1> USE DEF MintInv, connecting, atServer, history, End
<1>0. TypeOK /\ AboutFlow /\ HoldsBundle
  BY DEF Shape
<1>1. UNCHANGED <<held, callback, about, newest, revoked, lost>>
  BY DEF Flip
<1>2. /\ dial[r] = "rejected" /\ dial'[r] \in {"refused", "rereading"}
      /\ \A s \in Dials : s # r => dial'[s] = dial[s]
  BY <1>0 DEF Flip, TypeOK
<1>3. CASE cell' = cell
  BY <1>0, <1>1, <1>2, <1>3, QuietStep
<1>4. CASE cell' # cell
  <2>1. cell = held[r] /\ cell' = [cell EXCEPT !.dead = TRUE]
    BY <1>4 DEF Flip
  <2>2. /\ cell \in Bundles /\ cell' \in Bundles
        /\ cell'.grant = cell.grant /\ cell'.gen = cell.gen
    BY <1>0, <1>2, <2>1, BundleFacts DEF HoldsBundle, InUse
  <2>3. CellMinted' /\ BehindIsAwaited'
    BY <1>1, <1>2, <2>2 DEF CellMinted, BehindIsAwaited
  <2>4. DeadForCause' /\ RefusedForCause' /\ HeldMinted'
    BY <1>1, <1>2, <2>1, <2>2
       DEF DeadForCause, RefusedForCause, Refusable, HeldMinted, InUse
  <2>5. WinnerAlone'
    BY <1>1, <1>2, <2>2 DEF WinnerAlone, InUse
  <2>6. FirstAlone'
    BY <1>1, <1>2, <2>2 DEF FirstAlone, InUse
  <2> QED BY <2>3, <2>4, <2>5, <2>6
<1> QED BY <1>3, <1>4

(* A code is honoured once, and before that nothing of its grant exists. *)
LEMMA RedeemStep ==
  ASSUME MintInv, Shape', NEW c \in Callbacks, NEW honoured \in BOOLEAN,
         Redeem(c, honoured)
  PROVE  MintInv'
<1> USE DEF MintInv, atHub, calling
<1>0. TypeOK /\ AboutFlow /\ HoldsBundle
  BY DEF Shape
<1>1. UNCHANGED <<cell, dial, held, about, revoked, lost>>
  BY DEF Redeem
<1>2. \A d \in Callbacks : d # c => callback'[d] = callback[d]
  BY <1>0 DEF Redeem, TypeOK
<1>3. CASE newest' = newest /\ callback'[c] # "redeemed"
  BY <1>0, <1>1, <1>2, <1>3, QuietStep
<1>4. CASE ~(newest' = newest /\ callback'[c] # "redeemed")
  <2> DEFINE g == about[c]
  <2>1. /\ g \in Grants /\ newest[g] = 0 /\ newest' = [newest EXCEPT ![g] = 1]
    BY <1>0, <1>4 DEF Redeem, AboutFlow, TypeOK
  <2> HIDE DEF g
  <2>2. \A h \in Grants : h # g => newest'[h] = newest[h]
    BY <1>0, <2>1 DEF TypeOK
  <2>3. newest'[g] = 1
    BY <1>0, <2>1 DEF TypeOK
  <2>4. cell.grant # g
    BY <1>0, <2>1, EnvelopeFacts, BundleFacts DEF CellMinted, TypeOK
  <2>5. \A r \in Dials : InUse(r) => held[r].grant # g
    BY <1>0, <2>1, BundleFacts DEF HeldMinted, HoldsBundle
  <2>6. \A d \in Callbacks : callback[d] = "redeemed" => about[d] # g
    BY <2>1 DEF FirstAlone
  <2>7. \A r \in Dials : InUse(r) => held[r].grant \in Grants
    BY <1>0, BundleFacts DEF HoldsBundle
  <2>8. CellMinted' /\ BehindIsAwaited'
    BY <1>1, <2>2, <2>4, BundleFacts DEF CellMinted, BehindIsAwaited
  <2>9. DeadForCause'
    <3>1. cell.dead => cell \in Bundles /\ cell.grant \in Grants
      BY <1>0, EnvelopeFacts, BundleFacts DEF TypeOK
    <3> QED BY <1>1, <2>2, <2>4, <3>1 DEF DeadForCause, Refusable
  <2>10. HeldMinted' /\ RefusedForCause'
    BY <1>1, <2>2, <2>5, <2>7 DEF HeldMinted, RefusedForCause, Refusable, InUse
  <2>11. WinnerAlone'
    BY <1>1, <2>2, <2>5, <2>7 DEF WinnerAlone, InUse
  <2>12. FirstAlone'
    <3>1. ASSUME NEW d \in Callbacks, callback'[d] = "redeemed"
          PROVE  /\ newest'[about[d]] = 1
                 /\ cell.grant # about[d]
                 /\ \A r \in Dials : InUse(r) => held[r].grant # about[d]
                 /\ \A e \in Callbacks : e # d /\ callback'[e] = "redeemed"
                                           => about[e] # about[d]
      <4>1. CASE d = c
        BY <1>2, <2>3, <2>4, <2>5, <2>6, <4>1 DEF g
      <4>2. CASE d # c
        <5>1. callback[d] = "redeemed" /\ about[d] # g /\ about[d] \in Grants
          BY <1>0, <1>2, <2>6, <3>1, <4>2 DEF AboutFlow
        <5> QED BY <1>2, <2>2, <5>1 DEF FirstAlone, g
      <4> QED BY <4>1, <4>2
    <3> QED BY <1>1, <3>1 DEF FirstAlone, InUse
  <2> QED BY <2>8, <2>9, <2>10, <2>11, <2>12
<1> QED BY <1>3, <1>4

(* The first bundle of a grant is stored. *)
LEMMA ConnectedStep ==
  ASSUME MintInv, Shape', NEW c \in Callbacks, StoreConnected(c)
  PROVE  MintInv'
<1> USE DEF MintInv, calling, atServer, history
<1>0. TypeOK /\ AboutFlow /\ HoldsBundle
  BY DEF Shape
<1>1. UNCHANGED <<dial, held, about, newest, revoked, lost>>
  BY DEF StoreConnected
<1>2. /\ callback[c] = "redeemed" /\ callback'[c] = "done"
      /\ \A d \in Callbacks : d # c => callback'[d] = callback[d]
      /\ about[c] \in Grants /\ cell' = Bundle(about[c], 1)
  BY <1>0 DEF StoreConnected, TypeOK, AboutFlow
<1>3. /\ cell' \in Bundles /\ cell'.grant = about[c] /\ cell'.gen = 1
      /\ ~cell'.dead
  BY <1>2, BundleFacts, CredentialAssumption
<1>4. CellMinted' /\ DeadForCause' /\ BehindIsAwaited'
  BY <1>1, <1>2, <1>3 DEF FirstAlone, CellMinted, DeadForCause, BehindIsAwaited
<1>5. HeldMinted' /\ RefusedForCause'
  BY <1>1 DEF HeldMinted, InUse, RefusedForCause, Refusable
<1>6. WinnerAlone'
  BY <1>1, <1>2, <1>3 DEF WinnerAlone, FirstAlone, InUse
<1>7. FirstAlone'
  BY <1>1, <1>2, <1>3 DEF FirstAlone, InUse
<1> QED BY <1>4, <1>5, <1>6, <1>7
(* Every step keeps MintInv. *)
LEMMA MintStep == MintInv /\ [Next]_vars => MintInv'
<1> SUFFICES ASSUME MintInv, [Next]_vars PROVE MintInv'
  OBVIOUS
<1>0. Shape /\ Shape'
  BY ShapeStep DEF MintInv
<1> USE DEF atHub, atServer, calling, connecting, history, End
<1>1. TypeOK
  BY <1>0 DEF Shape
<1>2. ASSUME NEW r \in Dials, \/ Dial(r) \/ Rejected(r) \/ StoreRefreshed(r)
                              \/ Flip(r) \/ \E arrives \in BOOLEAN :
                                               Minted(r, arrives)
      PROVE  MintInv'
  BY <1>0, <1>2, DialStep, RejectedStep, StoreStep, FlipStep, MintedStep
<1>3. ASSUME NEW r \in Dials, Unanswered(r) \/ Reread(r) \/ DialDies(r)
      PROVE  MintInv'
  <2>1. /\ UNCHANGED <<cell, newest, callback, about, revoked>>
        /\ lost \subseteq lost'
        /\ \A s \in Dials : s # r => dial'[s] = dial[s] /\ held'[s] = held[s]
        /\ dial'[r] \notin {"exchanging", "rejected", "exchanged"}
        /\ dial[r] = "exchanged" => held[r].grant \in lost'
    BY <1>1, <1>3 DEF Unanswered, Reread, DialDies, TypeOK
  <2> QED BY <1>0, <2>1, QuietStep
<1>4. ASSUME NEW c \in Callbacks, \/ \E honoured \in BOOLEAN :
                                       Redeem(c, honoured)
                                  \/ StoreConnected(c)
      PROVE  MintInv'
  BY <1>0, <1>4, RedeemStep, ConnectedStep
<1>5. ASSUME NEW c \in Callbacks, \/ \E g \in Grants : CallbackReads(c, g)
                                  \/ Consume(c) \/ CallbackDies(c)
      PROVE  MintInv'
  <2>1. /\ UNCHANGED <<cell, newest, revoked, lost, dial, held>>
        /\ \A d \in Callbacks : d # c => /\ callback'[d] = callback[d]
                                         /\ about'[d] = about[d]
        /\ callback'[c] # "redeemed"
    BY <1>1, <1>5 DEF CallbackReads, Consume, CallbackDies, TypeOK
  <2> QED BY <1>0, <2>1, QuietStep
<1>6. ASSUME \/ \E g \in Grants : BeginConnect(g) \/ FlowExpires(g) \/ Revokes(g)
             \/ CleanupStaleState \/ SetHeadersReads \/ Lapses \/ UNCHANGED vars
      PROVE  MintInv'
  <2>1. /\ UNCHANGED <<cell, newest, callback, about, lost, dial, held>>
        /\ revoked \subseteq revoked'
    BY <1>6 DEF BeginConnect, FlowExpires, Revokes, CleanupStaleState,
                SetHeadersReads, Lapses, vars
  <2> QED BY <1>0, <2>1, QuietStep
<1>7. CASE Disconnect \/ SetHeadersStores \/ FlipMode
  <2>1. /\ cell' \in {Empty, Headers}
        /\ UNCHANGED <<dial, held, callback, about, newest, revoked, lost>>
    BY <1>7 DEF Disconnect, SetHeadersStores, FlipMode
  <2> QED BY <1>0, <2>1, WipeStep
<1> QED
  BY <1>2, <1>3, <1>4, <1>5, <1>6, <1>7 DEF Next

LEMMA MintHolds == Spec => []MintInv
BY MintInit, MintStep, PTL DEF Spec

(* A race between two refreshes never costs the owner a Reconnect (refresh's
   compare-and-set): FlagIsDeserved follows from the cause of every flag and
   from the dial that a bundle left behind waits for. *)
THEOREM FlagAlwaysDeserved == Spec => []FlagIsDeserved
<1>1. ASSUME MintInv, cell.dead
      PROVE  cell \in Bundles
  BY <1>1, EnvelopeFacts DEF MintInv, Shape, TypeOK
<1>2. ASSUME MintInv, cell.dead, Honoured(cell.grant)
      PROVE  \E r \in Dials : /\ dial[r] = "exchanged"
                              /\ held[r].grant = cell.grant
                              /\ held[r].gen > cell.gen
  <2>1. cell \in Bundles /\ cell.gen < newest[cell.grant]
    BY <1>2, EnvelopeFacts
       DEF MintInv, Shape, TypeOK, DeadForCause, Refusable, Honoured
  <2>2. PICK r \in Dials : dial[r] = "exchanged" /\ held[r].grant = cell.grant
    BY <1>2, <2>1 DEF MintInv, BehindIsAwaited, Honoured
  <2>3. held[r].gen = newest[cell.grant]
    BY <1>2, <2>2 DEF MintInv, WinnerAlone
  <2>4. cell.gen \in Nat /\ newest[cell.grant] \in Nat
    BY <1>2, <2>1, BundleFacts DEF MintInv, Shape, TypeOK, Generations
  <2> QED BY <2>1, <2>2, <2>3, <2>4
<1>3. MintInv => FlagIsDeserved
  BY <1>1, <1>2 DEF FlagIsDeserved
<1> QED BY <1>3, MintHolds, PTL

(* What one step does to the stored bundle of a grant. *)
LEMMA NeverOlderStep ==
  ASSUME MintInv, [Next]_vars,
         cell.kind = "oauth", cell'.kind = "oauth", cell'.grant = cell.grant
  PROVE  cell'.gen >= cell.gen
<1> USE DEF atHub, atServer, calling, connecting, history, End
<1>1. Shape /\ TypeOK /\ HoldsBundle /\ AboutFlow
  BY DEF MintInv, Shape
<1>2. cell \in Bundles /\ cell.gen \in Nat /\ cell.gen <= newest[cell.grant]
  BY <1>1, EnvelopeFacts, BundleFacts DEF MintInv, CellMinted, TypeOK
<1>3. CASE cell' = cell
  BY <1>2, <1>3
<1>4. ASSUME NEW r \in Dials, StoreRefreshed(r) PROVE cell'.gen >= cell.gen
  <2>1. cell' = held[r] /\ held[r].gen = newest[held[r].grant]
    BY <1>4 DEF StoreRefreshed, MintInv, WinnerAlone
  <2>2. held[r].gen \in Nat
    BY <1>1, <1>4, BundleFacts DEF StoreRefreshed, HoldsBundle, InUse
  <2> QED BY <1>2, <2>1, <2>2
<1>5. ASSUME NEW r \in Dials, Flip(r) PROVE cell'.gen >= cell.gen
  <2>1. cell' = cell \/ cell' = [cell EXCEPT !.dead = TRUE]
    BY <1>5 DEF Flip
  <2>2. cell'.gen = cell.gen
    BY <1>2, <2>1, BundleFacts
  <2> QED BY <1>2, <2>2
<1>6. ASSUME NEW c \in Callbacks, StoreConnected(c) PROVE cell'.gen >= cell.gen
  <2>1. callback[c] = "redeemed" /\ cell' = Bundle(about[c], 1)
    BY <1>6 DEF StoreConnected
  <2>2. about[c] # cell.grant /\ cell'.grant = about[c]
    BY <1>1, <2>1, BundleFacts, CredentialAssumption
       DEF MintInv, FirstAlone, AboutFlow
  <2> QED BY <2>2
<1>7. CASE Disconnect \/ SetHeadersStores \/ FlipMode
  <2>1. cell'.kind # "oauth"
    BY <1>7 DEF Disconnect, SetHeadersStores, FlipMode, Empty, Headers
  <2> QED BY <2>1
<1>8. CASE \/ \E r \in Dials :
                \/ Dial(r) \/ Rejected(r) \/ Unanswered(r) \/ Reread(r)
                \/ DialDies(r) \/ \E arrives \in BOOLEAN : Minted(r, arrives)
           \/ \E c \in Callbacks :
                \/ \E g \in Grants : CallbackReads(c, g)
                \/ \E honoured \in BOOLEAN : Redeem(c, honoured)
                \/ Consume(c) \/ CallbackDies(c)
           \/ \E g \in Grants : BeginConnect(g) \/ FlowExpires(g) \/ Revokes(g)
           \/ CleanupStaleState \/ SetHeadersReads \/ Lapses
           \/ UNCHANGED vars
  <2>1. cell' = cell
    BY <1>8 DEF Dial, Rejected, Unanswered, Reread, DialDies, Minted,
       CallbackReads, Redeem, Consume, CallbackDies, BeginConnect, FlowExpires,
       Revokes, CleanupStaleState, SetHeadersReads, Lapses, vars
  <2> QED BY <2>1, <1>3
<1> QED
  BY <1>4, <1>5, <1>6, <1>7, <1>8 DEF Next

(* A bundle never gives way to an older one of its grant (refresh, store,
   handleCallback): what is about to be stored is the newest there is. *)
THEOREM NeverGoesBack == Spec => NeverOlder
<1>1. MintInv /\ [Next]_vars =>
        [cell.kind = "oauth" /\ cell'.kind = "oauth" /\ cell'.grant = cell.grant
           => cell'.gen >= cell.gen]_vars
  BY NeverOlderStep
<1> QED BY <1>1, MintHolds, PTL DEF Spec, NeverOlder

-----------------------------------------------------------------------------
(* A disconnect that no exchange outlives *)

(* Some dial is with the AS, or has its answer still to store. *)
Exchanging == \E r \in Dials : dial[r] \in {"exchanging", "exchanged"}

(* The column is emptied while no exchange is under way. *)
QuietDisconnect == cell # Empty /\ cell' = Empty => ~Exchanging

EmptyIsQuiet == cell = Empty => ~Exchanging

(* No exchange starts over an empty column. *)
LEMMA EmptyStep ==
  Shape /\ EmptyIsQuiet /\ QuietDisconnect /\ [Next]_vars => EmptyIsQuiet'
<1> SUFFICES ASSUME Shape, EmptyIsQuiet, QuietDisconnect, [Next]_vars,
                    cell' = Empty
             PROVE  ~Exchanging'
  BY DEF EmptyIsQuiet
<1> USE DEF atHub, atServer, calling, connecting, history
<1>0. ~Exchanging /\ TypeOK
  BY DEF EmptyIsQuiet, QuietDisconnect, Shape
<1>1. ASSUME NEW r \in Dials, NEW how, how \notin {"exchanging", "exchanged"}, End(r, how)
      PROVE  ~Exchanging'
  BY <1>0, <1>1 DEF End, Exchanging, TypeOK
<1>2. ASSUME NEW r \in Dials, Dial(r) PROVE ~Exchanging'
  <2>1. cell = Empty
    BY <1>2 DEF Dial
  <2>2. ~Usable(cell)
    BY <1>0, <2>1 DEF Usable, Empty, TypeOK
  <2> QED BY <1>1, <1>2, <2>2 DEF Dial
<1>3. ASSUME NEW r \in Dials, NEW arrives \in BOOLEAN, Minted(r, arrives)
      PROVE  FALSE
  BY <1>0, <1>3 DEF Minted, Exchanging
<1>4. CASE UNCHANGED dial
  BY <1>0, <1>4 DEF Exchanging
<1>5. CASE \E r \in Dials : \/ Rejected(r) \/ Unanswered(r) \/ StoreRefreshed(r)
                           \/ Flip(r) \/ Reread(r) \/ DialDies(r)
  BY <1>1, <1>5 DEF Rejected, Unanswered, StoreRefreshed, Flip, Reread, DialDies
<1> QED
  BY <1>2, <1>3, <1>4, <1>5
     DEF Next, CallbackReads, Redeem, Consume, StoreConnected, CallbackDies,
         BeginConnect, FlowExpires, Revokes, CleanupStaleState, Disconnect,
         SetHeadersReads, SetHeadersStores, FlipMode, Lapses, vars

(* A disconnect, or a change of mode, that meets no exchange of the app with
   its AS holds: nothing connects the app again but Connect or setHeaders. *)
THEOREM QuietDisconnectHolds == Spec /\ [][QuietDisconnect]_vars => DisconnectHolds
<1> DEFINE Holds == cell = Empty /\ cell' # Empty
                      => SetHeadersStores \/ \E c \in Callbacks : StoreConnected(c)
<1>1. Init => EmptyIsQuiet
  BY DEF Init, EmptyIsQuiet, Exchanging
<1>2. Shape /\ EmptyIsQuiet /\ [Next]_vars => Holds
  <2> SUFFICES ASSUME Shape, EmptyIsQuiet, [Next]_vars,
                      cell = Empty, cell' # Empty,
                      ~SetHeadersStores, ~ \E c \in Callbacks : StoreConnected(c)
               PROVE  FALSE
    OBVIOUS
  <2>1. PICK r \in Dials : StoreRefreshed(r) \/ Flip(r)
    BY DEF Next, Dial, Rejected, Unanswered, Reread, DialDies, Minted,
       CallbackReads, Redeem, Consume, CallbackDies, BeginConnect, FlowExpires,
       Revokes, CleanupStaleState, Disconnect, SetHeadersReads, FlipMode, Lapses,
       vars, atHub, atServer, calling, connecting, history
  <2>2. dial[r] # "exchanged"
    BY DEF EmptyIsQuiet, Exchanging
  <2>3. Flip(r) /\ held[r] = Empty
    BY <2>1, <2>2 DEF StoreRefreshed, Flip
  <2>4. held[r] \in Bundles
    BY <2>3 DEF Flip, Shape, HoldsBundle, InUse
  <2> QED BY <2>3, <2>4, EnvelopeFacts
<1>3. EmptyIsQuiet /\ UNCHANGED vars => EmptyIsQuiet'
  BY DEF EmptyIsQuiet, Exchanging, vars, atHub, calling
<1> QED BY <1>1, <1>2, <1>3, EmptyStep, ShapeHolds, PTL
        DEF Spec, DisconnectHolds
=============================================================================
