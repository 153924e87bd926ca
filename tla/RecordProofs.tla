---------------------------- MODULE RecordProofs ----------------------------
(***************************************************************************)
(* Proofs about four kinds of record of the hub.  OauthConnection, for     *)
(* every number of clients, agents, consent POSTs and revocations: no      *)
(* consent is left stranded.  AuditExport, for every number of writers,    *)
(* rows and chunks, every retention and every clock: the export is         *)
(* complete and descending.  RoleDrift, for every number of registrations  *)
(* and patterns: a granted role is not widened in silence.                 *)
(* TypescriptNames, for every set of identities, names and writers and     *)
(* every generated candidate: a name means one identity for ever.          *)
(***************************************************************************)
EXTENDS OauthConnection, AuditExport, RoleDrift, TypescriptNames,
        WellFoundedInduction, FiniteSetTheorems, TLAPS

-----------------------------------------------------------------------------
(* Connections of inbound OAuth *)

(* A POST that still will bind k, or record that it could not. *)
OcWillBind(k) ==
  \E p \in OcPosts :
    /\ ocPost[p].client = k
    /\ \/ ocPost[p].place \in {"accepted", "owned", "again"}
       \/ ocPost[p].place = "fresh" /\ ocBinding[k] = OcNoRow

OcWillDrop(k) ==
  \E r \in OcRevokes : ocRevoke[r].client = k /\ ocRevoke[r].place = "tombstoned"

(* Stronger than OcNoStranding: a POST about to insert is no help where a row
   stands, since its INSERT is refused there. *)
OcCovered(k) ==
  k \in ocConsent /\ ~OcLive(k) /\ k \notin ocCut => OcWillBind(k) \/ OcWillDrop(k)

OcInv == OcTypeOK /\ \A k \in OcClients : OcCovered(k)

LEMMA OcInvStrong == OcInv => OcNoStranding
  BY DEF OcInv, OcTypeOK, OcNoStranding, OcStranded, OcUnderWay, OcCovered, OcWillBind,
         OcWillDrop

LEMMA OcInitInv == OcInit => OcInv
  BY DEF OcInit, OcInv, OcTypeOK, OcCovered, OcIdlePost

(* Every step keeps the types. *)
LEMMA OcNextType == OcTypeOK /\ [OcNext]_ocVars => OcTypeOK'
<1> SUFFICES ASSUME OcTypeOK, [OcNext]_ocVars PROVE OcTypeOK'
  OBVIOUS
<1> USE DEF OcTypeOK, OcAt, OcTo, OcPostPlaces, OcIdlePost, OcIdleRevoke, OcRows
<1>1. ASSUME NEW p \in OcPosts,
             OcScreen(p) \/ OcResolves(p) \/ OcAccepts(p) \/ OcOwned(p) \/ OcSelects(p)
               \/ OcPostDies(p)
      PROVE OcTypeOK'
  <2>1. CASE OcScreen(p)
    BY <2>1 DEF OcScreen
  <2>2. CASE OcResolves(p)
    BY <2>2 DEF OcResolves
  <2>3. CASE OcAccepts(p)
    BY <2>3 DEF OcAccepts
  <2>4. CASE OcOwned(p)
    BY <2>4 DEF OcOwned
  <2>5. CASE OcSelects(p)
    <3>1. ocPost[p].client \in OcClients /\ ocPost[p].agent \in OcAgents
      BY <2>5 DEF OcSelects
    <3>2. ocBinding[ocPost[p].client].id \in OcPosts \cup {OcNone}
      BY <3>1 DEF OcNoRow
    <3>3. /\ ocPost' = [ocPost EXCEPT ![p] =
               [place |-> IF ocBinding[ocPost[p].client].id = OcNone
                            THEN "fresh" ELSE "again",
                client |-> ocPost[p].client, agent |-> ocPost[p].agent,
                row |-> ocBinding[ocPost[p].client].id]]
          /\ UNCHANGED <<ocAgents, ocBinding, ocConsent, ocRevoke, ocCut>>
      BY <2>5 DEF OcSelects
    <3> QED
      BY <3>1, <3>2, <3>3
  <2>6. CASE OcPostDies(p)
    BY <2>6 DEF OcPostDies
  <2> QED
    BY <1>1, <2>1, <2>2, <2>3, <2>4, <2>5, <2>6
<1>2. ASSUME NEW p \in OcPosts, OcInserts(p) \/ OcRebinds(p) PROVE OcTypeOK'
  <2>1. ocPost[p].client \in OcClients /\ ocPost[p].agent \in OcAgents
    BY <1>2 DEF OcInserts, OcRebinds
  <2>2. \/ UNCHANGED ocBinding
        \/ \E row \in OcPosts : OcBinds(ocPost[p].client, row, ocPost[p].agent)
    <3>1. CASE OcInserts(p)
      BY <3>1 DEF OcInserts
    <3>2. CASE OcRebinds(p)
      <4>1. ocPost[p].row \in OcPosts
        BY <3>2 DEF OcRebinds
      <4> QED
        BY <3>2, <4>1 DEF OcRebinds
    <3> QED
      BY <1>2, <3>1, <3>2
  <2>3. ocBinding' \in [OcClients -> OcRows \cup {OcNoRow}]
    <3>1. ocBinding \in [OcClients -> OcRows \cup {OcNoRow}]
      OBVIOUS
    <3>2. ASSUME NEW row \in OcPosts, OcBinds(ocPost[p].client, row, ocPost[p].agent)
          PROVE ocBinding' \in [OcClients -> OcRows \cup {OcNoRow}]
      <4>1. [id |-> row, agent |-> ocPost[p].agent, revoked |-> FALSE] \in OcRows
        BY <2>1
      <4> HIDE DEF OcRows, OcTypeOK
      <4> QED
        BY <2>1, <3>1, <3>2, <4>1 DEF OcBinds
    <3> QED
      BY <2>2, <3>1, <3>2
  <2>4. ocCut' \subseteq OcClients
    BY <1>2, <2>1 DEF OcInserts, OcRebinds, OcBinds
  <2>5. UNCHANGED <<ocAgents, ocConsent, ocRevoke>> /\ OcTo(p, "answered")
    BY <1>2 DEF OcInserts, OcRebinds
  <2> QED
    BY <2>1, <2>3, <2>4, <2>5
<1>3. ASSUME NEW r \in OcRevokes,
             OcRevokeReads(r) \/ OcDropsConsent(r) \/ OcRevokeDies(r)
      PROVE OcTypeOK'
  <2>1. CASE OcRevokeReads(r)
    BY <2>1 DEF OcRevokeReads
  <2>2. CASE OcDropsConsent(r)
    BY <2>2 DEF OcDropsConsent
  <2>3. CASE OcRevokeDies(r)
    BY <2>3 DEF OcRevokeDies
  <2> QED
    BY <1>3, <2>1, <2>2, <2>3
<1>4. ASSUME NEW r \in OcRevokes, OcTombstones(r) PROVE OcTypeOK'
  <2>1. ocRevoke[r].client \in OcClients
    BY <1>4 DEF OcTombstones
  <2>2. ocBinding' \in [OcClients -> OcRows \cup {OcNoRow}]
    <3>1. CASE ocBinding[ocRevoke[r].client] = OcNoRow
      <4>1. ocRevoke[r].row \in OcPosts
        BY <1>4 DEF OcTombstones
      <4> QED
        BY <1>4, <3>1, <4>1, OcConstantsAssumption DEF OcTombstones, OcNoRow
    <3>2. CASE ocBinding[ocRevoke[r].client] # OcNoRow
      <4>1. [ocBinding[ocRevoke[r].client] EXCEPT !.revoked = TRUE] \in OcRows
        BY <2>1, <3>2
      <4> QED
        BY <1>4, <2>1, <3>2, <4>1 DEF OcTombstones
    <3> QED
      BY <3>1, <3>2
  <2> QED
    BY <1>4, <2>2 DEF OcTombstones
<1>5. ASSUME NEW a \in OcAgents, OcDeletesAgent(a) PROVE OcTypeOK'
  BY <1>5 DEF OcDeletesAgent
<1>6. CASE UNCHANGED ocVars
  BY <1>6 DEF ocVars
<1> QED
  BY <1>1, <1>2, <1>3, <1>4, <1>5, <1>6 DEF OcNext, OcDone

(* Steps of a consent POST. *)
LEMMA OcPostCovers ==
  ASSUME OcInv, OcTypeOK', NEW p \in OcPosts, NEW k \in OcClients,
         OcScreen(p) \/ OcResolves(p) \/ OcAccepts(p) \/ OcOwned(p) \/ OcSelects(p)
           \/ OcInserts(p) \/ OcRebinds(p) \/ OcPostDies(p)
  PROVE  OcCovered(k)'
<1> USE DEF OcInv, OcTypeOK, OcAt, OcTo, OcPostPlaces, OcIdlePost, OcRows, OcNoRow, OcCovered, OcLive
<1>1. UNCHANGED ocRevoke
  BY DEF OcScreen, OcResolves, OcAccepts, OcOwned, OcSelects, OcInserts, OcRebinds, OcPostDies
<1>2. OcWillDrop(k) => OcWillDrop(k)'
  BY <1>1 DEF OcWillDrop
<1>3. \A q \in OcPosts \ {p} : ocPost'[q] = ocPost[q]
  BY DEF OcScreen, OcResolves, OcAccepts, OcOwned, OcSelects, OcInserts, OcRebinds, OcPostDies
<1>4. ASSUME UNCHANGED <<ocBinding, ocConsent, ocCut>>,
             ocPost[p].place \notin {"accepted", "owned", "fresh", "again"}
      PROVE OcCovered(k)'
  BY <1>2, <1>3, <1>4 DEF OcWillBind
<1>5. CASE OcScreen(p) \/ OcResolves(p)
  BY <1>4, <1>5 DEF OcScreen, OcResolves
<1>6. CASE OcAccepts(p)
  <2>1. CASE OcTo(p, "answered") /\ UNCHANGED ocConsent
    BY <1>4, <1>6, <2>1 DEF OcAccepts
  <2>2. CASE OcTo(p, "accepted") /\ ocConsent' = ocConsent \cup {ocPost[p].client}
    <3>1. ocPost'[p].place = "accepted" /\ ocPost'[p].client = ocPost[p].client
      BY <1>6, <2>2 DEF OcAccepts
    <3>2. CASE k = ocPost[p].client
      BY <3>1, <3>2 DEF OcWillBind
    <3>3. CASE k # ocPost[p].client
      BY <1>2, <1>3, <1>6, <2>2, <3>3 DEF OcAccepts, OcWillBind
    <3> QED
      BY <3>2, <3>3
  <2> QED
    BY <1>6, <2>1, <2>2 DEF OcAccepts
<1>7. CASE k # ocPost[p].client
  <2>1. ocBinding'[k] = ocBinding[k] /\ (k \in ocConsent' <=> k \in ocConsent)
    BY <1>7 DEF OcScreen, OcResolves, OcAccepts, OcOwned, OcSelects, OcInserts, OcRebinds,
                OcPostDies, OcBinds
  <2>2. k \in ocCut => k \in ocCut'
    BY <1>7 DEF OcScreen, OcResolves, OcAccepts, OcOwned, OcSelects, OcInserts, OcRebinds,
                OcPostDies, OcBinds
  <2> QED
    BY <1>2, <1>3, <1>7, <2>1, <2>2 DEF OcWillBind
<1>8. CASE k = ocPost[p].client /\ OcSelects(p)
  <2>1. ocBinding[k].id = OcNone => ocBinding[k] = OcNoRow
    BY OcConstantsAssumption
  <2>2. /\ ocPost'[p].client = k
        /\ ocPost'[p].place = IF ocBinding[k].id = OcNone THEN "fresh" ELSE "again"
        /\ UNCHANGED <<ocBinding, ocConsent, ocCut>>
    BY <1>8 DEF OcSelects
  <2>3. OcWillBind(k)'
    BY <2>1, <2>2 DEF OcWillBind
  <2> QED
    BY <2>3
<1>9. CASE k = ocPost[p].client /\ OcOwned(p)
  BY <1>2, <1>3, <1>9 DEF OcOwned, OcWillBind
<1>10. CASE k = ocPost[p].client /\ OcInserts(p)
  <2>1. CASE ocBinding[k] = OcNoRow
    BY <1>10, <2>1 DEF OcInserts, OcBinds
  <2>2. CASE ocBinding[k] # OcNoRow
    BY <1>2, <1>3, <1>10, <2>2 DEF OcInserts, OcWillBind
  <2> QED
    BY <2>1, <2>2
<1>11. CASE k = ocPost[p].client /\ OcRebinds(p)
  <2>1. CASE OcBinds(k, ocPost[p].row, ocPost[p].agent)
    <3>1. ~ocBinding'[k].revoked
      BY <2>1 DEF OcBinds
    <3> QED
      BY <3>1
  <2>2. CASE ~OcBinds(k, ocPost[p].row, ocPost[p].agent)
    BY <1>11, <2>2 DEF OcRebinds
  <2> QED
    BY <2>1, <2>2
<1>12. CASE k = ocPost[p].client /\ OcPostDies(p)
  <2>1. CASE ocPost[p].place \in {"accepted", "owned", "fresh", "again"}
    BY <1>12, <2>1 DEF OcPostDies
  <2>2. CASE ocPost[p].place \notin {"accepted", "owned", "fresh", "again"}
    BY <1>4, <1>12, <2>2 DEF OcPostDies
  <2> QED
    BY <2>1, <2>2
<1> QED
  BY <1>5, <1>6, <1>7, <1>8, <1>9, <1>10, <1>11, <1>12

(* Steps of a revocation. *)
LEMMA OcRevokeCovers ==
  ASSUME OcInv, OcTypeOK', NEW r \in OcRevokes, NEW k \in OcClients,
         OcRevokeReads(r) \/ OcTombstones(r) \/ OcDropsConsent(r) \/ OcRevokeDies(r)
  PROVE  OcCovered(k)'
<1> USE DEF OcInv, OcTypeOK, OcIdleRevoke, OcRows, OcNoRow, OcCovered, OcLive
<1>1. UNCHANGED ocPost
  BY DEF OcRevokeReads, OcTombstones, OcDropsConsent, OcRevokeDies
<1>2. \A q \in OcRevokes \ {r} : ocRevoke'[q] = ocRevoke[q]
  BY DEF OcRevokeReads, OcTombstones, OcDropsConsent, OcRevokeDies
<1>3. CASE OcRevokeReads(r)
  BY <1>1, <1>2, <1>3 DEF OcRevokeReads, OcWillBind, OcWillDrop
<1>4. CASE OcTombstones(r)
  <2>1. ocRevoke'[r].place = "tombstoned" /\ ocRevoke'[r].client = ocRevoke[r].client
    BY <1>4 DEF OcTombstones
  <2>2. CASE k = ocRevoke[r].client
    BY <2>1, <2>2 DEF OcWillDrop
  <2>3. CASE k # ocRevoke[r].client
    BY <1>1, <1>2, <1>4, <2>3 DEF OcTombstones, OcWillBind, OcWillDrop
  <2> QED
    BY <2>2, <2>3
<1>5. CASE OcDropsConsent(r)
  BY <1>1, <1>2, <1>5 DEF OcDropsConsent, OcWillBind, OcWillDrop
<1>6. CASE OcRevokeDies(r)
  BY <1>1, <1>2, <1>6 DEF OcRevokeDies, OcWillBind, OcWillDrop
<1> QED
  BY <1>3, <1>4, <1>5, <1>6

(* The invariant is inductive. *)
LEMMA OcNextInv == OcInv /\ [OcNext]_ocVars => OcInv'
<1> SUFFICES ASSUME OcInv, [OcNext]_ocVars PROVE OcInv'
  OBVIOUS
<1>1. OcTypeOK'
  BY OcNextType DEF OcInv
<1>2. ASSUME NEW k \in OcClients PROVE OcCovered(k)'
  <2>1. CASE \E p \in OcPosts :
               OcScreen(p) \/ OcResolves(p) \/ OcAccepts(p) \/ OcOwned(p)
                 \/ OcSelects(p) \/ OcInserts(p) \/ OcRebinds(p) \/ OcPostDies(p)
    BY <1>1, <2>1, OcPostCovers
  <2>2. CASE \E r \in OcRevokes :
               OcRevokeReads(r) \/ OcTombstones(r) \/ OcDropsConsent(r) \/ OcRevokeDies(r)
    BY <1>1, <2>2, OcRevokeCovers
  <2>3. CASE \E a \in OcAgents : OcDeletesAgent(a)
    BY <2>3 DEF OcDeletesAgent, OcInv, OcTypeOK, OcCovered, OcLive, OcWillBind, OcWillDrop
  <2>4. CASE UNCHANGED ocVars
    BY <2>4 DEF ocVars, OcInv, OcCovered, OcLive, OcWillBind, OcWillDrop
  <2> QED
    BY <2>1, <2>2, <2>3, <2>4 DEF OcNext, OcDone
<1> QED
  BY <1>1, <1>2 DEF OcInv

(* The tables and the calls under way have their types: a binding is a row of
   a known agent, tombstoned or not, or none. *)
THEOREM OcTypeCorrect == OcSpec => []OcTypeOK
<1>1. OcInv => OcTypeOK
  BY DEF OcInv
<1> QED
  BY <1>1, OcInitInv, OcNextInv, PTL DEF OcSpec

(* However consent POSTs and revocations cross, none leaves the provider's
   consent over a dead binding; only a worker that died or an agent that was
   deleted does. *)
THEOREM OcNeverStrands == OcSpec => []OcNoStranding
  BY OcInvStrong, OcInitInv, OcNextInv, PTL DEF OcSpec

-----------------------------------------------------------------------------
(* The export of the audit ledger *)

(* Nothing matched that is not numbered below the next row: a row appended
   after the export began is never one of the rows it owes. *)
AeMatchIsOld ==
  /\ \A k \in aeMatch : k.ts <= aeUntil
  /\ \A k \in aeMatch \cup aeRows : k.id < aeNext

(* Before the first pull nothing is written. *)
AeNoneWritten ==
  aeState = "none" => aeChunk = {} /\ aeEarlier = {} /\ aeAfter = AeNothing

(* The last key emitted is the lowest of those emitted. *)
AeAfterIsLowest ==
  \A k \in aeChunk \cup aeEarlier :
    aeAfter # AeNothing /\ (k = aeAfter \/ AeBelow(aeAfter, k))

(* While the stream is open, a row owed is written or still ahead. *)
AeOwed ==
  aeState # "closed" =>
    \A k \in aeMatch \cap aeRows : k \in aeChunk \cup aeEarlier \/ AeSeek(k, aeAfter)

AeInv ==
  /\ AeTypeOK /\ AeMatchIsOld /\ AeNoneWritten /\ AeAfterIsLowest /\ AeOwed
  /\ AeComplete /\ AeDescends

(* The export's order is a strict total order on keys (ORDER BY ts DESC, id
   DESC). *)
LEMMA AeOrder ==
  \A i, j, k \in AeKeys :
    /\ AeBelow(i, j) /\ AeBelow(j, k) => AeBelow(i, k)
    /\ ~AeBelow(i, i)
    /\ i = j \/ AeBelow(i, j) \/ AeBelow(j, i)
<1>1. TAKE i, j, k \in AeKeys
<1>2. i.ts \in Nat /\ i.id \in Nat /\ j.ts \in Nat /\ j.id \in Nat
      /\ k.ts \in Nat /\ k.id \in Nat
  BY DEF AeKeys
<1>3. i.ts = j.ts /\ i.id = j.id => i = j
  BY DEF AeKeys
<1> QED
  BY <1>2, <1>3 DEF AeBelow

(* The sentinel of the first pull is no key. *)
LEMMA AeNothingIsNoKey == AeNothing \notin AeKeys
  BY DEF AeNothing, AeKeys, AeIdle

(* Initially nothing is written and nothing is owed. *)
LEMMA AeInitInv == AeInit => AeInv
  BY DEF AeInit, AeInv, AeTypeOK, AeMatchIsOld, AeNoneWritten, AeAfterIsLowest,
         AeOwed, AeComplete, AeDescends, AeNothing, AeIdle

(* A pull keeps the invariant: what it does not take of its candidates lies
   below what it takes, so the seek of the next pull still reaches it. *)
LEMMA AePullsInv == AeInv /\ AePulls => AeInv'
<1> SUFFICES ASSUME AeInv, AePulls PROVE AeInv'
  OBVIOUS
<1> USE DEF AeInv
<1>1. /\ aeRows' = aeRows /\ aeMatch' = aeMatch /\ aeNow' = aeNow /\ aeNext' = aeNext
      /\ aeUntil' = aeUntil /\ aeWriting' = aeWriting
      /\ aeEarlier' = aeEarlier \cup aeChunk
      /\ aeState = "open"
  BY DEF AePulls
<1>2. aeChunk' \subseteq AeCandidates /\ AeIsChunk(aeChunk')
  BY DEF AePulls
<1>3. \A k \in AeCandidates : k \in aeRows /\ k \in AeKeys /\ AeSeek(k, aeAfter)
  BY DEF AeCandidates, AeTypeOK
<1>4. aeChunk' \subseteq AeKeys /\ aeChunk \cup aeEarlier \subseteq AeKeys
  BY <1>2, <1>3 DEF AeTypeOK
<1>5. \/ aeChunk' = {} /\ aeAfter' = aeAfter
      \/ /\ aeAfter' \in aeChunk'
         /\ \A k \in aeChunk' : k = aeAfter' \/ AeBelow(aeAfter', k)
  BY DEF AePulls
<1>6. AeTypeOK'
  <2>1. aeState' \in {"none", "open", "closed"}
    BY DEF AePulls
  <2> QED
    BY <1>1, <1>4, <1>5, <2>1 DEF AeTypeOK
<1>7. AeMatchIsOld' /\ AeNoneWritten'
  BY <1>1 DEF AeMatchIsOld, AeNoneWritten, AePulls
<1>8. \A j \in aeChunk', k \in aeChunk \cup aeEarlier : AeBelow(j, k)
  <2> TAKE j \in aeChunk', k \in aeChunk \cup aeEarlier
  <2>1. aeAfter # AeNothing /\ (k = aeAfter \/ AeBelow(aeAfter, k))
    BY DEF AeAfterIsLowest
  <2>2. AeBelow(j, aeAfter)
    BY <1>2, <1>3, <2>1 DEF AeSeek
  <2>3. aeAfter \in AeKeys /\ j \in AeKeys /\ k \in AeKeys
    BY <1>4, <2>1 DEF AeTypeOK
  <2> QED
    BY <2>1, <2>2, <2>3, AeOrder
<1>9. AeDescends'
  BY <1>1, <1>8 DEF AeDescends
<1>10. AeAfterIsLowest'
  <2>1. CASE aeChunk' = {} /\ aeAfter' = aeAfter
    BY <1>1, <2>1 DEF AeAfterIsLowest
  <2>2. CASE /\ aeAfter' \in aeChunk'
             /\ \A k \in aeChunk' : k = aeAfter' \/ AeBelow(aeAfter', k)
    BY <1>1, <1>4, <1>8, <2>2, AeNothingIsNoKey DEF AeAfterIsLowest
  <2> QED
    BY <1>5, <2>1, <2>2
<1>11. \A k \in aeMatch \cap aeRows : k \in aeChunk \cup aeEarlier \/ k \in AeCandidates
  BY <1>1 DEF AeOwed, AeCandidates, AeMatchIsOld
<1>12. AeOwed'
  <2> SUFFICES ASSUME NEW k \in aeMatch \cap aeRows, k \notin aeChunk',
                      k \notin aeChunk \cup aeEarlier
               PROVE AeSeek(k, aeAfter')
    BY <1>1 DEF AeOwed
  <2>1. k \in AeCandidates \ aeChunk'
    BY <1>11
  <2>2. \A s \in aeChunk' : AeBelow(k, s)
    BY <1>2, <2>1 DEF AeIsChunk
  <2> QED
    BY <1>3, <1>5, <2>1, <2>2 DEF AeSeek
<1>13. AeComplete'
  <2> SUFFICES ASSUME aeState' = "closed" PROVE aeChunk' = AeCandidates
    BY <1>1, <1>11 DEF AeComplete
  <2>1. Cardinality(aeChunk') < AeChunkRows
    BY DEF AePulls
  <2>2. Cardinality(aeChunk') # AeChunkRows
    BY <2>1, AuditExportAssumption
  <2> QED
    BY <1>2, <2>2 DEF AeIsChunk
<1> QED
  BY <1>6, <1>7, <1>9, <1>10, <1>12, <1>13

(* Every other step leaves what was written alone, and the rows that are owed
   only shrink. *)
LEMMA AeOthersInv ==
  AeInv /\ ((\E w \in AeWriters : AeBinds(w) \/ AeInserts(w)) \/ AePrunes \/ AeTick)
    => AeInv'
<1> SUFFICES ASSUME AeInv,
                    (\E w \in AeWriters : AeBinds(w) \/ AeInserts(w))
                      \/ AePrunes \/ AeTick
             PROVE AeInv'
  OBVIOUS
<1> USE DEF AeInv
<1>1. UNCHANGED aeExportVars
  BY DEF AeBinds, AeInserts, AePrunes, AeTick
<1>2. AeTypeOK'
  <2>1. CASE \E w \in AeWriters : AeBinds(w)
    BY <2>1 DEF AeBinds, AeTypeOK, aeExportVars
  <2>2. CASE \E w \in AeWriters : AeInserts(w)
    <3> PICK w \in AeWriters : AeInserts(w)
      BY <2>2
    <3>1. aeWriting[w] \in Nat
      BY DEF AeInserts, AeTypeOK
    <3>2. [ts |-> aeWriting[w], id |-> aeNext] \in AeKeys
      BY <3>1 DEF AeTypeOK, AeKeys
    <3> QED
      BY <3>2 DEF AeInserts, AeTypeOK, aeExportVars
  <2>3. CASE AePrunes
    BY <2>3 DEF AePrunes, AeTypeOK, aeExportVars
  <2>4. CASE AeTick
    BY <2>4 DEF AeTick, AeTypeOK, aeExportVars
  <2> QED
    BY <2>1, <2>2, <2>3, <2>4
<1>3. aeNext' >= aeNext /\ aeNext' \in Nat /\ aeNext \in Nat
  BY <1>2 DEF AeBinds, AeInserts, AePrunes, AeTick, AeTypeOK
<1>4. aeMatch' \cap aeRows' \subseteq aeMatch \cap aeRows
  <2>1. CASE \E w \in AeWriters : AeInserts(w)
    <3>1. PICK w \in AeWriters : AeInserts(w)
      BY <2>1
    <3>2. \A k \in aeMatch : k.id # aeNext
      BY DEF AeMatchIsOld, AeTypeOK, AeKeys
    <3>3. [ts |-> aeWriting[w], id |-> aeNext] \notin aeMatch
      BY <3>2
    <3> QED
      BY <1>1, <3>1, <3>3 DEF AeInserts, aeExportVars
  <2>2. CASE aeRows' \subseteq aeRows
    BY <1>1, <2>2 DEF aeExportVars
  <2> QED
    BY <2>1, <2>2 DEF AeBinds, AePrunes, AeTick
<1>5. AeMatchIsOld'
  <2>1. \A k \in aeMatch \cup aeRows : k.id \in Nat /\ k.id < aeNext
    BY DEF AeTypeOK, AeKeys, AeMatchIsOld
  <2>2. \A k \in aeMatch' : k.ts <= aeUntil'
    BY <1>1 DEF AeMatchIsOld, aeExportVars
  <2>3. CASE \E w \in AeWriters : AeInserts(w)
    BY <1>1, <1>3, <2>1, <2>2, <2>3 DEF AeMatchIsOld, AeInserts, aeExportVars
  <2>4. CASE aeRows' \subseteq aeRows
    BY <1>1, <1>3, <2>1, <2>2, <2>4 DEF AeMatchIsOld, aeExportVars
  <2> QED
    BY <2>3, <2>4 DEF AeBinds, AePrunes, AeTick
<1>6. AeAfterIsLowest' /\ AeDescends' /\ AeNoneWritten'
  BY <1>1 DEF AeAfterIsLowest, AeDescends, AeNoneWritten, aeExportVars
<1>7. AeOwed' /\ AeComplete'
  BY <1>1, <1>4 DEF AeOwed, AeComplete, aeExportVars
<1> QED
  BY <1>2, <1>5, <1>6, <1>7

(* An export begins with nothing written and every row ahead of it. *)
LEMMA AeBeginsInv == AeInv /\ AeBegins => AeInv'
<1> SUFFICES ASSUME AeInv, AeBegins PROVE AeInv'
  OBVIOUS
<1> USE DEF AeInv, AeBegins
<1>1. aeUntil' \in Nat
  BY AuditExportAssumption
<1>2. AeTypeOK'
  BY <1>1 DEF AeTypeOK
<1>3. AeMatchIsOld'
  BY DEF AeMatchIsOld
<1>4. aeChunk' = {} /\ aeEarlier' = {} /\ aeAfter' = AeNothing /\ aeState' = "open"
  BY DEF AeNoneWritten
<1> QED
  BY <1>2, <1>3, <1>4
     DEF AeNoneWritten, AeAfterIsLowest, AeOwed, AeSeek, AeComplete, AeDescends

(* The invariant is inductive. *)
LEMMA AeNextInv == AeInv /\ [AeNext]_aeVars => AeInv'
<1>1. CASE UNCHANGED aeVars
  BY <1>1 DEF aeVars, AeInv, AeTypeOK, AeMatchIsOld, AeNoneWritten, AeAfterIsLowest,
              AeOwed, AeComplete, AeDescends
<1> QED
  BY <1>1, AePullsInv, AeOthersInv, AeBeginsInv DEF AeNext

(* The state has its types: the cursor of the stream is a key of the ledger
   or nothing, and rows are (ts, id) pairs. *)
THEOREM AeTypeCorrect == AeSpec => []AeTypeOK
<1>1. AeInv => AeTypeOK
  BY DEF AeInv
<1> QED
  BY <1>1, AeInitInv, AeNextInv, PTL DEF AeSpec

(* A closed export wrote every row that matched when it was asked for and
   still stands, whatever was appended or pruned between two of its chunks. *)
THEOREM AeExportIsComplete == AeSpec => []AeComplete
<1>1. AeInv => AeComplete
  BY DEF AeInv
<1> QED
  BY <1>1, AeInitInv, AeNextInv, PTL DEF AeSpec

(* An export is newest first across its chunks, and no row is written twice. *)
THEOREM AeExportDescends == AeSpec => []AeDescends
<1>1. AeInv => AeDescends
  BY DEF AeInv
<1> QED
  BY <1>1, AeInitInv, AeNextInv, PTL DEF AeSpec

-----------------------------------------------------------------------------
(* The declared role and its drift rows *)

RdRecord ==
  [place : RdPlaces, declares : SUBSET RdPatterns, before : SUBSET RdPatterns,
   granted : BOOLEAN, widened : SUBSET RdPatterns]

(* Named already, excused, or still to be named. *)
RdCovered == rdKnown \cup rdMissed \cup RdOwed

(* What a registration will not name, because it read it as declared before or
   because nobody held the role when it counted, is covered. *)
RdSafe(held) ==
  /\ held.place \in {"read", "counted"} =>
       held.declares \cap held.before \subseteq RdCovered
  /\ held.place = "counted" /\ ~held.granted =>
       held.declares \subseteq RdCovered

(* Before its UPDATE a registration owes nothing. *)
RdOwesLate(held) == held.place # "stored" => held.widened = {}

RdInv ==
  /\ RdTypeOK
  /\ \A w \in RdRegisters : RdOwesLate(rdRegister[w])
  /\ rdGranted => /\ rdDeclared \subseteq RdCovered
                  /\ \A w \in RdRegisters : RdSafe(rdRegister[w])

LEMMA RdInitInv == RdInit => RdInv
<1> SUFFICES ASSUME RdInit PROVE RdInv
  OBVIOUS
<1>1. RdIdle \in RdRecord /\ RdOwesLate(RdIdle)
  BY DEF RdIdle, RdRecord, RdPlaces, RdOwesLate
<1>2. RdTypeOK
  BY <1>1 DEF RdInit, RdTypeOK, RdRecord, RdGrantIdle
<1> QED
  BY <1>1, <1>2 DEF RdInit, RdInv

LEMMA RdHeld ==
  ASSUME RdInv, NEW w \in RdRegisters
  PROVE  rdRegister[w] \in RdRecord /\ RdOwesLate(rdRegister[w])
BY DEF RdInv, RdTypeOK, RdRecord

(* A step of a registration uncovers nothing when what it owed is owed still,
   known or missed. *)
LEMMA RdStillCovered ==
  ASSUME RdInv, NEW w \in RdRegisters, NEW held \in RdRecord, RdSet(w, held),
         rdRegister[w].widened \subseteq held.widened \cup rdKnown' \cup rdMissed',
         rdKnown \subseteq rdKnown', rdMissed \subseteq rdMissed'
  PROVE  RdCovered \cup held.widened \subseteq RdCovered'
<1>1. rdRegister'[w] = held
  BY DEF RdSet, RdInv, RdTypeOK
<1>2. \A d \in RdRegisters \ {w} : rdRegister'[d] = rdRegister[d]
  BY DEF RdSet, RdInv, RdTypeOK
<1>3. RdOwed \subseteq RdOwed' \cup rdRegister[w].widened
  BY <1>2 DEF RdOwed
<1>4. held.widened \subseteq RdOwed'
  BY <1>1 DEF RdOwed
<1> QED
  BY <1>3, <1>4 DEF RdCovered

LEMMA RdSteps ==
  ASSUME RdInv, NEW w \in RdRegisters, NEW held \in RdRecord, RdSet(w, held),
         RdOwesLate(held),
         rdDeclared' \in SUBSET RdPatterns, rdKnown' \in SUBSET RdPatterns,
         rdMissed' \in SUBSET RdPatterns, UNCHANGED rdOwner,
         rdRegister[w].widened \subseteq held.widened \cup rdKnown' \cup rdMissed',
         rdKnown \subseteq rdKnown', rdMissed \subseteq rdMissed',
         rdGranted => /\ rdDeclared' \subseteq RdCovered \cup held.widened
                      /\ RdSafe(held)
  PROVE  RdInv'
<1>1. RdTypeOK'
  BY DEF RdInv, RdTypeOK, RdSet, RdRecord, rdOwner
<1>2. rdGranted' = rdGranted
  BY DEF rdOwner
<1>3. RdCovered \cup held.widened \subseteq RdCovered'
  BY RdStillCovered
<1>4. \A d \in RdRegisters :
        rdRegister'[d] = held \/ rdRegister'[d] = rdRegister[d]
  BY DEF RdSet, RdInv, RdTypeOK
<1>5. ASSUME NEW d \in RdRegisters
      PROVE  /\ RdOwesLate(rdRegister[d])'
             /\ rdGranted => RdSafe(rdRegister[d])'
  <2>1. PICK then : then = rdRegister'[d]
    OBVIOUS
  <2>2. RdOwesLate(then) /\ (rdGranted => RdSafe(then))
    BY <1>4, <2>1 DEF RdInv
  <2>3. RdSafe(then) => RdSafe(then)'
    BY <1>3 DEF RdSafe
  <2>4. RdOwesLate(rdRegister[d])'
    BY <2>1, <2>2 DEF RdOwesLate
  <2>5. RdSafe(then)' => RdSafe(rdRegister[d])'
    BY <2>1 DEF RdSafe
  <2> QED
    BY <2>2, <2>3, <2>4, <2>5
<1> QED
  BY <1>1, <1>2, <1>3, <1>5 DEF RdInv

LEMMA RdReadsKeeps ==
  ASSUME RdInv, NEW w \in RdRegisters, RdReads(w)
  PROVE  RdInv'
<1>1. PICK declares \in SUBSET RdPatterns :
        RdSet(w, [RdIdle EXCEPT !.place = "read", !.declares = declares,
                                !.before = rdDeclared])
  BY DEF RdReads
<1>2. PICK held : held = [RdIdle EXCEPT !.place = "read", !.declares = declares,
                                        !.before = rdDeclared]
  OBVIOUS
<1>3. /\ held \in RdRecord /\ held.place = "read" /\ held.before = rdDeclared
      /\ held.declares = declares /\ held.widened = {}
  BY <1>2 DEF RdIdle, RdRecord, RdPlaces, RdInv, RdTypeOK
<1>4. rdRegister[w].widened = {}
  BY RdHeld DEF RdReads, RdAt, RdOwesLate
<1>5. rdGranted => rdDeclared \subseteq RdCovered /\ RdSafe(held)
  BY <1>3 DEF RdInv, RdSafe
<1> QED
  BY <1>1, <1>2, <1>3, <1>4, <1>5, RdSteps DEF RdReads, RdOwesLate, RdInv, RdTypeOK

LEMMA RdCountsKeeps ==
  ASSUME RdInv, NEW w \in RdRegisters, RdCounts(w)
  PROVE  RdInv'
<1>1. PICK held : held = [rdRegister[w] EXCEPT !.place = "counted", !.granted = rdGranted]
  OBVIOUS
<1>2. /\ held \in RdRecord /\ held.place = "counted" /\ held.granted = rdGranted
      /\ held.declares = rdRegister[w].declares
      /\ held.before = rdRegister[w].before /\ held.widened = rdRegister[w].widened
  BY <1>1, RdHeld DEF RdRecord, RdPlaces, RdInv, RdTypeOK
<1>3. held.widened = {}
  BY <1>2, RdHeld DEF RdCounts, RdAt, RdOwesLate
<1>4. rdGranted => rdDeclared \subseteq RdCovered /\ RdSafe(held)
  BY <1>2 DEF RdInv, RdSafe, RdCounts, RdAt
<1> QED
  BY <1>1, <1>2, <1>3, <1>4, RdSteps DEF RdCounts, RdOwesLate, RdInv, RdTypeOK

LEMMA RdStoresKeeps ==
  ASSUME RdInv, NEW w \in RdRegisters, RdStores(w)
  PROVE  RdInv'
<1>1. PICK widened : widened = IF rdRegister[w].granted
                                 THEN rdRegister[w].declares \ rdRegister[w].before
                                 ELSE {}
  OBVIOUS
<1>2. PICK held : held = [RdIdle EXCEPT !.place = "stored", !.widened = widened]
  OBVIOUS
<1>3. /\ held \in RdRecord /\ held.place = "stored" /\ held.widened = widened
  BY <1>1, <1>2, RdHeld DEF RdIdle, RdRecord, RdPlaces
<1>4. rdRegister[w].widened = {} /\ rdRegister[w].place = "counted"
  BY RdHeld DEF RdStores, RdAt, RdOwesLate
<1>5. rdDeclared' \in SUBSET RdPatterns
  BY RdHeld DEF RdStores, RdInv, RdTypeOK, RdRecord
<1>6. ASSUME rdGranted
      PROVE  rdDeclared' \subseteq RdCovered \cup held.widened /\ RdSafe(held)
  <2>1. RdSafe(rdRegister[w]) /\ rdDeclared \subseteq RdCovered
    BY <1>6 DEF RdInv
  <2>2. rdRegister[w].declares \subseteq RdCovered \cup widened
    BY <1>1, <1>4, <2>1 DEF RdSafe
  <2> QED
    BY <1>3, <2>1, <2>2 DEF RdStores, RdSafe
<1>7. RdSet(w, held) /\ UNCHANGED <<rdOwner, rdKnown, rdMissed>>
  BY <1>1, <1>2 DEF RdStores, RdAdded
<1> QED
  BY <1>3, <1>4, <1>5, <1>6, <1>7, RdSteps DEF RdOwesLate, RdInv, RdTypeOK

LEMMA RdLeavesKeeps ==
  ASSUME RdInv, NEW w \in RdRegisters, RdReports(w) \/ RdEnds(w)
  PROVE  RdInv'
<1>1. RdIdle \in RdRecord /\ RdOwesLate(RdIdle) /\ RdSafe(RdIdle) /\ RdIdle.widened = {}
  BY DEF RdIdle, RdRecord, RdPlaces, RdOwesLate, RdSafe
<1>2. rdRegister[w].widened \in SUBSET RdPatterns
  BY RdHeld DEF RdRecord
<1>3. /\ RdSet(w, RdIdle) /\ UNCHANGED rdOwner /\ rdDeclared' = rdDeclared
      /\ rdKnown \subseteq rdKnown' /\ rdMissed \subseteq rdMissed'
      /\ rdRegister[w].widened \subseteq rdKnown' \cup rdMissed'
      /\ rdKnown' \in SUBSET RdPatterns /\ rdMissed' \in SUBSET RdPatterns
  BY <1>2 DEF RdReports, RdEnds, RdInv, RdTypeOK
<1>4. PICK held \in RdRecord : held = RdIdle
  BY <1>1
<1>5. rdGranted => rdDeclared \subseteq RdCovered
  BY DEF RdInv
<1>6. rdDeclared \in SUBSET RdPatterns
  BY DEF RdInv, RdTypeOK
<1> QED
  BY <1>1, <1>3, <1>4, <1>5, <1>6, RdSteps

(* The owner's steps: the registrations stand still. *)
LEMMA RdGrantsKeeps ==
  ASSUME RdInv, RdGrants
  PROVE  RdInv'
<1>1. RdStoresNext \in SUBSET RdPatterns
  BY RdHeld DEF RdStoresNext, RdRecord
<1>2. RdTypeOK'
  BY <1>1 DEF RdInv, RdTypeOK, RdGrants, RdGrantIdle
<1>3. rdRegister' = rdRegister /\ rdDeclared' = rdDeclared
  BY DEF RdGrants
<1>4. CASE rdRow /\ ~rdGranted
  <2>1. /\ rdKnown' = rdGrant.role
        /\ rdMissed' = (rdDeclared \ rdGrant.role) \cup RdStoresNext
    BY <1>4 DEF RdGrants
  <2>2. rdDeclared' \subseteq RdCovered' /\ RdStoresNext \subseteq RdCovered'
    BY <1>3, <2>1 DEF RdCovered
  <2>3. \A w \in RdRegisters : rdRegister[w].declares \subseteq RdCovered'
    BY <2>2 DEF RdStoresNext
  <2>4. \A w \in RdRegisters : RdSafe(rdRegister[w])'
    BY <1>3, <2>3 DEF RdSafe
  <2> QED
    BY <1>2, <1>3, <2>2, <2>4 DEF RdInv, RdOwesLate
<1>5. CASE ~(rdRow /\ ~rdGranted)
  BY <1>2, <1>3, <1>5 DEF RdInv, RdGrants, RdOwesLate, RdSafe, RdCovered, RdOwed
<1> QED
  BY <1>4, <1>5

LEMMA RdOwnerKeeps ==
  ASSUME RdInv, RdGrantReads \/ RdRevokes \/ RdDeletes \/ UNCHANGED rdVars
  PROVE  RdInv'
<1>1. UNCHANGED <<rdDeclared, rdRegister, rdKnown, rdMissed>> /\ (rdGranted' => rdGranted)
  BY DEF RdGrantReads, RdRevokes, RdDeletes, rdVars
<1>2. rdRow' \in BOOLEAN /\ rdGranted' \in BOOLEAN
  BY DEF RdInv, RdTypeOK, RdGrantReads, RdRevokes, RdDeletes, rdVars
<1>3. rdGrant' \in [place : {"idle", "read"}, role : SUBSET RdPatterns]
  <2>1. CASE RdGrantReads
    BY <2>1 DEF RdInv, RdTypeOK, RdGrantReads
  <2>2. CASE rdGrant' = rdGrant
    BY <2>2 DEF RdInv, RdTypeOK
  <2> QED
    BY <2>1, <2>2 DEF RdRevokes, RdDeletes, rdVars
<1>4. RdTypeOK'
  BY <1>1, <1>2, <1>3 DEF RdInv, RdTypeOK
<1> QED
  BY <1>1, <1>4 DEF RdInv, RdOwesLate, RdSafe, RdCovered, RdOwed

LEMMA RdNextInv == RdInv /\ [RdNext]_rdVars => RdInv'
BY RdReadsKeeps, RdCountsKeeps, RdStoresKeeps, RdLeavesKeeps, RdGrantsKeeps,
   RdOwnerKeeps
DEF RdNext, RdDone

(* The row, the grant and the registrations under way keep their types. *)
THEOREM RdTypeCorrect == RdSpec => []RdTypeOK
<1>1. RdInv => RdTypeOK
  BY DEF RdInv
<1> QED
  BY <1>1, RdInitInv, RdNextInv, PTL DEF RdSpec

(* RdNothingSilent for every number of registrations and patterns: a granted role
   holds nothing that was not granted, named by a drift row or about to be, but
   for what crossed the grant or was lost with its registration. *)
THEOREM RdNeverSilent == RdSpec => []RdNothingSilent
<1>1. RdInv => RdNothingSilent
  BY DEF RdInv, RdNothingSilent, RdCovered
<1> QED
  BY <1>1, RdInitInv, RdNextInv, PTL DEF RdSpec

-----------------------------------------------------------------------------
(* Reserved TypeScript names *)

TsHolds(rows, i, n) == \E r \in rows : r.id = i /\ r.name = n

(* What a plan made against rows may do to them: activate names that no two
   of its identities share, retire only what is there, and resolve to what is
   there or is being activated. *)
TsHonest(rows, plan) ==
  /\ \A r, s \in plan.activate : r.name = s.name => r.id = s.id
  /\ \A r \in plan.retire : TsHolds(rows, r.id, r.name)
  /\ \A i \in TsIdentities :
       plan.resolved[i] # TsNoName =>
         \/ TsHolds(plan.activate, i, plan.resolved[i])
         \/ TsHolds(rows, i, plan.resolved[i])

TsInv ==
  /\ TsTypeOK /\ TsReserved
  /\ \A w \in TsWriters : TsHonest(tsRows, tsWriter[w].plan)

(* A nonempty set of natural numbers has a least one: what the planner's
   choice among several active names rests on. *)
LEMMA TsLeast == \A S \in SUBSET Nat : S # {} => \E n \in S : \A m \in S : n <= m
<1> TAKE S \in SUBSET Nat
<1> HAVE S # {}
<1> DEFINE R == {p \in Nat \X Nat : p[1] < p[2]}
<1>1. IsWellFoundedOn(R, Nat)
  BY NatLessThanWellFounded DEF OpToRel
<1>2. PICK n \in S : \A m \in S : ~(<<m, n>> \in R)
  <2> HIDE DEF R
  <2> QED
    BY <1>1, WFMin
<1>3. ASSUME NEW m \in S, m < n PROVE FALSE
  <2>1. <<m, n>> \in Nat \X Nat /\ <<m, n>>[1] < <<m, n>>[2]
    BY <1>3
  <2>2. <<m, n>> \in R
    BY <2>1
  <2> QED
    BY <1>2, <2>2
<1> QED
  BY <1>3

(* What intendedAlias() answers is a name or nothing. *)
LEMMA TsIntendedType ==
  ASSUME NEW q \in TsWrites, NEW i \in TsIdentities
  PROVE  TsIntended(q, i) \in TsNames \cup {TsNoName}
  BY DEF TsWrites, TsAliases, TsIntended

(* What the planner answers a member, by the way it came to it. *)
LEMMA TsResolvedFacts ==
  ASSUME NEW rows \in SUBSET TsRowSet, NEW q \in TsWrites, NEW i \in TsIdentities
  PROVE  /\ TsResolved(rows, q)[i] \in TsNames \cup {TsNoName}
         /\ i \in TsExplicit(rows, q) =>
              TsResolved(rows, q)[i] = TsIntended(q, i) /\ TsIntended(q, i) \in TsNames
         /\ i \in TsRevived(rows, q) => TsHolds(rows, i, TsResolved(rows, q)[i])
         /\ i \in TsFresh(rows, q) =>
              TsResolved(rows, q)[i] = TsGenerated[i] /\ TsGenerated[i] \in TsNames
         /\ i \in TsExplicit(rows, q) \cup TsRevived(rows, q) \cup TsFresh(rows, q) =>
              TsResolved(rows, q)[i] \in TsNames
         /\ TsResolved(rows, q)[i] # TsNoName =>
              \/ i \in TsExplicit(rows, q) \cup TsRevived(rows, q) \cup TsFresh(rows, q)
              \/ TsHolds(rows, i, TsResolved(rows, q)[i])
<1> DEFINE n == TsResolved(rows, q)[i]
           E == i \in TsExplicit(rows, q)
           W == i \in TsWants(q) \/ i \notin q.members
           A == TsActive(rows, i) # {}
           V == i \in TsRevived(rows, q)
           F == i \in TsFresh(rows, q)
<1>1. E => i \in TsWants(q) /\ TsIntended(q, i) \in TsNames
  BY TsIntendedType DEF TsExplicit, TsWants
<1>2. V => ~W /\ ~A /\ TsOwn(rows, i) # {}
  BY FS_EmptySet DEF TsRevived
<1>3. F => ~W /\ ~A /\ ~V /\ TsGenerated[i] \in TsNames
  <2>1. TsOwn(rows, i) = {} => TsActive(rows, i) = {}
    BY DEF TsActive
  <2>2. F => TsGenerated[i] \in TsNames
    BY TsAssumption DEF TsFresh
  <2> QED
    BY <1>2, <2>1, <2>2 DEF TsFresh, TsPending
<1>4. E => n = TsIntended(q, i)
  BY DEF TsResolved
<1>5. ~E /\ W => n = TsNoName
  BY DEF TsResolved
<1>6. ~E /\ ~W /\ A => TsHolds(rows, i, n) /\ n \in TsNames
  <2> SUFFICES ASSUME ~E, ~W, A PROVE TsHolds(rows, i, n) /\ n \in TsNames
    OBVIOUS
  <2> DEFINE least(r) == \A s \in TsActive(rows, i) : r.name <= s.name
  <2>1. n = (CHOOSE r \in TsActive(rows, i) : least(r)).name
    BY DEF TsResolved
  <2>2. \A r \in TsActive(rows, i) : r.name \in Nat /\ r.name \in TsNames /\ r.id = i /\ r \in rows
    BY TsAssumption DEF TsActive, TsOwn, TsRowSet
  <2>3. \E r \in TsActive(rows, i) : least(r)
    <3> DEFINE S == {r.name : r \in TsActive(rows, i)}
    <3>1. S \in SUBSET Nat /\ S # {}
      BY <2>2
    <3> HIDE DEF S
    <3>2. PICK m \in S : \A k \in S : m <= k
      BY <3>1, TsLeast
    <3> QED
      BY <3>2 DEF S
  <2> HIDE DEF least
  <2>4. (CHOOSE r \in TsActive(rows, i) : least(r)) \in TsActive(rows, i)
    BY <2>3
  <2> QED
    BY <2>1, <2>2, <2>4 DEF TsHolds
<1>7. ~E /\ ~W /\ ~A /\ V => TsHolds(rows, i, n) /\ n \in TsNames
  <2> SUFFICES ASSUME ~E, ~W, ~A, V PROVE TsHolds(rows, i, n) /\ n \in TsNames
    OBVIOUS
  <2>1. n = (CHOOSE r \in TsOwn(rows, i) : TRUE).name
    BY DEF TsResolved
  <2>2. (CHOOSE r \in TsOwn(rows, i) : TRUE) \in TsOwn(rows, i)
    BY <1>2
  <2> QED
    BY <2>1, <2>2 DEF TsHolds, TsOwn, TsRowSet
<1>8. ~E /\ ~W /\ ~A /\ ~V /\ F => n = TsGenerated[i]
  BY DEF TsResolved
<1>9. ~E /\ ~W /\ ~A /\ ~V /\ ~F => n = TsNoName
  BY DEF TsResolved
<1> HIDE DEF n, E, W, A, V, F
<1>10. TsNoName \notin TsNames
  BY TsAssumption
<1>11. /\ n \in TsNames \cup {TsNoName}
       /\ E => n = TsIntended(q, i) /\ TsIntended(q, i) \in TsNames
       /\ V => TsHolds(rows, i, n) /\ n \in TsNames
       /\ F => n = TsGenerated[i] /\ TsGenerated[i] \in TsNames
       /\ n # TsNoName => E \/ V \/ F \/ TsHolds(rows, i, n)
  <2>1. E => W
    BY <1>1 DEF W
  <2> QED
    BY <1>1, <1>2, <1>3, <1>4, <1>5, <1>6, <1>7, <1>8, <1>9, <1>10, <2>1
<1> QED
  BY <1>11 DEF n, E, V, F

(* Two members that get a name in one pass get different names. *)
LEMMA TsNamedApart ==
  ASSUME NEW rows \in SUBSET TsRowSet, NEW q \in TsWrites,
         \A r, s \in rows : r.name = s.name => r.id = s.id,
         NEW i \in TsExplicit(rows, q) \cup TsRevived(rows, q) \cup TsFresh(rows, q),
         NEW j \in TsExplicit(rows, q) \cup TsRevived(rows, q) \cup TsFresh(rows, q),
         TsResolved(rows, q)[i] = TsResolved(rows, q)[j]
  PROVE  i = j
<1> DEFINE n == TsResolved(rows, q)[i]
<1>1. i \in TsIdentities /\ j \in TsIdentities
  BY DEF TsExplicit, TsRevived, TsFresh, TsWants, TsPending, TsWrites
<1>2. SUFFICES ASSUME i # j PROVE FALSE
  OBVIOUS
<1>3. ASSUME NEW k \in TsIdentities, NEW l \in TsIdentities, k # l,
             TsHolds(rows, k, TsResolved(rows, q)[k]),
             TsResolved(rows, q)[k] = TsResolved(rows, q)[l]
      PROVE  TsTaken(rows, l, TsResolved(rows, q)[l]) /\ l \notin TsRevived(rows, q)
  <2>1. TsTaken(rows, l, TsResolved(rows, q)[l])
    BY <1>3 DEF TsHolds, TsTaken
  <2>2. ~TsHolds(rows, l, TsResolved(rows, q)[l])
    BY <1>3 DEF TsHolds
  <2> QED
    BY <2>1, <2>2, TsResolvedFacts
<1>4. \A k \in TsIdentities :
        /\ k \in TsExplicit(rows, q) => ~TsTaken(rows, k, TsResolved(rows, q)[k])
        /\ k \in TsFresh(rows, q) => ~TsTaken(rows, k, TsResolved(rows, q)[k])
  <2>1. ASSUME NEW k \in TsIdentities, k \in TsExplicit(rows, q)
        PROVE  ~TsTaken(rows, k, TsResolved(rows, q)[k])
    <3>1. TsResolved(rows, q)[k] = TsIntended(q, k)
      BY <2>1, TsResolvedFacts
    <3>2. ~TsTaken(rows, k, TsIntended(q, k))
      BY <2>1 DEF TsExplicit, TsClashes
    <3> QED
      BY <3>1, <3>2
  <2>2. ASSUME NEW k \in TsIdentities, k \in TsFresh(rows, q)
        PROVE  ~TsTaken(rows, k, TsResolved(rows, q)[k])
    <3>1. TsResolved(rows, q)[k] = TsGenerated[k]
      BY <2>2, TsResolvedFacts
    <3>2. ~TsTaken(rows, k, TsGenerated[k])
      BY <2>2 DEF TsFresh
    <3> QED
      BY <3>1, <3>2
  <2> QED
    BY <2>1, <2>2
<1>5. i \notin TsRevived(rows, q) /\ j \notin TsRevived(rows, q)
  BY <1>1, <1>2, <1>3, <1>4, TsResolvedFacts
<1>6. ~(i \in TsExplicit(rows, q) /\ j \in TsExplicit(rows, q))
  <2> SUFFICES ASSUME i \in TsExplicit(rows, q), j \in TsExplicit(rows, q) PROVE FALSE
    OBVIOUS
  <2>1. TsIntended(q, i) = TsIntended(q, j)
    BY <1>1, TsResolvedFacts
  <2>2. i \in Nat /\ j \in Nat
    BY <1>1, TsAssumption
  <2>3. ~TsTaken(rows, i, TsIntended(q, i)) /\ ~TsTaken(rows, j, TsIntended(q, j))
    BY DEF TsExplicit, TsClashes
  <2>4. i < j \/ j < i
    BY <1>2, <2>2
  <2> QED
    BY <2>1, <2>3, <2>4 DEF TsExplicit, TsClashes
<1>7. ~(i \in TsFresh(rows, q) /\ j \in TsFresh(rows, q))
  BY <1>1, <1>2, TsResolvedFacts DEF TsFresh
<1>8. ~(i \in TsFresh(rows, q) /\ j \in TsExplicit(rows, q))
  BY <1>1, TsResolvedFacts DEF TsFresh
<1>9. ~(j \in TsFresh(rows, q) /\ i \in TsExplicit(rows, q))
  BY <1>1, TsResolvedFacts DEF TsFresh
<1> QED
  BY <1>5, <1>6, <1>7, <1>8, <1>9

(* planAliasReservations() answers an honest plan. *)
LEMMA TsPlanIsHonest ==
  ASSUME NEW rows \in SUBSET TsRowSet, NEW q \in TsWrites,
         \A r, s \in rows : r.name = s.name => r.id = s.id
  PROVE  TsPlan(rows, q) \in TsPlanSet /\ TsHonest(rows, TsPlan(rows, q))
<1> DEFINE named == TsExplicit(rows, q) \cup TsRevived(rows, q) \cup TsFresh(rows, q)
           resolved == TsResolved(rows, q)
           activate == {TsRow(i, resolved[i], TRUE) : i \in named}
           retire == {r \in rows : /\ r.active
                        /\ \/ r.id \in TsExplicit(rows, q) /\ r.name # resolved[r.id]
                           \/ q.fetched /\ r.id \notin q.members}
<1>1. TsNoPlan \in TsPlanSet /\ TsHonest(rows, [TsNoPlan EXCEPT !.refused = TRUE])
      /\ [TsNoPlan EXCEPT !.refused = TRUE] \in TsPlanSet
  BY DEF TsNoPlan, TsPlanSet, TsUnset, TsAliases, TsHonest
<1>2. \/ TsPlan(rows, q) = [TsNoPlan EXCEPT !.refused = TRUE]
      \/ TsPlan(rows, q) = [activate |-> activate, retire |-> retire,
                            resolved |-> resolved, refused |-> FALSE]
  BY DEF TsPlan
<1>3. named \subseteq TsIdentities
  BY DEF TsExplicit, TsRevived, TsFresh, TsWants, TsPending, TsWrites
<1>4. resolved \in TsAliases
  <2>1. \A i \in TsIdentities : resolved[i] \in TsNames \cup {TsNoName}
    BY TsResolvedFacts
  <2>2. resolved = [i \in TsIdentities |-> resolved[i]]
    BY DEF TsResolved
  <2> HIDE DEF resolved
  <2> QED
    BY <2>1, <2>2 DEF TsAliases
<1>5. \A i \in named : resolved[i] \in TsNames
  BY <1>3, TsResolvedFacts
<1>6. activate \subseteq TsRowSet
  <2> HIDE DEF named, resolved
  <2>1. ASSUME NEW i \in named PROVE TsRow(i, resolved[i], TRUE) \in TsRowSet
    BY <1>3, <1>5 DEF TsRow, TsRowSet
  <2> QED
    BY <2>1
<1>7. retire \subseteq rows
  OBVIOUS
<1>8. \A r, s \in activate : r.name = s.name => r.id = s.id
  <2>1. \A i, j \in named : resolved[i] = resolved[j] => i = j
    BY TsNamedApart
  <2> HIDE DEF named, resolved
  <2> QED
    BY <2>1 DEF TsRow
<1>9. \A i \in TsIdentities : resolved[i] # TsNoName =>
        TsHolds(activate, i, resolved[i]) \/ TsHolds(rows, i, resolved[i])
  <2> SUFFICES ASSUME NEW i \in TsIdentities, resolved[i] # TsNoName
               PROVE  TsHolds(activate, i, resolved[i]) \/ TsHolds(rows, i, resolved[i])
    OBVIOUS
  <2>1. i \in named \/ TsHolds(rows, i, resolved[i])
    BY TsResolvedFacts
  <2> HIDE DEF named, resolved
  <2>2. ASSUME i \in named PROVE TsHolds(activate, i, resolved[i])
    <3>1. TsRow(i, resolved[i], TRUE) \in activate
      BY <2>2
    <3>2. TsRow(i, resolved[i], TRUE).id = i /\ TsRow(i, resolved[i], TRUE).name = resolved[i]
      BY DEF TsRow
    <3> HIDE DEF activate
    <3> QED
      BY <3>1, <3>2 DEF TsHolds
  <2> QED
    BY <2>1, <2>2
<1>10. [activate |-> activate, retire |-> retire, resolved |-> resolved,
        refused |-> FALSE] \in TsPlanSet
  <2> HIDE DEF activate, retire, resolved
  <2> QED
    BY <1>4, <1>6, <1>7 DEF TsPlanSet
<1>11. TsHonest(rows, [activate |-> activate, retire |-> retire,
                       resolved |-> resolved, refused |-> FALSE])
  <2> HIDE DEF activate, retire, resolved
  <2> QED
    BY <1>7, <1>8, <1>9 DEF TsHonest, TsHolds
<1> QED
  BY <1>1, <1>2, <1>10, <1>11

(* An honest plan stays honest while rows are only added or tombstoned. *)
LEMMA TsHonestLasts ==
  ASSUME NEW before, NEW after, NEW plan,
         \A i, n : TsHolds(before, i, n) => TsHolds(after, i, n),
         TsHonest(before, plan)
  PROVE  TsHonest(after, plan)
  BY DEF TsHonest

(* What the index does not refuse leaves every name with one identity, and no
   row is ever lost. *)
LEMMA TsCommitHolds ==
  ASSUME TsInv, NEW w \in TsWriters, TsCommits(w)
  PROVE  /\ \A i, n : TsHolds(tsRows', i, n) <=>
              TsHolds(tsRows, i, n) \/ TsHolds(tsWriter[w].plan.activate, i, n)
         /\ \A r, s \in tsRows' : r.name = s.name => r.id = s.id
         /\ tsRows' \subseteq TsRowSet
<1> DEFINE plan == tsWriter[w].plan
           gone == plan.retire \cup {TsRow(r.id, r.name, FALSE) : r \in plan.activate}
           tomb == {TsRow(r.id, r.name, FALSE) : r \in plan.retire}
<1>1. tsRows' = ((tsRows \ gone) \cup (plan.activate \ plan.retire)) \cup tomb
  BY DEF TsCommits
<1>2. plan \in TsPlanSet /\ TsHonest(tsRows, plan) /\ tsRows \subseteq TsRowSet
  BY DEF TsInv, TsTypeOK, TsWrites
<1>3. plan.activate \subseteq TsRowSet /\ plan.retire \subseteq TsRowSet
  BY <1>2 DEF TsPlanSet
<1>4. \A r \in plan.activate, s \in tsRows : r.name = s.name => r.id = s.id
  BY DEF TsCommits, TsIndexRefuses
<1>5. \A r, s \in tsRows : r.name = s.name => r.id = s.id
  BY DEF TsInv, TsReserved
<1> HIDE DEF plan
<1>6. tomb \subseteq TsRowSet
  <2>1. ASSUME NEW r \in plan.retire PROVE TsRow(r.id, r.name, FALSE) \in TsRowSet
    BY <1>3 DEF TsRow, TsRowSet
  <2> QED
    BY <2>1
<1>7. ASSUME NEW i, NEW n, TsHolds(tsRows', i, n)
      PROVE  TsHolds(tsRows, i, n) \/ TsHolds(plan.activate, i, n)
  <2>1. PICK r \in tsRows' : r.id = i /\ r.name = n
    BY <1>7 DEF TsHolds
  <2>2. CASE r \in tomb
    <3>1. PICK s \in plan.retire : s.id = i /\ s.name = n
      BY <2>1, <2>2 DEF TsRow
    <3> QED
      BY <1>2, <3>1 DEF TsHonest
  <2>3. CASE r \notin tomb
    BY <1>1, <2>1, <2>3 DEF TsHolds
  <2> QED
    BY <2>2, <2>3
<1>8. ASSUME NEW r \in plan.retire PROVE TsHolds(tsRows', r.id, r.name)
  <2>1. TsRow(r.id, r.name, FALSE) \in tsRows'
    BY <1>1
  <2>2. TsRow(r.id, r.name, FALSE).id = r.id /\ TsRow(r.id, r.name, FALSE).name = r.name
    BY DEF TsRow
  <2> HIDE DEF gone, tomb
  <2> QED
    BY <2>1, <2>2 DEF TsHolds
<1>9. ASSUME NEW r \in plan.activate PROVE TsHolds(tsRows', r.id, r.name)
  BY <1>1, <1>8 DEF TsHolds
<1>10. ASSUME NEW r \in tsRows PROVE TsHolds(tsRows', r.id, r.name)
  <2>1. CASE r \in plan.retire
    BY <1>8, <2>1
  <2>2. CASE \E s \in plan.activate : r = TsRow(s.id, s.name, FALSE)
    BY <1>9, <2>2 DEF TsRow
  <2>3. CASE r \notin gone
    <3>1. r \in tsRows'
      BY <1>1, <2>3
    <3> HIDE DEF gone, tomb
    <3> QED
      BY <3>1 DEF TsHolds
  <2> QED
    BY <2>1, <2>2, <2>3
<1>11. \A i, n : TsHolds(tsRows', i, n) <=>
         TsHolds(tsRows, i, n) \/ TsHolds(plan.activate, i, n)
  BY <1>7, <1>9, <1>10 DEF TsHolds
<1>12. \A r, s \in tsRows' : r.name = s.name => r.id = s.id
  <2> SUFFICES ASSUME NEW r \in tsRows', NEW s \in tsRows', r.name = s.name
               PROVE  r.id = s.id
    OBVIOUS
  <2>1. TsHolds(tsRows', r.id, r.name) /\ TsHolds(tsRows', s.id, r.name)
    BY DEF TsHolds
  <2>2. /\ TsHolds(tsRows, r.id, r.name) \/ TsHolds(plan.activate, r.id, r.name)
        /\ TsHolds(tsRows, s.id, r.name) \/ TsHolds(plan.activate, s.id, r.name)
    BY <1>11, <2>1
  <2>3. \A a, b \in plan.activate : a.name = b.name => a.id = b.id
    BY <1>2 DEF TsHonest
  <2> QED
    BY <1>4, <1>5, <2>2, <2>3 DEF TsHolds
<1>13. tsRows' \subseteq TsRowSet
  BY <1>1, <1>2, <1>3, <1>6
<1> QED
  BY <1>11, <1>12, <1>13 DEF plan
(* Every step keeps the invariant. *)
LEMMA TsBeginsInv ==
  ASSUME TsInv, NEW w \in TsWriters, TsBegins(w)
  PROVE  TsInv'
<1>1. TsNoPlan \in TsPlanSet /\ TsHonest(tsRows, TsNoPlan)
  BY DEF TsNoPlan, TsPlanSet, TsUnset, TsAliases, TsHonest
<1>2. TsUnset \in TsAliases /\ tsConfig \in TsAliases /\ tsLive \subseteq TsIdentities
  BY DEF TsUnset, TsAliases, TsInv, TsTypeOK
<1>3. ASSUME NEW scope \in SUBSET TsIdentities, NEW configured, NEW hints
      PROVE  TsNamed(scope, configured, hints) \subseteq TsIdentities
  BY DEF TsNamed
<1>4. ASSUME NEW scope \in SUBSET TsIdentities, NEW aliases \in TsAliasesOf(scope),
             NEW rest \in TsAliases
      PROVE  TsOver(scope, aliases, rest) \in TsAliases
  BY <1>4 DEF TsAliasesOf, TsOver, TsAliases
<1>5. TsIdle \in TsWrites /\ TsIdle.plan = TsNoPlan
  BY <1>1, <1>2 DEF TsIdle, TsWrites
<1>6. TsAppScopes \subseteq SUBSET TsIdentities
  BY <1>2 DEF TsAppScopes
<1>7. ASSUME NEW scope \in TsAppScopes, NEW q \in TsOwnerRequests(scope)
      PROVE  q \in TsWrites /\ q.plan = TsNoPlan
  <2>1. PICK aliases \in TsAliasesOf(scope) :
          q = [TsIdle EXCEPT !.place = "begun", !.lane = "owner", !.scope = scope,
                 !.members = TsNamed(scope, TsOver(scope, aliases, TsUnset), TsUnset),
                 !.configured = TsOver(scope, aliases, tsConfig)]
    BY <1>7 DEF TsOwnerRequests
  <2>2. /\ TsNamed(scope, TsOver(scope, aliases, TsUnset), TsUnset) \subseteq TsIdentities
        /\ TsOver(scope, aliases, tsConfig) \in TsAliases
    BY <1>2, <1>3, <1>4, <1>6
  <2> QED
    BY <1>5, <1>6, <2>1, <2>2 DEF TsWrites
<1>8. ASSUME NEW scope \in TsAppScopes, NEW q \in TsSdkRequests(scope)
      PROVE  q \in TsWrites /\ q.plan = TsNoPlan
  <2>1. PICK hints \in TsAliasesOf(scope) :
          q = [TsIdle EXCEPT !.place = "begun", !.lane = "sdk", !.scope = scope,
                 !.members = TsNamed(scope, tsConfig, TsOver(scope, hints, TsUnset)),
                 !.configured = tsConfig, !.hints = TsOver(scope, hints, TsUnset)]
    BY <1>8 DEF TsSdkRequests
  <2>2. /\ TsNamed(scope, tsConfig, TsOver(scope, hints, TsUnset)) \subseteq TsIdentities
        /\ TsOver(scope, hints, TsUnset) \in TsAliases
    BY <1>2, <1>3, <1>4, <1>6
  <2> QED
    BY <1>2, <1>5, <1>6, <2>1, <2>2 DEF TsWrites
<1>9. ASSUME NEW q \in TsDiscoveries PROVE q \in TsWrites /\ q.plan = TsNoPlan
  <2>1. CASE \E live \in SUBSET tsLive :
               q = [TsIdle EXCEPT !.place = "begun", !.lane = "sdk", !.scope = live,
                      !.members = live, !.fetched = (tsFamily = "tool"),
                      !.configured = tsConfig]
    <3>1. PICK live \in SUBSET tsLive :
            q = [TsIdle EXCEPT !.place = "begun", !.lane = "sdk", !.scope = live,
                   !.members = live, !.fetched = (tsFamily = "tool"),
                   !.configured = tsConfig]
      BY <2>1
    <3>2. live \subseteq TsIdentities /\ (tsFamily = "tool") \in BOOLEAN
      BY <1>2
    <3> QED
      BY <1>2, <1>5, <3>1, <3>2 DEF TsWrites
  <2>2. CASE q = [TsIdle EXCEPT !.place = "begun", !.lane = "sdk", !.scope = tsLive,
                    !.members = TsNamed(tsLive, tsConfig, TsUnset),
                    !.configured = tsConfig]
    BY <1>2, <1>3, <1>5, <2>2 DEF TsWrites
  <2> QED
    BY <1>9, <2>1, <2>2 DEF TsDiscoveries
<1>10. PICK q \in TsWrites : q.plan = TsNoPlan /\ tsWriter' = [tsWriter EXCEPT ![w] = q]
  BY <1>7, <1>8, <1>9 DEF TsBegins
<1>11. tsBegun' \in 0 .. TsMaxWrites
  BY TsAssumption DEF TsBegins, TsInv, TsTypeOK
<1> QED
  BY <1>1, <1>10, <1>11 DEF TsBegins, TsInv, TsTypeOK, TsReserved

(* A planned write holds an honest plan; one that ended, none. *)
LEMMA TsWriterInv ==
  ASSUME TsInv, NEW w \in TsWriters,
         UNCHANGED <<tsFamily, tsBegun, tsRows, tsLive, tsConfig, tsPublished>>,
         \/ TsEnds(w)
         \/ \E place \in {"planned", "lost", "replanned"} :
              \E plan \in {tsWriter[w].plan, TsPlan(tsRows, tsWriter[w])} :
                tsWriter' = [tsWriter EXCEPT ![w].plan = plan, ![w].place = place]
  PROVE  TsInv'
<1>1. tsWriter \in [TsWriters -> TsWrites] /\ tsRows \in SUBSET TsRowSet
      /\ \A r, s \in tsRows : r.name = s.name => r.id = s.id
  BY DEF TsInv, TsTypeOK, TsReserved
<1>2. TsIdle \in TsWrites /\ TsHonest(tsRows, TsIdle.plan)
  BY DEF TsIdle, TsWrites, TsNoPlan, TsPlanSet, TsUnset, TsAliases, TsHonest
<1>3. \A plan \in {tsWriter[w].plan, TsPlan(tsRows, tsWriter[w])} :
        plan \in TsPlanSet /\ TsHonest(tsRows, plan)
  <2>1. tsWriter[w].plan \in TsPlanSet /\ TsHonest(tsRows, tsWriter[w].plan)
    BY <1>1 DEF TsInv, TsWrites
  <2>2. TsPlan(tsRows, tsWriter[w]) \in TsPlanSet
        /\ TsHonest(tsRows, TsPlan(tsRows, tsWriter[w]))
    BY <1>1, TsPlanIsHonest
  <2> QED
    BY <2>1, <2>2
<1>4. PICK q \in TsWrites : tsWriter' = [tsWriter EXCEPT ![w] = q] /\ TsHonest(tsRows, q.plan)
  <2>1. CASE TsEnds(w)
    BY <1>2, <2>1 DEF TsEnds
  <2>2. ASSUME NEW place \in {"planned", "lost", "replanned"},
               NEW plan \in {tsWriter[w].plan, TsPlan(tsRows, tsWriter[w])},
               tsWriter' = [tsWriter EXCEPT ![w].plan = plan, ![w].place = place]
        PROVE  \E q \in TsWrites :
                 tsWriter' = [tsWriter EXCEPT ![w] = q] /\ TsHonest(tsRows, q.plan)
    <3> DEFINE q == [tsWriter[w] EXCEPT !.plan = plan, !.place = place]
    <3>1. plan \in TsPlanSet /\ TsHonest(tsRows, plan)
      BY <1>3
    <3>2. tsWriter[w] \in TsWrites
      BY <1>1
    <3>3. q \in TsWrites /\ q.plan = plan
      BY <3>1, <3>2 DEF TsWrites
    <3>4. tsWriter' = [tsWriter EXCEPT ![w] = q]
      BY <1>1, <2>2
    <3> QED
      BY <3>1, <3>3, <3>4
  <2> QED
    BY <2>1, <2>2
<1> QED
  BY <1>1, <1>4 DEF TsInv, TsTypeOK, TsReserved

(* A commit publishes only what it made or found committed. *)
LEMMA TsAppliesInv ==
  ASSUME TsInv, NEW w \in TsWriters, TsApplies(w)
  PROVE  TsInv'
<1> DEFINE plan == tsWriter[w].plan
           named == {i \in TsIdentities : plan.resolved[i] # TsNoName}
           news == {<<plan.resolved[i], i>> : i \in named}
<1>1. TsCommits(w) /\ TsEnds(w) /\ UNCHANGED <<tsFamily, tsBegun, tsLive>>
  BY DEF TsApplies
<1>2. tsWriter[w] \in TsWrites /\ plan \in TsPlanSet /\ TsHonest(tsRows, plan)
  BY DEF TsInv, TsTypeOK, TsWrites
<1>3. /\ \A i, n : TsHolds(tsRows', i, n) <=>
              TsHolds(tsRows, i, n) \/ TsHolds(plan.activate, i, n)
      /\ \A r, s \in tsRows' : r.name = s.name => r.id = s.id
      /\ tsRows' \subseteq TsRowSet
  BY <1>1, TsCommitHolds
<1>4. tsPublished' = tsPublished \cup news
  BY <1>1 DEF TsCommits
<1>5. \A i \in named : plan.resolved[i] \in TsNames
  BY <1>2 DEF TsPlanSet, TsAliases
<1>6. \A i \in named : TsHolds(tsRows', i, plan.resolved[i])
  BY <1>2, <1>3 DEF TsHonest
<1> HIDE DEF plan
<1>7. \A p \in news : p \in TsNames \X TsIdentities /\ TsHolds(tsRows', p[2], p[1])
  <2> SUFFICES ASSUME NEW i \in named
               PROVE  /\ <<plan.resolved[i], i>> \in TsNames \X TsIdentities
                      /\ TsHolds(tsRows', <<plan.resolved[i], i>>[2], <<plan.resolved[i], i>>[1])
    OBVIOUS
  <2>1. i \in TsIdentities
    OBVIOUS
  <2> HIDE DEF named
  <2> QED
    BY <1>5, <1>6, <2>1
<1> HIDE DEF news
<1>8. \A p \in tsPublished : TsHolds(tsRows, p[2], p[1])
  BY DEF TsInv, TsReserved, TsHolds
<1>9. \A p \in tsPublished' : TsHolds(tsRows', p[2], p[1])
  BY <1>3, <1>4, <1>7, <1>8
<1>10. TsReserved'
  BY <1>3, <1>9 DEF TsReserved, TsHolds
<1>11. tsConfig' \in TsAliases
  <2>1. tsConfig \in TsAliases /\ tsWriter[w].configured \in TsAliases
    BY <1>2 DEF TsInv, TsTypeOK, TsWrites
  <2>2. \/ tsConfig' = tsConfig
        \/ tsConfig' = TsOver(tsWriter[w].scope, tsWriter[w].configured, tsConfig)
    BY <1>1 DEF TsCommits
  <2> QED
    BY <2>1, <2>2 DEF TsOver, TsAliases
<1>12. TsIdle \in TsWrites /\ TsHonest(tsRows', TsIdle.plan)
  BY DEF TsIdle, TsWrites, TsNoPlan, TsPlanSet, TsUnset, TsAliases, TsHonest
<1>13. tsWriter' \in [TsWriters -> TsWrites]
  BY <1>1, <1>12 DEF TsEnds, TsInv, TsTypeOK
<1>14. TsTypeOK'
  BY <1>1, <1>3, <1>4, <1>7, <1>11, <1>13 DEF TsInv, TsTypeOK
<1>15. ASSUME NEW v \in TsWriters PROVE TsHonest(tsRows', tsWriter'[v].plan)
  <2>1. tsWriter'[v] = tsWriter[v] \/ tsWriter'[v] = TsIdle
    BY <1>1 DEF TsEnds, TsInv, TsTypeOK
  <2>2. TsHonest(tsRows, tsWriter[v].plan)
    BY DEF TsInv
  <2>3. TsHonest(tsRows', tsWriter[v].plan)
    BY <1>3, <2>2, TsHonestLasts
  <2> QED
    BY <1>12, <2>1, <2>3
<1> QED
  BY <1>10, <1>14, <1>15 DEF TsInv

(* A deletion leaves tombstones. *)
LEMMA TsDeletesInv == TsInv /\ TsDeletes => TsInv'
<1> SUFFICES ASSUME TsInv, TsDeletes PROVE TsInv'
  OBVIOUS
<1>1. PICK scope \in TsAppScopes :
        /\ tsLive' = tsLive \ scope
        /\ tsRows' = {IF r.id \in scope THEN TsRow(r.id, r.name, FALSE) ELSE r : r \in tsRows}
        /\ UNCHANGED <<tsFamily, tsBegun, tsConfig, tsWriter, tsPublished>>
  BY DEF TsDeletes
<1> DEFINE tomb(r) == IF r.id \in scope THEN TsRow(r.id, r.name, FALSE) ELSE r
<1>2. \A r \in tsRows : tomb(r) \in TsRowSet /\ tomb(r).id = r.id /\ tomb(r).name = r.name
  BY DEF TsRow, TsRowSet, TsInv, TsTypeOK
<1>3. tsRows' = {tomb(r) : r \in tsRows}
  BY <1>1
<1> HIDE DEF tomb
<1>4. tsRows' \subseteq TsRowSet
  BY <1>2, <1>3
<1>5. \A i, n : TsHolds(tsRows', i, n) <=> TsHolds(tsRows, i, n)
  BY <1>2, <1>3 DEF TsHolds
<1>6. TsReserved'
  <2>1. \A r, s \in tsRows' : r.name = s.name => r.id = s.id
    BY <1>2, <1>3 DEF TsInv, TsReserved
  <2>2. \A p \in tsPublished : TsHolds(tsRows, p[2], p[1])
    BY DEF TsInv, TsReserved, TsHolds
  <2>3. \A p \in tsPublished' : TsHolds(tsRows', p[2], p[1])
    BY <1>1, <1>5, <2>2
  <2> QED
    BY <2>1, <2>3 DEF TsReserved, TsHolds
<1>7. \A w \in TsWriters : TsHonest(tsRows', tsWriter[w].plan)
  BY <1>5, TsHonestLasts DEF TsInv
<1>8. TsTypeOK'
  BY <1>1, <1>4 DEF TsInv, TsTypeOK
<1> QED
  BY <1>1, <1>6, <1>7, <1>8 DEF TsInv

(* Initially no name is reserved and nothing is planned. *)
LEMMA TsInitInv == TsInit => TsInv
<1>1. TsInit => 0 \in 0 .. TsMaxWrites
  BY TsAssumption
<1> QED
  BY <1>1 DEF TsInit, TsInv, TsTypeOK, TsReserved, TsIdle, TsWrites, TsNoPlan, TsPlanSet,
              TsUnset, TsAliases, TsHonest

(* The invariant is inductive. *)
LEMMA TsNextInv == TsInv /\ [TsNext]_tsVars => TsInv'
<1> SUFFICES ASSUME TsInv, [TsNext]_tsVars PROVE TsInv'
  OBVIOUS
<1>1. ASSUME NEW w \in TsWriters, TsPlans(w) \/ TsApplyFails(w) \/ TsPlansAgain(w)
      PROVE  TsInv'
  <2>1. UNCHANGED <<tsFamily, tsBegun, tsRows, tsLive, tsConfig, tsPublished>>
    BY <1>1 DEF TsPlans, TsApplyFails, TsPlansAgain
  <2>2. tsWriter \in [TsWriters -> TsWrites] /\ tsWriter[w] \in TsWrites
    BY DEF TsInv, TsTypeOK
  <2>3. [tsWriter EXCEPT ![w].place = "lost"]
          = [tsWriter EXCEPT ![w].plan = tsWriter[w].plan, ![w].place = "lost"]
    BY <2>2 DEF TsWrites
  <2>4. \/ TsEnds(w)
        \/ \E place \in {"planned", "lost", "replanned"} :
             \E plan \in {tsWriter[w].plan, TsPlan(tsRows, tsWriter[w])} :
               tsWriter' = [tsWriter EXCEPT ![w].plan = plan, ![w].place = place]
    BY <1>1, <2>3 DEF TsPlans, TsApplyFails, TsPlansAgain
  <2> QED
    BY <2>1, <2>4, TsWriterInv
<1>2. CASE UNCHANGED tsVars
  BY <1>2 DEF tsVars, TsInv, TsTypeOK, TsReserved
<1> QED
  BY <1>1, <1>2, TsBeginsInv, TsAppliesInv, TsDeletesInv DEF TsNext, TsDone

(* The rows, the writes under way and what was published have their types. *)
THEOREM TsTypeCorrect == TsSpec => []TsTypeOK
<1>1. TsInv => TsTypeOK
  BY DEF TsInv
<1> QED
  BY <1>1, TsInitInv, TsNextInv, PTL DEF TsSpec

(* No two identities ever hold one name, tombstones included, and what was
   published stays reserved. *)
THEOREM TsNamesStayReserved == TsSpec => []TsReserved
<1>1. TsInv => TsReserved
  BY DEF TsInv
<1> QED
  BY <1>1, TsInitInv, TsNextInv, PTL DEF TsSpec

(* Two snapshots that publish one name publish it for one identity. *)
THEOREM TsOneMeaning == TsSpec => []TsNameMeansOne
<1>1. TsInv => TsNameMeansOne
  <2> SUFFICES ASSUME TsInv, NEW p \in tsPublished, NEW q \in tsPublished, p[1] = q[1]
               PROVE  p[2] = q[2]
    BY DEF TsNameMeansOne
  <2>1. PICK r \in tsRows : r.name = p[1] /\ r.id = p[2]
    BY DEF TsInv, TsReserved
  <2>2. PICK s \in tsRows : s.name = q[1] /\ s.id = q[2]
    BY DEF TsInv, TsReserved
  <2> QED
    BY <2>1, <2>2 DEF TsInv, TsReserved
<1> QED
  BY <1>1, TsInitInv, TsNextInv, PTL DEF TsSpec
=============================================================================
