----------------------------- MODULE AuditExport -----------------------------
(***************************************************************************)
(* The ledger of server/src/audit.ts under its one long read: record()     *)
(* appends from any request, prune() deletes by age, and exportJsonl()     *)
(* streams the rows of one match newest first, a chunk per pull, at the    *)
(* reader's pace.  Rows outside the namespace or the filters are never     *)
(* seen by the export and are left out.                                    *)
(***************************************************************************)
EXTENDS Integers, FiniteSets

CONSTANTS AeWriters,    \* requests that append a row
          AeChunkRows,  \* EXPORT_CHUNK_ROWS
          AeRetention,  \* config.retentionDays, in clock units
          AeMaxRows,    \* bound on the rows ever appended
          AeMaxNow      \* bound on the clock

ASSUME AuditExportAssumption ==
  /\ AeChunkRows \in Nat \ {0} /\ AeRetention \in Nat
  /\ AeMaxRows \in Nat /\ AeMaxNow \in Nat

VARIABLES
  aeNow,      \* Date.now()
  aeRows,     \* the audit table: the (ts, id) of every row
  aeNext,     \* the AUTOINCREMENT of audit.id
  aeWriting,  \* writer -> the ts its INSERT was bound with, or AeIdle
  aeState,    \* the export's stream: "none", "open" or "closed"
  aeUntil,    \* window.until
  aeAfter,    \* the last key emitted, or AeNothing
  aeChunk,    \* the keys the last pull wrote
  aeEarlier,  \* the keys the pulls before it wrote
  \* history
  aeMatch     \* the rows of the match when the export began

aeVars == <<aeNow, aeRows, aeNext, aeWriting, aeState, aeUntil, aeAfter, aeChunk,
            aeEarlier, aeMatch>>

AeIdle == -1
AeKeys == [ts : Nat, id : Nat]
AeNothing == [ts |-> AeIdle, id |-> 0]

AeTypeOK ==
  /\ aeNow \in Nat /\ aeNext \in Nat /\ aeUntil \in Nat
  /\ aeRows \subseteq AeKeys /\ aeMatch \subseteq AeKeys
  /\ aeChunk \subseteq AeKeys /\ aeEarlier \subseteq AeKeys
  /\ aeWriting \in [AeWriters -> Nat \cup {AeIdle}]
  /\ aeState \in {"none", "open", "closed"}
  /\ aeAfter \in AeKeys \cup {AeNothing}

AeInit ==
  /\ aeNow = 0 /\ aeNext = 1 /\ aeUntil = 0
  /\ aeRows = {} /\ aeChunk = {} /\ aeEarlier = {} /\ aeMatch = {}
  /\ aeWriting = [w \in AeWriters |-> AeIdle]
  /\ aeState = "none" /\ aeAfter = AeNothing

aeExportVars == <<aeState, aeUntil, aeAfter, aeChunk, aeEarlier, aeMatch>>

-----------------------------------------------------------------------------
(* record() and prune() *)

(* record() binds the clock as it reads before the INSERT runs, so a row may
   be committed after younger ones, and after an export has passed its ts. *)
AeBinds(w) ==
  /\ aeWriting[w] = AeIdle
  /\ aeWriting' = [aeWriting EXCEPT ![w] = aeNow]
  /\ UNCHANGED <<aeNow, aeRows, aeNext, aeExportVars>>

AeInserts(w) ==
  /\ aeWriting[w] # AeIdle /\ aeNext <= AeMaxRows
  /\ aeRows' = aeRows \cup {[ts |-> aeWriting[w], id |-> aeNext]}
  /\ aeNext' = aeNext + 1
  /\ aeWriting' = [aeWriting EXCEPT ![w] = AeIdle]
  /\ UNCHANGED <<aeNow, aeExportVars>>

AePrunes ==
  /\ aeRows' = {k \in aeRows : k.ts >= aeNow - AeRetention}
  /\ UNCHANGED <<aeNow, aeNext, aeWriting, aeExportVars>>

AeTick ==
  /\ aeNow < AeMaxNow /\ aeNow' = aeNow + 1
  /\ UNCHANGED <<aeRows, aeNext, aeWriting, aeExportVars>>

-----------------------------------------------------------------------------
(* exportJsonl() *)

(* ORDER BY ts DESC, id DESC: j comes after k. *)
AeBelow(j, k) == j.ts < k.ts \/ (j.ts = k.ts /\ j.id < k.id)

(* Fault: the seek forgets the rows that share the last one's instant. *)
AeSeek_ByTime(k, after) == after = AeNothing \/ k.ts < after.ts

(* Fault: the seek takes the last row again. *)
AeSeek_Inclusive(k, after) == after = AeNothing \/ AeBelow(k, after) \/ k = after

AeSeek(k, after) == after = AeNothing \/ AeBelow(k, after)

(* The window is closed when the stream is constructed: at the filter's own
   until, which may lie in the future, or now. *)
AeBegins ==
  /\ aeState = "none"
  /\ aeState' = "open"
  /\ aeUntil' \in 0 .. AeMaxNow
  /\ aeMatch' = {k \in aeRows : k.ts <= aeUntil'}
  /\ UNCHANGED <<aeNow, aeRows, aeNext, aeWriting, aeAfter, aeChunk, aeEarlier>>

AeCandidates == {k \in aeRows : k.ts <= aeUntil /\ AeSeek(k, aeAfter)}

(* Of the candidates, the first AeChunkRows in order. *)
AeIsChunk(S) ==
  /\ \A s \in S, k \in AeCandidates \ S : AeBelow(k, s)
  /\ \/ Cardinality(S) = AeChunkRows
     \/ S = AeCandidates /\ Cardinality(S) < AeChunkRows

(* One pull; a short chunk ends the stream. *)
AePulls ==
  /\ aeState = "open"
  /\ aeChunk' \in {S \in SUBSET AeCandidates : AeIsChunk(S)}
  /\ aeEarlier' = aeEarlier \cup aeChunk
  /\ \/ aeChunk' = {} /\ UNCHANGED aeAfter
     \/ /\ aeAfter' \in aeChunk'
        /\ \A k \in aeChunk' \ {aeAfter'} : AeBelow(aeAfter', k)
  /\ aeState' = IF Cardinality(aeChunk') < AeChunkRows THEN "closed" ELSE "open"
  /\ UNCHANGED <<aeNow, aeRows, aeNext, aeWriting, aeUntil, aeMatch>>

AeNext ==
  \/ \E w \in AeWriters : AeBinds(w) \/ AeInserts(w)
  \/ AePrunes \/ AeTick \/ AeBegins \/ AePulls

AeSpec == AeInit /\ [][AeNext]_aeVars

-----------------------------------------------------------------------------
(* Properties *)

(* An export is the complete match: when it closes, every row that matched
   when it was asked for and that was not pruned meanwhile has been written,
   whatever was appended or pruned between two chunks (exportJsonl,
   chunkAfter). *)
AeComplete == aeState = "closed" => aeMatch \cap aeRows \subseteq aeChunk \cup aeEarlier

(* Every row of a chunk is older than all the rows written before it: newest
   first across the boundaries of chunks, and none twice (chunkAfter). *)
AeDescends == \A j \in aeChunk, k \in aeEarlier : AeBelow(j, k)
=============================================================================
