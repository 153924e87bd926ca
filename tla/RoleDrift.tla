----------------------------- MODULE RoleDrift ------------------------------
(***************************************************************************)
(* How the owner hears that an app gave a granted role more than it had:   *)
(* hub/register (server/src/tunnel.ts) stores the declaration and compares *)
(* it with the one before (server/src/registry.ts upsertDeclaredRoles),    *)
(* while another registration of the app, the owner's grants and the       *)
(* deletion of the app run between any two of its queries.                 *)
(* One role is followed; roles are compared one by one.  A pattern is a    *)
(* family with the exact text in it, which is how two declarations are     *)
(* compared; a role that is absent has none.                               *)
(***************************************************************************)
EXTENDS Naturals, FiniteSets

CONSTANTS RdPatterns,  \* what a declaration may hold
          RdRegisters  \* registrations under way at once

VARIABLES
  rdRow,       \* the app's row stands
  rdDeclared,  \* the role in roles_json
  rdGranted,   \* some agent holds the role
  rdRegister,  \* registration -> where it is and what it holds
  rdGrant,     \* setGrants: "idle", or the role as it read it
  \* history
  rdKnown,     \* the role as it was granted, and what drift rows named since
  rdMissed     \* what crossed the grant, or was to be named by a registration
               \* that ended before its drift row

rdVars == <<rdRow, rdDeclared, rdGranted, rdRegister, rdGrant, rdKnown, rdMissed>>
rdOwner == <<rdRow, rdGranted, rdGrant>>

RdIdle ==
  [place |-> "idle", declares |-> {}, before |-> {}, granted |-> FALSE, widened |-> {}]
RdPlaces == {"idle", "read", "counted", "stored"}
RdGrantIdle == [place |-> "idle", role |-> {}]

RdTypeOK ==
  /\ rdRow \in BOOLEAN /\ rdGranted \in BOOLEAN
  /\ rdDeclared \in SUBSET RdPatterns
  /\ rdRegister \in [RdRegisters ->
       [place : RdPlaces, declares : SUBSET RdPatterns, before : SUBSET RdPatterns,
        granted : BOOLEAN, widened : SUBSET RdPatterns]]
  /\ rdGrant \in [place : {"idle", "read"}, role : SUBSET RdPatterns]
  /\ rdKnown \in SUBSET RdPatterns /\ rdMissed \in SUBSET RdPatterns

(* A tunneled app is made without a declaration. *)
RdInit ==
  /\ rdRow = TRUE /\ rdDeclared = {} /\ rdGranted = FALSE
  /\ rdRegister = [w \in RdRegisters |-> RdIdle]
  /\ rdGrant = RdGrantIdle
  /\ rdKnown = {} /\ rdMissed = {}

-----------------------------------------------------------------------------
(* A registration *)

RdAt(w, place) == rdRegister[w].place = place
RdSet(w, register) == rdRegister' = [rdRegister EXCEPT ![w] = register]

(* The row is read; without one the socket is closed with 4003. *)
RdReads(w) ==
  /\ RdAt(w, "idle") /\ rdRow
  /\ \E declares \in SUBSET RdPatterns :
       RdSet(w, [RdIdle EXCEPT !.place = "read", !.declares = declares,
                               !.before = rdDeclared])
  /\ UNCHANGED <<rdOwner, rdDeclared, rdKnown, rdMissed>>

RdCounts(w) ==
  /\ RdAt(w, "read")
  /\ RdSet(w, [rdRegister[w] EXCEPT !.place = "counted", !.granted = rdGranted])
  /\ UNCHANGED <<rdOwner, rdDeclared, rdKnown, rdMissed>>

(* Fault: a role is taken as widened when it grew, so a pattern that was
   rewritten is no drift. *)
RdAdded_Grown(before, declares) ==
  IF Cardinality(declares) > Cardinality(before) THEN declares \ before ELSE {}

(* What a declaration adds to the one before it. *)
RdAdded(before, declares) == declares \ before

(* The UPDATE has no condition; of an app that is gone it changes nothing. *)
RdStores(w) ==
  LET held == rdRegister[w] IN
  /\ RdAt(w, "counted")
  /\ rdDeclared' = IF rdRow THEN held.declares ELSE rdDeclared
  /\ RdSet(w, [RdIdle EXCEPT !.place = "stored",
       !.widened = IF held.granted THEN RdAdded(held.before, held.declares) ELSE {}])
  /\ UNCHANGED <<rdOwner, rdKnown, rdMissed>>

(* connect.roles_widened, after the aliases and the registration's own row. *)
RdReports(w) ==
  /\ RdAt(w, "stored")
  /\ rdKnown' = rdKnown \cup rdRegister[w].widened
  /\ RdSet(w, RdIdle)
  /\ UNCHANGED <<rdOwner, rdDeclared, rdMissed>>

(* A query fails, the alias lane throws, or the object restarts: the handler
   ends where it is.  What it stored stays, and the next registration is
   compared with it. *)
RdEnds(w) ==
  /\ ~RdAt(w, "idle")
  /\ rdMissed' = rdMissed \cup rdRegister[w].widened
  /\ RdSet(w, RdIdle)
  /\ UNCHANGED <<rdOwner, rdDeclared, rdKnown>>

-----------------------------------------------------------------------------
(* The owner *)

(* setGrants reads the row it checks the entries with, *)
RdGrantReads ==
  /\ rdRow /\ rdGrant.place = "idle"
  /\ rdGrant' = [place |-> "read", role |-> rdDeclared]
  /\ UNCHANGED <<rdRow, rdDeclared, rdGranted, rdRegister, rdKnown, rdMissed>>

(* and replaces the grants.  A role that nobody held begins with what was read;
   what is stored since, or about to be, crossed it. *)
RdStoresNext == UNION {rdRegister[w].declares : w \in RdRegisters}

RdGrants ==
  /\ rdGrant.place = "read"
  /\ rdGrant' = RdGrantIdle
  /\ IF rdRow /\ ~rdGranted
       THEN /\ rdGranted' = TRUE
            /\ rdKnown' = rdGrant.role
            /\ rdMissed' = (rdDeclared \ rdGrant.role) \cup RdStoresNext
       ELSE UNCHANGED <<rdGranted, rdKnown, rdMissed>>
  /\ UNCHANGED <<rdRow, rdDeclared, rdRegister>>

(* The grants are replaced without the role, or the agent is deleted. *)
RdRevokes ==
  /\ rdGranted /\ rdGranted' = FALSE
  /\ UNCHANGED <<rdRow, rdGrant, rdDeclared, rdRegister, rdKnown, rdMissed>>

(* The app's row goes and takes its grants along. *)
RdDeletes ==
  /\ rdRow /\ rdRow' = FALSE /\ rdGranted' = FALSE
  /\ UNCHANGED <<rdGrant, rdDeclared, rdRegister, rdKnown, rdMissed>>

(* Nothing of a deleted app is under way. *)
RdDone ==
  /\ ~rdRow /\ rdGrant = RdGrantIdle
  /\ \A w \in RdRegisters : RdAt(w, "idle")
  /\ UNCHANGED rdVars

RdNext ==
  \/ \E w \in RdRegisters :
       RdReads(w) \/ RdCounts(w) \/ RdStores(w) \/ RdReports(w) \/ RdEnds(w)
  \/ RdGrantReads \/ RdGrants \/ RdRevokes \/ RdDeletes \/ RdDone

RdSpec == RdInit /\ [][RdNext]_rdVars

-----------------------------------------------------------------------------
(* Properties *)

(* What a registration has stored and is still to report. *)
RdOwed == UNION {rdRegister[w].widened : w \in RdRegisters}

(* An app never widens a granted role behind the owner's back: every pattern
   the role has was its own when it was granted, was named by a drift row since
   or is about to be, however registrations of the app and the owner's
   operations cross; but for what was stored across the grant itself, and what
   a registration that died after its UPDATE never reported
   (upsertDeclaredRoles, register). *)
RdNothingSilent == rdGranted => rdDeclared \subseteq rdKnown \cup rdMissed \cup RdOwed
=============================================================================
