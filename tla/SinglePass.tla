----------------------------- MODULE SinglePass -----------------------------
(***************************************************************************)
(* What the approval gate promises (server/src/approvals.ts, the header):  *)
(* a single-use pass the owner grants.  A call that takes a granted pass   *)
(* holds it alone; only that call can hand it back, and once it has let go *)
(* of a pass without handing it back nobody takes the pass again.          *)
(***************************************************************************)
EXTENDS Naturals

CONSTANTS Rows, Calls

VARIABLES
  pass,     \* row -> "none", "asked", "granted", "taken" or "closed"
  holder    \* call -> the row it holds, 0 when it holds none

passVars == <<pass, holder>>

PassInit ==
  /\ pass = [i \in Rows |-> "none"]
  /\ holder = [c \in Calls |-> 0]

Ask(i) ==
  /\ pass[i] = "none"
  /\ pass' = [pass EXCEPT ![i] = "asked"]
  /\ UNCHANGED holder

Grant(i) ==
  /\ pass[i] = "asked"
  /\ pass' = [pass EXCEPT ![i] = "granted"]
  /\ UNCHANGED holder

Refuse(i) ==
  /\ pass[i] = "asked"
  /\ pass' = [pass EXCEPT ![i] = "closed"]
  /\ UNCHANGED holder

Take(c, i) ==
  /\ holder[c] = 0
  /\ pass[i] = "granted"
  /\ pass' = [pass EXCEPT ![i] = "taken"]
  /\ holder' = [holder EXCEPT ![c] = i]

(* The call is gone before it is told that it took the pass: nobody holds the
   pass and nobody can hand it back. *)
Spend(i) ==
  /\ pass[i] = "granted"
  /\ pass' = [pass EXCEPT ![i] = "taken"]
  /\ UNCHANGED holder

HandBack(c) ==
  /\ holder[c] # 0
  /\ pass[holder[c]] = "taken"
  /\ pass' = [pass EXCEPT ![holder[c]] = "granted"]
  /\ holder' = [holder EXCEPT ![c] = 0]

(* The pass stays taken: it is spent. *)
LetGo(c) ==
  /\ holder[c] # 0
  /\ holder' = [holder EXCEPT ![c] = 0]
  /\ UNCHANGED pass

(* Old rows are forgotten, whatever became of them. *)
Forget(old) ==
  /\ pass' = [i \in Rows |-> IF i \in old THEN "closed" ELSE pass[i]]
  /\ UNCHANGED holder

PassNext ==
  \/ \E i \in Rows : Ask(i) \/ Grant(i) \/ Refuse(i) \/ Spend(i)
  \/ \E c \in Calls : HandBack(c) \/ LetGo(c) \/ \E i \in Rows : Take(c, i)
  \/ \E old \in SUBSET Rows : Forget(old)

Spec == PassInit /\ [][PassNext]_passVars
=============================================================================
