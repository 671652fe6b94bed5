------------------------------ MODULE RunLedger ------------------------------
(***************************************************************************)
(* What the ingest path promises, with nothing of how it does it.          *)
(*                                                                         *)
(* A finished game run is unknown to the server, held by it, recorded in   *)
(* the Run table, lost by it, or erased together with its student.  The    *)
(* game client is told "accepted" (202) or "already ingested" (200) only   *)
(* for a run the server knows.  Recording is at most once, and the totals  *)
(* a teacher sees grow by exactly the runs that are recorded.              *)
(*                                                                         *)
(* The loss step is there because the code has one: it is the only way an  *)
(* acknowledged run can disappear while its student exists.                *)
(***************************************************************************)
EXTENDS Naturals, FiniteSets

CONSTANTS
    Runs,        \* run ids, as the client or the normaliser chose them
    Students,
    StudentOf    \* the student a run's payload names

VARIABLES
    status,      \* what the server knows of each run
    acked,       \* runs some client was told are in good hands
    totals       \* runs counted in each student's statistics

ledgerVars == <<status, acked, totals>>

Status == {"unknown", "held", "recorded", "lost", "erased"}

RunsOf(s) == {r \in Runs : StudentOf[r] = s}

LedgerTypeOK ==
    /\ status \in [Runs -> Status]
    /\ acked \subseteq Runs
    /\ totals \in [Students -> Nat]

Init ==
    /\ status = [r \in Runs |-> "unknown"]
    /\ acked = {}
    /\ totals = [s \in Students |-> 0]

(***************************************************************************)
(* The server takes a copy of a run; a run it lost may be sent again.      *)
(***************************************************************************)
Take(r) ==
    status' = [status EXCEPT ![r] = IF @ \in {"unknown", "lost"} THEN "held" ELSE @]

Store(r) == Take(r) /\ UNCHANGED <<acked, totals>>

Accept(r) ==
    /\ Take(r)
    /\ acked' = acked \union {r}
    /\ UNCHANGED totals

Confirm(r) ==
    /\ status[r] \in {"recorded", "erased"}
    /\ acked' = acked \union {r}
    /\ UNCHANGED <<status, totals>>

Record(S) ==
    /\ \A r \in S : status[r] = "held"
    /\ status' = [r \in Runs |-> IF r \in S THEN "recorded" ELSE status[r]]
    /\ totals' = [s \in Students |-> totals[s] + Cardinality(S \intersect RunsOf(s))]
    /\ UNCHANGED acked

Lose(S) ==
    /\ \A r \in S : status[r] = "held"
    /\ status' = [r \in Runs |-> IF r \in S THEN "lost" ELSE status[r]]
    /\ UNCHANGED <<acked, totals>>

Erase(s) ==
    /\ status' = [r \in Runs |-> IF r \in RunsOf(s) THEN "erased" ELSE status[r]]
    /\ totals' = [totals EXCEPT ![s] = 0]
    /\ UNCHANGED acked

Next ==
    \/ \E r \in Runs : Store(r) \/ Accept(r) \/ Confirm(r)
    \/ \E S \in SUBSET Runs : Record(S) \/ Lose(S)
    \/ \E s \in Students : Erase(s)

Spec == Init /\ [][Next]_ledgerVars
=============================================================================
