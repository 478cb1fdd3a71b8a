------------------------------ MODULE RunLifecycle ------------------------------
(***************************************************************************)
(* What the ledger (source_runs) promises about one row, whoever writes it: *)
(* a row is inserted once, the reaper may close it while it is still        *)
(* running, and the process that owns it reports at most once and has the   *)
(* last word.  SourceHealth implements it.                                   *)
(***************************************************************************)
CONSTANT Row
VARIABLE phase   \* where each row is in its life

Phase == {"absent", "running", "orphaned", "reported"}

Init == phase = [r \in Row |-> "absent"]

Move(r, from, to) == phase[r] \in from /\ phase' = [phase EXCEPT ![r] = to]

Insert(r) == Move(r, {"absent"}, "running")
Report(r) == Move(r, {"running", "orphaned"}, "reported")

\* The reaper closes any number of running rows in one statement.
Orphan == \E R \in SUBSET Row :
    /\ \A r \in R : phase[r] = "running"
    /\ phase' = [r \in Row |-> IF r \in R THEN "orphaned" ELSE phase[r]]

Next == Orphan \/ \E r \in Row : Insert(r) \/ Report(r)

Spec == Init /\ [][Next]_phase
================================================================================
