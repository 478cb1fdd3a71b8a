----------------------------- MODULE MCSourceHealth -----------------------------
(* Small instances of SourceHealth: a healthy harvest, an unchanged one, one   *)
(* that finds nothing usable, and one with violations and a field gone.        *)
EXTENDS SourceHealth

CONSTANTS h1, h2

Base == [status |-> "succeeded", discovered |-> 1, parsed |-> 0, unchanged |-> 0,
         duplicate |-> 0, viol |-> FALSE, schema |-> None, fill |-> 0]

Harvest   == [Base EXCEPT !.parsed = 4, !.schema = h1, !.fill = 90]
Unchanged == [Base EXCEPT !.unchanged = 1]
Useless   == [Base EXCEPT !.status = "completed_with_errors"]
Drifted   == [Base EXCEPT !.parsed = 4, !.viol = TRUE, !.schema = h2, !.fill = 30]

MCReports == {Harvest, Unchanged, Useless, Drifted}
================================================================================
