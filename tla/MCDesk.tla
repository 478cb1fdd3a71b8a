--------------------------------- MODULE MCDesk ---------------------------------
(* The parts of an account's desk, side by side: a pursuit, its takeoff sheet, the  *)
(* intake of invitations.  They share no table but the pursuit's row, so a          *)
(* behaviour is one of one part: "side" says of which.                              *)
EXTENDS MCPursuit, Takeoff, Invitations

CONSTANTS q1, q2, m1, m2, m3, d1, d2, job, w1, w2

VARIABLE side

deskVars == <<vars, side, takeoffVars, intakeVars>>

\* An area with a level, a level alone, feet beside a valuation, a valuation alone.
MCReadings == {{"area", "level5"}, {"level5"}, {"valuation", "feet"}, {"valuation"},
               {"rated", "ceiling"}}

\* m1 opens the invitation of the job; m2 repeats its date, with an addendum; m3 moves
\* it.  A project the account does not see yet is not matched.
MCMatch == [m \in {m1, m2, m3} |-> IF m = m1 THEN {job} ELSE {job, Nothing}]
MCDue   == [m \in {m1, m2, m3} |-> IF m = m3 THEN d2 ELSE d1]

DeskInit ==
    /\ side \in {"pursuit", "takeoff", "intake"}
    /\ Init /\ (side # "pursuit" => row = None)
    /\ TakeoffInit /\ IntakeInit

PursuitStep == side = "pursuit" /\ Next /\ UNCHANGED <<side, takeoffVars, intakeVars>>
TakeoffStep == side = "takeoff" /\ TakeoffNext /\ UNCHANGED <<vars, side, intakeVars>>
IntakeStep  == side = "intake" /\ IntakeNext /\ UNCHANGED <<vars, side, takeoffVars>>

DeskNext == PursuitStep \/ TakeoffStep \/ IntakeStep
DeskSpec == DeskInit /\ [][DeskNext]_deskVars

DeskSymmetry == MCSymmetry \cup Permutations({q1, q2}) \cup Permutations({w1, w2})
================================================================================
