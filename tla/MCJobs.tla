--------------------------------- MODULE MCJobs ---------------------------------
(* One process after another: an extraction, its verification, an extraction again. *)
EXTENDS ModelJobs

CONSTANTS e1, e2, units, w1

MCGrade == [e \in Evidence |-> "A"]
MCAbout == [e \in Evidence |-> units]
MCAnswers  == {[facts |-> {e}, labeled |-> TRUE, clear |-> TRUE] : e \in Evidence}
MCPrice == [j \in Job \ {"memo"} |-> 1]
================================================================================
