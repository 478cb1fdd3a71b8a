------------------------------ MODULE MCSourceRun ------------------------------
(* Small instances of SourceRun: one permit and one bid on one or two pages,  *)
(* three bodies and two parser versions.  The first parser rejects the permit *)
(* of c1 and breaks on c3, both of which the second one reads; c1 and c3      *)
(* disagree about the permit, and what c3 says of it comes without evidence.  *)
EXTENDS SourceRun, TLC

CONSTANTS p1, s1, c1, c2, c3, v1, v2, f1, f2

MCEmits ==
    [v \in Version |-> [c \in Content |->
        [x \in Rec |->
            CASE c = c1 -> IF x = s1 THEN f1 ELSE IF v = v2 THEN f2 ELSE Bad
              [] c = c2 -> f2
              [] c = c3 -> IF x = p1 THEN f1 ELSE Bad]]]

Runs == Permutations(Run)

MCBacked == (Version \X Content \X Rec) \ {<<v2, c3, p1>>}

MCThrows == [v \in Version |-> IF v = v1 THEN {c3} \cap Content ELSE {}]
================================================================================
