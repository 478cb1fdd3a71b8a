--------------------------------- MODULE MCApp ---------------------------------
(* Two doors into the app, side by side: people and taps on an account's            *)
(* opportunities, the crew's link.  They share no table, so a behaviour is one of   *)
(* one part: "side" says of which.                                                  *)
EXTENDS MCOpportunity, Field

\* In the run one change order, two tabs that share an outbox, two people who decide.
CONSTANTS order, t1, t2, s1, s2, k1, k2

VARIABLE side

appVars == <<vars, side, fieldVars>>

AppInit == side \in {"opportunity", "field"} /\ Init /\ FieldInit

OpportunityStep == side = "opportunity" /\ Next /\ UNCHANGED <<side, fieldVars>>
FieldStep       == side = "field" /\ FieldNext /\ UNCHANGED <<vars, side>>

AppNext == OpportunityStep \/ FieldStep

\* The fairness of each part where it is at work.
AppSpec ==
    /\ AppInit /\ [][AppNext]_appVars
    /\ WF_vars(side = "opportunity" /\ Load("chain", Pair))
    /\ \A p \in Scorer : WF_vars(side = "opportunity" /\ Score(p))
    /\ \A p \in Person : WF_vars(side = "opportunity" /\ Respond(p))
    /\ WF_vars(side = "opportunity" /\ (SetState \/ InsertLabel))
    /\ \A t \in Tab : WF_fieldVars(side = "field" /\ Phone(t))
    /\ \A r \in Slot : WF_fieldVars(side = "field" /\ Server(r))

\* Where the chain is at work every row agrees with the scorer in the end
\* (score-run.ts:463-570).
ChainSettles == side = "opportunity" => ScoresSettle
================================================================================
