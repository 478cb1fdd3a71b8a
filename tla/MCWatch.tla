-------------------------------- MODULE MCWatch --------------------------------
(* What watches over the sources, side by side: the ledger of their runs with its   *)
(* health, and the worker's nights and Mondays, which bring the alerts to a person.  *)
(* They meet in no table the properties are about, so a behaviour is one of one      *)
(* part: "side" says of which.                                                       *)
EXTENDS MCSourceHealth, Scheduler

CONSTANTS bad, c1, c2, a1, a2

VARIABLE side

watchVars == <<vars, side, schedulerVars>>

WatchInit ==
    /\ side \in {"ledger", "night", "monday"}
    /\ Init /\ SchedulerInit
    /\ side # "night" => kind = [t \in Trouble |-> "daily"]

LedgerSide == side = "ledger" /\ Next /\ UNCHANGED <<side, schedulerVars>>

\* A bound: a chain is run by hand only where nothing has failed.
NightBound == faults' = 0 \/ nights'[c2].pc = "idle"

NightSide ==
    /\ side = "night" /\ UNCHANGED <<vars, side>>
    /\ Start \/ Stop \/ WorkerDies \/ Nightly
    /\ NightBound

\* A Monday, from its 05:15 to the next.
MondaySide ==
    /\ side = "monday" /\ UNCHANGED <<vars, side>>
    /\ Start \/ Stop \/ WorkerDies \/ Weekly

WatchNext == LedgerSide \/ NightSide \/ MondaySide

\* The fairness of each part where it is at work.
WatchSpec ==
    /\ WatchInit /\ [][WatchNext]_watchVars
    /\ WF_vars(side = "ledger" /\ Tick) /\ WF_vars(side = "ledger" /\ ReapOrphanedRuns)
    /\ WF_vars(side = "ledger" /\ RunAlerts)
    /\ WF_schedulerVars(side = "night" /\ Start)
    /\ SF_schedulerVars(side = "night" /\ TimePasses)
    /\ SF_schedulerVars(side = "night" /\ TakeJob)
    /\ \A c \in Chain : WF_schedulerVars(side = "night" /\ OnWithIt(c) /\ NightBound)
    /\ \A t \in Trouble : SF_schedulerVars(side = "night" /\ Through(t))
================================================================================
