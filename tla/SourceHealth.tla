------------------------------ MODULE SourceHealth ------------------------------
(***************************************************************************)
(* The run ledger of one source and everything that reads it: the three     *)
(* ways a run is started (a CLI, the pg-boss queue, a replay), the reaper    *)
(* (source-sdk/reap.ts), evaluateSourceHealth (source-sdk/health.ts), the    *)
(* flow assertion (source-sdk/flow.ts) and the source alerts the nightly     *)
(* maintenance chain raises (delivery/alerts.ts).                            *)
(*                                                                          *)
(* Rows are kept in the order of started_at.  A tick of the clock is one     *)
(* night.  What a run can report is a record of the set Outcome: the         *)
(* counters of its terminal write, whether checkInvariants complained, the   *)
(* schema fingerprint, and the fill rate (in percent) of a required field.   *)
(***************************************************************************)
EXTENDS Integers, Sequences, FiniteSets

CONSTANTS
    Kind,          \* the ways runs are started here, of {"cli", "queue", "replay"}
    Outcome,       \* what a run that reaches its terminal write may report
    Schema,        \* schema fingerprints
    Window,        \* rows evaluateSourceHealth looks at (LIMIT 5)
    OrphanAfter,   \* age beyond which a running row is reaped
    StaleAfter,    \* twice the cadence, in ticks
    FlowWindow,    \* FLOW_WINDOW_HOURS, in ticks
    MaxRuns,       \* bound: rows of the ledger
    MaxLive,       \* bound: processes at work at once
    MaxClock,      \* bound: ticks
    Failed,        \* the report of a run that threw
    None

OutcomeType ==
    [status : {"succeeded", "completed_with_errors"}, discovered : Nat, parsed : Nat,
     unchanged : Nat, duplicate : Nat, viol : BOOLEAN, schema : Schema \cup {None},
     fill : 0..100]

ASSUME SourceHealthAssumption ==
    /\ Kind \subseteq {"cli", "queue", "replay"}
    /\ Outcome \subseteq OutcomeType
    /\ None \notin Outcome \cup {Failed} /\ Failed \notin Outcome
    /\ Window \in Nat \ {0} /\ MaxRuns \in Nat /\ MaxLive \in Nat /\ MaxClock \in Nat
    /\ OrphanAfter \in Nat /\ StaleAfter \in Nat /\ FlowWindow \in Nat

VARIABLES
    clock,     \* now
    runs,      \* the rows of source_runs, oldest first
    proc,      \* the process behind each row
    read,      \* what an evaluating process has concluded (None: nothing)
    truth,     \* history: what the process of each row reported (None: nothing)
    coverage,  \* coverage_entries: freshness_state and last_success_at
    chain,     \* where the maintenance chain is
    alerts     \* the types of alert the latest maintenance chain raised

vars == <<clock, runs, proc, read, truth, coverage, chain, alerts>>

RunStatus == {"running", "succeeded", "completed_with_errors", "failed"}
Row == [status : RunStatus, started : Nat, completed : Nat \cup {None}, orphaned : BOOLEAN,
        discovered : Nat, parsed : Nat, unchanged : Nat, duplicate : Nat,
        viol : BOOLEAN, schema : Schema \cup {None}, fill : (0..100) \cup {None}]
Health == [state : {"green", "amber", "red"}, lastSuccess : Nat \cup {None}]

ASSUME NoneIsNoHealth == None \notin Health

AlertType == {"source_red", "source_stale", "source_no_flow"}

TypeOK ==
    /\ clock \in 0..MaxClock
    /\ runs \in Seq(Row) /\ Len(runs) <= MaxRuns
    /\ proc \in [DOMAIN runs -> Kind \cup {"evaluate", "write", "gone"}]
    /\ read \in [DOMAIN runs -> Health \cup {None}]
    /\ truth \in [DOMAIN runs -> Outcome \cup {Failed, None}]
    /\ coverage \in Health
    /\ chain \in {"idle", "reaped"}
    /\ alerts \subseteq AlertType

\* coverage_entries.freshness_state defaults to amber.
Init ==
    /\ clock = 0
    /\ runs = <<>>
    /\ proc = <<>>
    /\ read = <<>>
    /\ truth = <<>>
    /\ coverage = [state |-> "amber", lastSuccess |-> None]
    /\ chain = "idle"
    /\ alerts = {}

--------------------------------------------------------------------------------
(* The processes that write the ledger.                                     *)

NewRow == [status |-> "running", started |-> clock, completed |-> None, orphaned |-> FALSE,
           discovered |-> 0, parsed |-> 0, unchanged |-> 0, duplicate |-> 0,
           viol |-> FALSE, schema |-> None, fill |-> None]

AtWork == {i \in DOMAIN runs : proc[i] # "gone"}

\* (No run starts so late that it could not be reaped before the clock stops.)
StartRun(k) ==
    /\ Len(runs) < MaxRuns
    /\ Cardinality(AtWork) < MaxLive
    /\ clock + OrphanAfter < MaxClock
    /\ runs' = Append(runs, NewRow)
    /\ proc' = Append(proc, k)
    /\ read' = Append(read, None)
    /\ truth' = Append(truth, None)
    /\ UNCHANGED <<clock, coverage, chain, alerts>>

\* The terminal write: an unconditional update by primary key that replaces
\* metrics_json as a whole.  The fill rates the run has computed are not in it.
Report(row, o) ==
    [row EXCEPT !.status = o.status, !.completed = clock, !.orphaned = FALSE,
                !.discovered = o.discovered, !.parsed = o.parsed,
                !.unchanged = o.unchanged, !.duplicate = o.duplicate,
                !.viol = o.viol, !.schema = o.schema, !.fill = None]

\* A CLI goes on to evaluate the health of its source, a queue worker does not.
FinishRun(i, o) ==
    /\ proc[i] \in {"cli", "queue"}
    /\ runs' = [runs EXCEPT ![i] = Report(@, o)]
    /\ proc' = [proc EXCEPT ![i] = IF @ = "cli" THEN "evaluate" ELSE "gone"]
    /\ truth' = [truth EXCEPT ![i] = o]
    /\ UNCHANGED <<clock, read, coverage, chain, alerts>>

\* The outer catch of runSource, which knows of violations only when it was the
\* terminal write that threw.  executeSourceRun then throws, so neither a CLI
\* nor a queue worker evaluates anything.
FailRun(i, v) ==
    /\ proc[i] \in {"cli", "queue"}
    /\ runs' = [runs EXCEPT ![i] = [@ EXCEPT !.status = "failed", !.completed = clock,
                                             !.orphaned = FALSE, !.viol = v]]
    /\ proc' = [proc EXCEPT ![i] = "gone"]
    /\ truth' = [truth EXCEPT ![i] = Failed]
    /\ UNCHANGED <<clock, read, coverage, chain, alerts>>

\* A replay reports what it parsed; it discovers nothing.
FinishReplay(i, o) ==
    /\ proc[i] = "replay"
    /\ runs' = [runs EXCEPT ![i] = [@ EXCEPT !.status = o.status, !.completed = clock,
                                             !.orphaned = FALSE, !.parsed = o.parsed]]
    /\ proc' = [proc EXCEPT ![i] = "gone"]
    /\ truth' = [truth EXCEPT ![i] = o]
    /\ UNCHANGED <<clock, read, coverage, chain, alerts>>

\* The process dies before its terminal write, or before it evaluates.
Die(i) ==
    /\ proc[i] # "gone"
    /\ proc' = [proc EXCEPT ![i] = "gone"]
    /\ UNCHANGED <<clock, runs, read, truth, coverage, chain, alerts>>

--------------------------------------------------------------------------------
(* evaluateSourceHealth.                                                    *)

\* mutant: a reaped run counts as a success
SuccessOrOrphan(row) == row.status \in {"succeeded", "completed_with_errors"}

Success(row) == row.status \in {"succeeded", "completed_with_errors"} /\ ~row.orphaned

\* The newest Window rows, those of them that are not running, and the n-th
\* newest of a set of rows.
Recent        == {i \in DOMAIN runs : i > Len(runs) - Window}
Completed     == {i \in Recent : runs[i].status # "running"}
Nth(S, n)     == CHOOSE i \in S : Cardinality({j \in S : j > i}) = n - 1
Latest        == runs[Nth(Completed, 1)]
Previous      == runs[Nth(Completed, 2)]
HasPrevious   == Cardinality(Completed) >= 2
Successes     == {i \in Completed : Success(runs[i])}
LastSuccessAt == IF Successes = {} THEN None ELSE runs[Nth(Successes, 1)].completed

Filled  == {i \in Completed : runs[i].fill # None}
Hashed  == {i \in Completed : runs[i].schema # None}

TwoFailed   == HasPrevious /\ Latest.status = "failed" /\ Previous.status = "failed"
TwoOrphaned == HasPrevious /\ Latest.orphaned /\ Previous.orphaned
Stale       == LastSuccessAt # None /\ clock - LastSuccessAt > StaleAfter
ZeroUsable  == /\ Latest.status # "failed" /\ ~Latest.orphaned
               /\ Latest.discovered > 0
               /\ Latest.parsed = 0 /\ Latest.unchanged = 0 /\ Latest.duplicate = 0
FillFloor   == Filled # {} /\ runs[Nth(Filled, 1)].fill < 25
FillDrop    == /\ Cardinality(Filled) >= 2
               /\ LET prev == runs[Nth(Filled, 2)].fill
                  IN  prev >= 50 /\ 100 * runs[Nth(Filled, 1)].fill < 80 * prev
SchemaDrift == /\ Cardinality(Hashed) >= 2
               /\ LET new == Nth(Hashed, 1)
                  IN  \A i \in Hashed \ {new} : runs[i].schema # runs[new].schema
VolumeDrop  == /\ HasPrevious /\ Previous.parsed > 0
               /\ ~Latest.orphaned /\ Latest.unchanged = 0 /\ Latest.duplicate = 0
               /\ 2 * Latest.parsed < Previous.parsed + Previous.duplicate

Red   == TwoFailed \/ TwoOrphaned \/ Stale \/ ZeroUsable \/ Latest.viol
           \/ FillFloor \/ FillDrop
Amber == Latest.status = "failed" \/ Latest.orphaned \/ SchemaDrift \/ VolumeDrop

Verdict == IF Red THEN "red" ELSE IF Amber THEN "amber" ELSE "green"

\* The rows are read and judged in memory; with no completed row in the window
\* the evaluation returns before it writes anything ...
EvaluateHealth(i) ==
    /\ proc[i] = "evaluate"
    /\ read' = [read EXCEPT ![i] = IF Completed = {} THEN None
                                     ELSE [state |-> Verdict, lastSuccess |-> LastSuccessAt]]
    /\ proc' = [proc EXCEPT ![i] = IF Completed = {} THEN "gone" ELSE "write"]
    /\ UNCHANGED <<clock, runs, truth, coverage, chain, alerts>>

\* ... and the coverage row is written by a later statement.
WriteCoverage(i) ==
    /\ proc[i] = "write"
    /\ coverage' = read[i]
    /\ read' = [read EXCEPT ![i] = None]
    /\ proc' = [proc EXCEPT ![i] = "gone"]
    /\ UNCHANGED <<clock, runs, truth, chain, alerts>>

--------------------------------------------------------------------------------
(* The maintenance chain: reap, ..., alerts.                                *)

\* mutants: a run that finished meanwhile is matched; the comparison is flipped
ReapableLate(row)  == clock - row.started > OrphanAfter /\ ~row.orphaned
ReapableYoung(row) == row.status = "running" /\ clock - row.started < OrphanAfter

\* One statement, guarded by status = 'running'.
Reapable(row) == row.status = "running" /\ clock - row.started > OrphanAfter

ReapOrphanedRuns ==
    /\ chain = "idle"
    /\ runs' = [i \in DOMAIN runs |->
                  IF Reapable(runs[i])
                    THEN [runs[i] EXCEPT !.status = "completed_with_errors",
                                         !.completed = clock, !.orphaned = TRUE]
                    ELSE runs[i]]
    /\ chain' = "reaped"
    /\ UNCHANGED <<clock, proc, read, truth, coverage, alerts>>

\* assertSourceFlow over the whole ledger.
InWindow == {i \in DOMAIN runs : clock - runs[i].started <= FlowWindow}
Usable(row) == row.parsed + row.duplicate + row.unchanged
\* mutant: a run in the window is enough, whatever it brought
FlowStateRan == IF InWindow = {} THEN "no_run_in_window" ELSE "flowing"

FlowState ==
    CASE runs = <<>> -> "never_ran"
      [] InWindow = {} -> "no_run_in_window"
      [] InWindow # {} /\ \A i \in InWindow : runs[i].orphaned -> "unknown"
      [] (\E i \in InWindow : ~runs[i].orphaned)
           /\ (\A i \in InWindow : ~runs[i].orphaned => Usable(runs[i]) = 0)
           -> "no_records_in_window"
      [] OTHER -> "flowing"

\* The coverage row is read as it stands: the chain evaluates no health.
Firing(type) ==
    CASE type = "source_red"     -> coverage.state = "red"
      [] type = "source_stale"   -> /\ coverage.lastSuccess # None
                                    /\ clock - coverage.lastSuccess > StaleAfter
      [] type = "source_no_flow" -> FlowState # "flowing"

RunAlerts ==
    /\ chain = "reaped"
    /\ alerts' = {type \in AlertType : Firing(type)}
    /\ chain' = "idle"
    /\ UNCHANGED <<clock, runs, proc, read, truth, coverage>>

\* A step of the chain between the two throws.
ChainFails ==
    /\ chain = "reaped"
    /\ chain' = "idle"
    /\ UNCHANGED <<clock, runs, proc, read, truth, coverage, alerts>>

Tick ==
    /\ clock < MaxClock
    /\ clock' = clock + 1
    /\ UNCHANGED <<runs, proc, read, truth, coverage, chain, alerts>>

--------------------------------------------------------------------------------
Next ==
    \/ Tick
    \/ \E k \in Kind : StartRun(k)
    \/ \E i \in DOMAIN runs :
          \/ \E o \in Outcome : FinishRun(i, o) \/ FinishReplay(i, o)
          \/ \E v \in BOOLEAN : FailRun(i, v)
          \/ Die(i) \/ EvaluateHealth(i) \/ WriteCoverage(i)
    \/ ReapOrphanedRuns \/ RunAlerts \/ ChainFails

Spec == Init /\ [][Next]_vars

\* Time passes and the nightly chain runs; no process is obliged to finish.
FairSpec == Spec /\ WF_vars(Tick) /\ WF_vars(ReapOrphanedRuns) /\ WF_vars(RunAlerts)

--------------------------------------------------------------------------------
(* Safety.                                                                  *)

\* Reaping is self-healing and never clobbers: a row carries what its own
\* process reported, whenever the reaper came, and a row that nobody reported
\* on is running or marked as an orphan.
LedgerTellsTruth ==
    \A i \in DOMAIN runs :
        CASE truth[i] = None     -> runs[i].status = "running" \/ runs[i].orphaned
          [] truth[i] = Failed -> runs[i].status = "failed" /\ ~runs[i].orphaned
          [] OTHER               -> /\ runs[i].status = truth[i].status
                                    /\ runs[i].parsed = truth[i].parsed
                                    /\ ~runs[i].orphaned

\* A dead feed cannot look fresh: last_success_at is always the moment at which
\* some process itself reported success, never the moment of a reaping.
FreshnessIsEarned ==
    coverage.lastSuccess # None =>
        \E i \in DOMAIN runs : /\ truth[i] \in Outcome
                               /\ runs[i].completed = coverage.lastSuccess

\* The row of the run ledger i, as RunLifecycle sees it.
LedgerPhase ==
    [i \in 1..MaxRuns |->
        IF i > Len(runs) THEN "absent"
        ELSE IF runs[i].status = "running" THEN "running"
        ELSE IF runs[i].orphaned THEN "orphaned" ELSE "reported"]

\* The processes, the reaper and the replays together keep the life cycle of
\* every row: inserted once, closed by the reaper only while running, reported
\* by its owner at most once and last.
Ledger == INSTANCE RunLifecycle WITH Row <- 1..MaxRuns, phase <- LedgerPhase
LedgerLifecycle == Ledger!Spec

\* A source that stopped producing is announced whatever its coverage row
\* says: when the nightly alerts run and no run that began in the flow window
\* reported a usable record, an alert is raised.
DeadFeedAnnounced ==
    [][RunAlerts /\ (\A i \in InWindow : truth[i] \in Outcome => Usable(truth[i]) = 0)
          => alerts' # {}]_vars

(* Liveness.                                                                *)

\* A run whose process died is not left 'running' for ever, where the health
\* check cannot see it.
DeadRunsClosed ==
    \A i \in 1..MaxRuns :
        (i \in DOMAIN runs /\ proc[i] = "gone" /\ runs[i].status = "running")
          ~> (i \in DOMAIN runs /\ runs[i].status # "running")
================================================================================
