------------------------------ MODULE WatchProofs ------------------------------
(***************************************************************************)
(* Proofs about SourceHealth and Scheduler for every value of their         *)
(* constants.  Of the ledger: types, rows that tell what the processes      *)
(* reported (LedgerTellsTruth), the freshness that only a report can grant  *)
(* (FreshnessIsEarned), alerts that pass over no dead feed                  *)
(* (DeadFeedAnnounced), and the ledger as an implementation of              *)
(* RunLifecycle.  Of the worker: types, no alert mailed twice and no        *)
(* account left without its draft (NoneTwiceNoneMissed).                    *)
(***************************************************************************)
EXTENDS SourceHealth, Scheduler, FiniteSetTheorems, WellFoundedInduction, TLAPS

\* The types alone.
Typed ==
    /\ clock \in Nat
    /\ runs \in Seq(Row) /\ Len(runs) <= MaxRuns
    /\ proc \in [DOMAIN runs -> Kind \cup {"evaluate", "write", "gone"}]
    /\ read \in [DOMAIN runs -> Health \cup {None}]
    /\ truth \in [DOMAIN runs -> Outcome \cup {Failed, None}]
    /\ coverage \in Health

\* What the row i says, against what its process reported.
Truthful(i) ==
    /\ truth[i] = None => runs[i].status = "running" \/ runs[i].orphaned
    /\ truth[i] = Failed => runs[i].status = "failed" /\ ~runs[i].orphaned
    /\ truth[i] \in Outcome => /\ runs[i].status = truth[i].status
                               /\ runs[i].parsed = truth[i].parsed
                               /\ ~runs[i].orphaned

\* A process that is still at its run has reported nothing; one that evaluates
\* has; one that is about to write has something to write.
Placed(i) ==
    /\ proc[i] \in Kind => truth[i] = None
    /\ proc[i] = "write" => read[i] # None

\* A moment of success is one that some process reported.
Earned(h) ==
    h.lastSuccess # None =>
        \E j \in DOMAIN runs : truth[j] \in Outcome /\ runs[j].completed = h.lastSuccess

LedgerInv ==
    /\ Typed
    /\ \A i \in DOMAIN runs : Truthful(i) /\ Placed(i)
    /\ Earned(coverage)
    /\ \A i \in DOMAIN runs : read[i] # None => Earned(read[i])

--------------------------------------------------------------------------------
(* Lemmas about the operators.                                              *)

\* A set of rows that is not empty has a newest one, which is Nth(S, 1).
LEMMA NewestExists ==
    ASSUME NEW n \in Nat, NEW S \in SUBSET (1..n), S # {}
    PROVE  Nth(S, 1) \in S
<1> DEFINE T == {n - i : i \in S}
<1>0. ASSUME NEW i \in S PROVE n - i \in Nat
  <2>1. i \in 1..n
    OBVIOUS
  <2> QED BY <2>1
<1>1. T \subseteq Nat /\ T # {}
  BY <1>0
<1>2. \E x \in T : \A y \in T : ~(<<y, x>> \in OpToRel(<, Nat))
  BY <1>1, NatLessThanWellFounded, WFMin
<1>3. PICK x \in T : \A y \in T : ~(y < x)
  BY <1>1, <1>2 DEF OpToRel
<1>4. PICK m \in S : x = n - m
  OBVIOUS
<1>5. {j \in S : j > m} = {}
  <2>1. ASSUME NEW j \in S PROVE ~(j > m)
    <3>1. n - j \in T
      OBVIOUS
    <3>2. ~(n - j < n - m)
      BY <1>3, <1>4, <3>1
    <3>3. j \in 1..n /\ m \in 1..n
      OBVIOUS
    <3> QED BY <3>2, <3>3
  <2> QED BY <2>1
<1>6. Cardinality({j \in S : j > m}) = 0
  BY <1>5, FS_EmptySet
<1> QED BY <1>6 DEF Nth

\* The evaluation's conclusion is a Health.
LEMMA VerdictTyped == Verdict \in {"green", "amber", "red"}
BY DEF Verdict

\* The moment the evaluation takes for the last success is one that a process
\* reported.
LEMMA LastSuccessEarned ==
    ASSUME Typed, \A i \in DOMAIN runs : Truthful(i)
    PROVE  /\ LastSuccessAt \in Nat \cup {None}
           /\ LastSuccessAt # None =>
                \E j \in DOMAIN runs : truth[j] \in Outcome /\ runs[j].completed = LastSuccessAt
<1>1. CASE Successes = {}
  BY <1>1 DEF LastSuccessAt
<1>2. CASE Successes # {}
  <2> DEFINE j == Nth(Successes, 1)
  <2>1. DOMAIN runs = 1..Len(runs) /\ Len(runs) \in Nat
    BY DEF Typed
  <2>2. j \in Successes
    BY <1>2, <2>1, NewestExists DEF Successes, Completed, Recent
  <2>3. j \in DOMAIN runs /\ Success(runs[j])
    BY <2>2 DEF Successes, Completed, Recent
  <2>4. runs[j] \in Row
    BY <2>1, <2>3 DEF Typed
  <2>5. truth[j] \in Outcome
    BY <2>3 DEF Truthful, Typed, Success
  <2>6. LastSuccessAt = runs[j].completed
    BY <1>2 DEF LastSuccessAt
  <2> HIDE DEF j
  <2> QED BY <2>3, <2>4, <2>5, <2>6 DEF Row
<1> QED BY <1>1, <1>2

\* The row of a report that is not a running one.
LEMMA ReportTyped ==
    ASSUME NEW row \in Row, NEW o \in Outcome, clock \in Nat
    PROVE  /\ Report(row, o) \in Row
           /\ Report(row, o).status = o.status
           /\ Report(row, o).parsed = o.parsed
           /\ ~Report(row, o).orphaned
BY SourceHealthAssumption DEF Report, Row, OutcomeType, RunStatus

\* What an action does to a process that was at its run: it reports.
Reported(i, row, t) ==
    /\ row \in Row /\ runs' = [runs EXCEPT ![i] = row]
    /\ truth' = [truth EXCEPT ![i] = t]
    /\ row.status # "running" /\ ~row.orphaned
    /\ \/ t = Failed /\ row.status = "failed"
       \/ t \in Outcome /\ row.status = t.status /\ row.parsed = t.parsed

LEMMA FinishRunReports ==
    ASSUME Typed, NEW i \in DOMAIN runs, NEW o \in Outcome, FinishRun(i, o)
    PROVE  Reported(i, Report(runs[i], o), o)
<1>1. runs[i] \in Row /\ clock \in Nat
  BY DEF Typed
<1>2. o.status # "running"
  BY SourceHealthAssumption DEF OutcomeType
<1> QED BY <1>1, <1>2, ReportTyped DEF FinishRun, Reported

LEMMA FailRunReports ==
    ASSUME Typed, NEW i \in DOMAIN runs, NEW v \in BOOLEAN, FailRun(i, v)
    PROVE  \E row \in Row : Reported(i, row, Failed)
<1> DEFINE row == [runs[i] EXCEPT !.status = "failed", !.completed = clock,
                                  !.orphaned = FALSE, !.viol = v]
<1>1. runs[i] \in Row /\ clock \in Nat
  BY DEF Typed
<1>2. row \in Row /\ row.status = "failed" /\ ~row.orphaned
  BY <1>1 DEF Row, RunStatus
<1>3. runs' = [runs EXCEPT ![i] = row] /\ truth' = [truth EXCEPT ![i] = Failed]
  BY DEF FailRun
<1> QED BY <1>2, <1>3 DEF Reported

LEMMA FinishReplayReports ==
    ASSUME Typed, NEW i \in DOMAIN runs, NEW o \in Outcome, FinishReplay(i, o)
    PROVE  \E row \in Row : Reported(i, row, o)
<1> DEFINE row == [runs[i] EXCEPT !.status = o.status, !.completed = clock,
                                  !.orphaned = FALSE, !.parsed = o.parsed]
<1>1. runs[i] \in Row /\ clock \in Nat
  BY DEF Typed
<1>2. o.status \in {"succeeded", "completed_with_errors"} /\ o.parsed \in Nat
  BY SourceHealthAssumption DEF OutcomeType
<1>3. row \in Row /\ row.status = o.status /\ row.parsed = o.parsed /\ ~row.orphaned
  BY <1>1, <1>2 DEF Row, RunStatus
<1>4. runs' = [runs EXCEPT ![i] = row] /\ truth' = [truth EXCEPT ![i] = o]
  BY DEF FinishReplay
<1> QED BY <1>2, <1>3, <1>4 DEF Reported

\* A row that its process has reported on keeps its completion time.
LEMMA EarnedKept ==
    ASSUME NEW h, Earned(h), DOMAIN runs \subseteq DOMAIN runs',
           \A j \in DOMAIN runs : truth[j] \in Outcome =>
               truth'[j] \in Outcome /\ runs'[j].completed = runs[j].completed
    PROVE  h.lastSuccess # None =>
             \E j \in DOMAIN runs' : truth'[j] \in Outcome /\ runs'[j].completed = h.lastSuccess
BY DEF Earned

--------------------------------------------------------------------------------
(* The inductive invariant.                                                 *)

LEMMA LedgerInvInit == Init => LedgerInv
<1> SUFFICES ASSUME Init PROVE LedgerInv
  OBVIOUS
<1>1. DOMAIN runs = {} /\ Len(runs) = 0 /\ runs \in Seq(Row)
  BY DEF Init
<1>2. Typed
  BY <1>1, SourceHealthAssumption DEF Init, Typed, Health
<1>3. Earned(coverage)
  BY DEF Init, Earned
<1> QED BY <1>1, <1>2, <1>3 DEF LedgerInv

\* A process reports: the row becomes what it reported, no other row changes.
LEMMA ReportKeeps ==
    ASSUME LedgerInv, NEW i \in DOMAIN runs, NEW row, NEW t, Reported(i, row, t),
           proc[i] \in Kind, NEW pc \in {"evaluate", "gone"},
           proc' = [proc EXCEPT ![i] = pc], UNCHANGED <<clock, read, coverage>>
    PROVE  LedgerInv'
<1> USE DEF LedgerInv
<1>1. DOMAIN runs' = DOMAIN runs /\ Len(runs') = Len(runs) /\ runs' \in Seq(Row)
  BY DEF Reported, Typed
<1>2. Typed'
  BY <1>1 DEF Reported, Typed
<1>3. truth[i] = None
  BY DEF Placed
<1>4. \A j \in DOMAIN runs : j # i => /\ runs'[j] = runs[j] /\ truth'[j] = truth[j]
                                      /\ proc'[j] = proc[j] /\ read'[j] = read[j]
  BY DEF Reported, Typed
<1>5. runs'[i] = row /\ truth'[i] = t /\ proc'[i] = pc
  BY DEF Reported, Typed
<1>6. ASSUME NEW j \in DOMAIN runs' PROVE Truthful(j)' /\ Placed(j)'
  <2>1. CASE j = i
    <3>1. Truthful(i)'
      BY <1>5, SourceHealthAssumption DEF Reported, Truthful
    <3>2. Placed(i)'
      BY <1>5, SourceHealthAssumption DEF Placed
    <3> QED BY <2>1, <3>1, <3>2
  <2>2. CASE j # i
    BY <1>1, <1>4, <2>2 DEF Truthful, Placed
  <2> QED BY <2>1, <2>2
<1>7. \A j \in DOMAIN runs : truth[j] \in Outcome =>
          truth'[j] \in Outcome /\ runs'[j].completed = runs[j].completed
  BY <1>3, <1>4, SourceHealthAssumption
<1>8. Earned(coverage)'
  BY <1>1, <1>7, EarnedKept DEF Earned
<1>9. ASSUME NEW j \in DOMAIN runs', read'[j] # None PROVE Earned(read[j])'
  <2>1. Earned(read[j])
    BY <1>1, <1>9
  <2> QED BY <1>1, <1>7, <2>1, EarnedKept DEF Earned
<1> QED BY <1>2, <1>6, <1>8, <1>9

\* Appending to a sequence, as a function.
LEMMA Appended ==
    ASSUME NEW S, NEW s \in Seq(S), NEW e \in S
    PROVE  /\ Append(s, e) \in [1..(Len(s) + 1) -> S]
           /\ Append(s, e)[Len(s) + 1] = e
           /\ \A j \in 1..Len(s) : Append(s, e)[j] = s[j]
<1> DEFINE t == Append(s, e)
<1>1. t \in Seq(S) /\ Len(t) = Len(s) + 1 /\ Len(s) \in Nat
  OBVIOUS
<1>3. t[Len(s) + 1] = e
  OBVIOUS
<1>4. ASSUME NEW j \in 1..Len(s) PROVE t[j] = s[j]
  OBVIOUS
<1>5. t \in [1..Len(t) -> S]
  <2> HIDE DEF t
  <2> QED BY <1>1
<1> QED BY <1>1, <1>3, <1>4, <1>5

LEMMA LedgerInvStartRun ==
    ASSUME LedgerInv, NEW k \in Kind, StartRun(k) PROVE LedgerInv'
<1> USE DEF LedgerInv
<1> DEFINE n == Len(runs) + 1
<1>1. /\ runs \in Seq(Row) /\ Len(runs) \in Nat /\ DOMAIN runs = 1..Len(runs)
      /\ proc \in Seq(Kind \cup {"evaluate", "write", "gone"}) /\ Len(proc) = Len(runs)
      /\ read \in Seq(Health \cup {None}) /\ Len(read) = Len(runs)
      /\ truth \in Seq(Outcome \cup {Failed, None}) /\ Len(truth) = Len(runs)
  BY DEF Typed
<1>2. NewRow \in Row /\ NewRow.status = "running"
  BY DEF NewRow, Row, RunStatus, Typed
<1>3. /\ runs' = Append(runs, NewRow) /\ proc' = Append(proc, k)
      /\ read' = Append(read, None) /\ truth' = Append(truth, None)
      /\ UNCHANGED <<clock, coverage>> /\ Len(runs) < MaxRuns
  BY DEF StartRun
<1>4. /\ runs' \in Seq(Row) /\ Len(runs') = n /\ DOMAIN runs' = 1..n /\ runs'[n] = NewRow
      /\ \A j \in 1..Len(runs) : runs'[j] = runs[j]
  BY <1>1, <1>2, <1>3
<1>5. /\ proc' \in [1..n -> Kind \cup {"evaluate", "write", "gone"}] /\ proc'[n] = k
      /\ \A j \in 1..Len(runs) : proc'[j] = proc[j]
  <2> DEFINE S == Kind \cup {"evaluate", "write", "gone"}
  <2>1. k \in S /\ proc \in Seq(S) /\ Len(proc) = Len(runs) /\ proc' = Append(proc, k)
    BY <1>1, <1>3
  <2> HIDE DEF S
  <2>2. /\ proc' \in [1..n -> S] /\ proc'[n] = k
        /\ \A j \in 1..Len(runs) : proc'[j] = proc[j]
    BY <2>1, Appended
  <2> QED BY <2>2 DEF S
<1>6. /\ read' \in [1..n -> Health \cup {None}] /\ read'[n] = None
      /\ \A j \in 1..Len(runs) : read'[j] = read[j]
  <2> DEFINE S == Health \cup {None}
  <2>1. None \in S /\ read \in Seq(S) /\ Len(read) = Len(runs) /\ read' = Append(read, None)
    BY <1>1, <1>3
  <2> HIDE DEF S
  <2>2. /\ read' \in [1..n -> S] /\ read'[n] = None
        /\ \A j \in 1..Len(runs) : read'[j] = read[j]
    BY <2>1, Appended
  <2> QED BY <2>2 DEF S
<1>7. /\ truth' \in [1..n -> Outcome \cup {Failed, None}] /\ truth'[n] = None
      /\ \A j \in 1..Len(runs) : truth'[j] = truth[j]
  <2> DEFINE S == Outcome \cup {Failed, None}
  <2>1. None \in S /\ truth \in Seq(S) /\ Len(truth) = Len(runs) /\ truth' = Append(truth, None)
    BY <1>1, <1>3
  <2> HIDE DEF S
  <2>2. /\ truth' \in [1..n -> S] /\ truth'[n] = None
        /\ \A j \in 1..Len(runs) : truth'[j] = truth[j]
    BY <2>1, Appended
  <2> QED BY <2>2 DEF S
<1>8. Typed'
  BY <1>1, <1>3, <1>4, <1>5, <1>6, <1>7, SourceHealthAssumption DEF Typed
<1>9. ASSUME NEW j \in DOMAIN runs' PROVE Truthful(j)' /\ Placed(j)'
  <2>1. CASE j = n
    <3> HIDE DEF n
    <3>1. runs'[j].status = "running" /\ truth'[j] = None /\ proc'[j] = k
      BY <1>2, <1>4, <1>5, <1>7, <2>1
    <3>2. None # Failed /\ None \notin Outcome /\ k # "write"
      BY SourceHealthAssumption
    <3> QED BY <3>1, <3>2 DEF Truthful, Placed
  <2>2. CASE j \in 1..Len(runs)
    BY <1>1, <1>4, <1>5, <1>6, <1>7, <2>2 DEF Truthful, Placed
  <2> QED BY <1>1, <1>4, <2>1, <2>2
<1>10. /\ DOMAIN runs \subseteq DOMAIN runs'
       /\ \A j \in DOMAIN runs : truth[j] \in Outcome =>
            truth'[j] \in Outcome /\ runs'[j].completed = runs[j].completed
  BY <1>1, <1>4, <1>7
<1>11. Earned(coverage)'
  BY <1>3, <1>10, EarnedKept DEF Earned
<1>12. ASSUME NEW j \in DOMAIN runs', read'[j] # None PROVE Earned(read[j])'
  <2>1. j \in DOMAIN runs /\ read'[j] = read[j]
    BY <1>1, <1>4, <1>6, <1>12
  <2>2. Earned(read[j])
    BY <1>12, <2>1
  <2> QED BY <1>10, <2>1, <2>2, EarnedKept DEF Earned
<1> QED BY <1>8, <1>9, <1>11, <1>12

\* The reaper touches no row that anybody has reported on.
LEMMA LedgerInvReap ==
    ASSUME LedgerInv, ReapOrphanedRuns PROVE LedgerInv'
<1> USE DEF LedgerInv
<1>1. /\ DOMAIN runs' = DOMAIN runs /\ UNCHANGED <<clock, proc, read, truth, coverage>>
      /\ \A j \in DOMAIN runs : runs'[j] =
           IF Reapable(runs[j])
             THEN [runs[j] EXCEPT !.status = "completed_with_errors",
                                  !.completed = clock, !.orphaned = TRUE]
             ELSE runs[j]
  BY DEF ReapOrphanedRuns
<1>2. ASSUME NEW j \in DOMAIN runs
      PROVE  /\ runs'[j] \in Row
             /\ runs'[j] = runs[j] \/ (runs[j].status = "running" /\ runs'[j].orphaned)
  <2>1. runs[j] \in Row /\ clock \in Nat
    BY DEF Typed
  <2>2. CASE Reapable(runs[j])
    <3>1. runs'[j] = [runs[j] EXCEPT !.status = "completed_with_errors",
                                     !.completed = clock, !.orphaned = TRUE]
      BY <1>1, <2>2
    <3>2. runs'[j] \in Row /\ runs'[j].orphaned
      BY <2>1, <3>1 DEF Row, RunStatus
    <3> QED BY <2>2, <3>2 DEF Reapable
  <2>3. CASE ~Reapable(runs[j])
    BY <1>1, <2>1, <2>3
  <2> QED BY <2>2, <2>3
<1>3. runs' \in Seq(Row) /\ Len(runs') = Len(runs)
  <2>1. DOMAIN runs = 1..Len(runs) /\ Len(runs) \in Nat
    BY DEF Typed
  <2>2. runs' \in [1..Len(runs) -> Row]
    BY <1>1, <1>2, <2>1 DEF ReapOrphanedRuns
  <2> QED BY <2>1, <2>2
<1>4. Typed'
  BY <1>1, <1>3 DEF Typed
<1>5. ASSUME NEW j \in DOMAIN runs, runs[j].status = "running" PROVE truth[j] = None
  <2>1. truth[j] \in Outcome => truth[j].status # "running"
    BY SourceHealthAssumption DEF OutcomeType
  <2> QED BY <1>5, <2>1 DEF Truthful, Typed
<1>6. ASSUME NEW j \in DOMAIN runs' PROVE Truthful(j)' /\ Placed(j)'
  <2>1. Placed(j)'
    BY <1>1 DEF Placed
  <2>2. CASE runs'[j] = runs[j]
    BY <1>1, <2>1, <2>2 DEF Truthful
  <2>3. CASE runs[j].status = "running" /\ runs'[j].orphaned
    BY <1>1, <1>5, <2>1, <2>3, SourceHealthAssumption DEF Truthful
  <2> QED BY <1>1, <1>2, <2>2, <2>3
<1>7. \A j \in DOMAIN runs : truth[j] \in Outcome =>
          truth'[j] \in Outcome /\ runs'[j].completed = runs[j].completed
  BY <1>1, <1>2, <1>5, SourceHealthAssumption
<1>8. Earned(coverage)'
  BY <1>1, <1>7, EarnedKept DEF Earned
<1>9. ASSUME NEW j \in DOMAIN runs', read'[j] # None PROVE Earned(read[j])'
  <2>1. Earned(read[j])
    BY <1>1, <1>9
  <2> QED BY <1>1, <1>7, <2>1, EarnedKept DEF Earned
<1> QED BY <1>4, <1>6, <1>8, <1>9

\* Everything else leaves the rows as they are.
LEMMA LedgerInvStep == LedgerInv /\ [Next]_vars => LedgerInv'
<1> SUFFICES ASSUME LedgerInv, [Next]_vars PROVE LedgerInv'
  OBVIOUS
<1> USE DEF LedgerInv
<1>1. ASSUME NEW k \in Kind, StartRun(k) PROVE LedgerInv'
  BY <1>1, LedgerInvStartRun
<1>2. ASSUME NEW i \in DOMAIN runs, NEW o \in Outcome, FinishRun(i, o) PROVE LedgerInv'
  <2>1. Reported(i, Report(runs[i], o), o)
    BY <1>2, FinishRunReports
  <2>2. /\ proc' = [proc EXCEPT ![i] = IF @ = "cli" THEN "evaluate" ELSE "gone"]
        /\ proc[i] \in {"cli", "queue"} /\ UNCHANGED <<clock, read, coverage>>
    BY <1>2 DEF FinishRun
  <2>3. proc[i] \in Kind
    BY <2>2, SourceHealthAssumption DEF Typed
  <2>4. PICK pc \in {"evaluate", "gone"} : proc' = [proc EXCEPT ![i] = pc]
    BY <2>2
  <2> QED BY <2>1, <2>2, <2>3, <2>4, ReportKeeps
<1>3. ASSUME NEW i \in DOMAIN runs, NEW o \in Outcome, FinishReplay(i, o) PROVE LedgerInv'
  <2>1. PICK row \in Row : Reported(i, row, o)
    BY <1>3, FinishReplayReports
  <2>2. /\ proc' = [proc EXCEPT ![i] = "gone"] /\ proc[i] = "replay"
        /\ UNCHANGED <<clock, read, coverage>>
    BY <1>3 DEF FinishReplay
  <2>3. proc[i] \in Kind
    BY <2>2, SourceHealthAssumption DEF Typed
  <2> QED BY <2>1, <2>2, <2>3, ReportKeeps
<1>4. ASSUME NEW i \in DOMAIN runs, NEW v \in BOOLEAN, FailRun(i, v) PROVE LedgerInv'
  <2>1. PICK row \in Row : Reported(i, row, Failed)
    BY <1>4, FailRunReports
  <2>2. /\ proc' = [proc EXCEPT ![i] = "gone"] /\ proc[i] \in {"cli", "queue"}
        /\ UNCHANGED <<clock, read, coverage>>
    BY <1>4 DEF FailRun
  <2>3. proc[i] \in Kind
    BY <2>2, SourceHealthAssumption DEF Typed
  <2> QED BY <2>1, <2>2, <2>3, ReportKeeps
<1>5. ASSUME NEW i \in DOMAIN runs, Die(i) PROVE LedgerInv'
  <2>1. /\ UNCHANGED <<clock, runs, read, truth, coverage>> /\ proc' = [proc EXCEPT ![i] = "gone"]
    BY <1>5 DEF Die
  <2>2. Typed'
    BY <2>1 DEF Typed
  <2>3. \A j \in DOMAIN runs : Truthful(j)' /\ Placed(j)'
    BY <2>1, SourceHealthAssumption DEF Truthful, Placed, Typed
  <2> QED BY <2>1, <2>2, <2>3 DEF Earned
<1>6. ASSUME NEW i \in DOMAIN runs, EvaluateHealth(i) PROVE LedgerInv'
  <2> DEFINE h == [state |-> Verdict, lastSuccess |-> LastSuccessAt]
  <2>1. /\ UNCHANGED <<clock, runs, truth, coverage>> /\ proc[i] = "evaluate"
        /\ read' = [read EXCEPT ![i] = IF Completed = {} THEN None ELSE h]
        /\ proc' = [proc EXCEPT ![i] = IF Completed = {} THEN "gone" ELSE "write"]
    BY <1>6 DEF EvaluateHealth
  <2>2. h \in Health /\ Earned(h)
    BY VerdictTyped, LastSuccessEarned DEF Health, Earned
  <2>3. h # None
    BY <2>2, NoneIsNoHealth
  <2> HIDE DEF h
  <2>4. Typed'
    BY <2>1, <2>2 DEF Typed
  <2>5. \A j \in DOMAIN runs : Truthful(j)' /\ Placed(j)'
    BY <2>1, <2>3, SourceHealthAssumption DEF Truthful, Placed, Typed
  <2>6. \A j \in DOMAIN runs : read'[j] # None => Earned(read'[j])
    BY <2>1, <2>2 DEF Typed
  <2> QED BY <2>1, <2>4, <2>5, <2>6 DEF Earned
<1>7. ASSUME NEW i \in DOMAIN runs, WriteCoverage(i) PROVE LedgerInv'
  <2>1. /\ UNCHANGED <<clock, runs, truth>> /\ proc[i] = "write" /\ coverage' = read[i]
        /\ read' = [read EXCEPT ![i] = None] /\ proc' = [proc EXCEPT ![i] = "gone"]
    BY <1>7 DEF WriteCoverage
  <2>2. read[i] \in Health /\ Earned(read[i])
    BY <2>1 DEF Placed, Typed
  <2>3. Typed'
    BY <2>1, <2>2 DEF Typed
  <2>4. \A j \in DOMAIN runs : Truthful(j)' /\ Placed(j)'
    BY <2>1, SourceHealthAssumption DEF Truthful, Placed, Typed
  <2>5. \A j \in DOMAIN runs : read'[j] # None => Earned(read'[j])
    BY <2>1 DEF Typed
  <2> QED BY <2>1, <2>2, <2>3, <2>4, <2>5 DEF Earned
<1>8. CASE ReapOrphanedRuns
  BY <1>8, LedgerInvReap
<1>9. CASE Tick \/ RunAlerts \/ ChainFails \/ UNCHANGED vars
  <2>1. UNCHANGED <<runs, proc, read, truth, coverage>> /\ clock' \in Nat
    BY <1>9 DEF Tick, RunAlerts, ChainFails, vars, Typed
  <2> QED BY <2>1 DEF Typed, Truthful, Placed, Earned
<1> QED BY <1>1, <1>2, <1>3, <1>4, <1>5, <1>6, <1>7, <1>8, <1>9 DEF Next

\* The variables the ledger does not depend on.
World == clock \in 0..MaxClock /\ chain \in {"idle", "reaped"} /\ alerts \subseteq AlertType

LEMMA WorldInit == Init => World
BY SourceHealthAssumption DEF Init, World

LEMMA WorldStep == World /\ [Next]_vars => World'
<1> SUFFICES ASSUME World, [Next]_vars PROVE World'
  OBVIOUS
<1>1. CASE Tick
  BY <1>1, SourceHealthAssumption DEF World, Tick
<1>2. CASE RunAlerts
  BY <1>2 DEF World, RunAlerts
<1>3. CASE ReapOrphanedRuns \/ ChainFails
  BY <1>3 DEF World, ReapOrphanedRuns, ChainFails
<1>4. CASE \E k \in Kind : StartRun(k)
  BY <1>4 DEF World, StartRun
<1>5. CASE \E i \in DOMAIN runs :
             \/ \E o \in Outcome : FinishRun(i, o) \/ FinishReplay(i, o)
             \/ \E v \in BOOLEAN : FailRun(i, v)
             \/ Die(i) \/ EvaluateHealth(i) \/ WriteCoverage(i)
  BY <1>5 DEF World, FinishRun, FinishReplay, FailRun, Die, EvaluateHealth, WriteCoverage
<1>6. CASE UNCHANGED vars
  BY <1>6 DEF World, vars
<1> QED BY <1>1, <1>2, <1>3, <1>4, <1>5, <1>6 DEF Next

--------------------------------------------------------------------------------
(* The theorems.                                                            *)

\* The inductive invariant: what each row says against what its process reported,
\* where each process is, and where every moment of success comes from.
THEOREM LedgerInvariant == Spec => []LedgerInv
<1>1. Init => LedgerInv
  BY LedgerInvInit
<1>2. LedgerInv /\ [Next]_vars => LedgerInv'
  BY LedgerInvStep
<1> QED BY <1>1, <1>2, PTL DEF Spec

\* The rows, the coverage entry and everything a process holds keep their types.
THEOREM LedgerTypeCorrect == Spec => []TypeOK
<1>1. LedgerInv /\ World => TypeOK
  BY DEF LedgerInv, Typed, World, TypeOK
<1>2. Spec => []World
  <2>1. Init => World
    BY WorldInit
  <2>2. World /\ [Next]_vars => World'
    BY WorldStep
  <2> QED BY <2>1, <2>2, PTL DEF Spec
<1> QED BY <1>1, <1>2, LedgerInvariant, PTL

\* Reaping never clobbers a report, whoever comes first: a row says what its own
\* process reported, or it is running or marked as an orphan.
THEOREM TruthTold == Spec => []LedgerTellsTruth
<1>1. LedgerInv => LedgerTellsTruth
  <2> SUFFICES ASSUME LedgerInv, NEW i \in DOMAIN runs
               PROVE  CASE truth[i] = None   -> runs[i].status = "running" \/ runs[i].orphaned
                        [] truth[i] = Failed -> runs[i].status = "failed" /\ ~runs[i].orphaned
                        [] OTHER             -> /\ runs[i].status = truth[i].status
                                                /\ runs[i].parsed = truth[i].parsed
                                                /\ ~runs[i].orphaned
    BY DEF LedgerTellsTruth
  <2>1. Truthful(i) /\ truth[i] \in Outcome \cup {Failed, None} /\ Failed # None
    BY SourceHealthAssumption DEF LedgerInv, Typed
  <2> QED BY <2>1 DEF Truthful
<1> QED BY <1>1, LedgerInvariant, PTL

\* last_success_at is a moment at which some process reported success.
THEOREM FreshnessTold == Spec => []FreshnessIsEarned
<1>1. LedgerInv => FreshnessIsEarned
  BY DEF LedgerInv, Earned, FreshnessIsEarned
<1> QED BY <1>1, LedgerInvariant, PTL

--------------------------------------------------------------------------------
(* The ledger implements RunLifecycle.                                      *)

\* A row that is not running and that its process reported on is a reported one.
LEMMA ReportIsReport ==
    ASSUME LedgerInv, NEW i \in DOMAIN runs, NEW row, NEW t, Reported(i, row, t),
           proc[i] \in Kind
    PROVE  Ledger!Report(i)
<1>1. /\ DOMAIN runs = 1..Len(runs) /\ Len(runs) \in Nat /\ Len(runs) <= MaxRuns
      /\ DOMAIN runs' = DOMAIN runs /\ Len(runs') = Len(runs) /\ MaxRuns \in Nat
  BY SourceHealthAssumption DEF LedgerInv, Typed, Reported
<1>2. i \in 1..MaxRuns
  BY <1>1
<1>3. runs[i].status = "running" \/ runs[i].orphaned
  BY DEF LedgerInv, Placed, Truthful
<1>4. LedgerPhase[i] \in {"running", "orphaned"}
  BY <1>1, <1>2, <1>3 DEF LedgerPhase
<1>5. /\ \A j \in DOMAIN runs : j # i => runs'[j] = runs[j]
      /\ runs'[i].status # "running" /\ ~runs'[i].orphaned
  BY DEF Reported, LedgerInv, Typed
<1>6. LedgerPhase' = [LedgerPhase EXCEPT ![i] = "reported"]
  <2>1. ASSUME NEW j \in 1..MaxRuns
        PROVE  LedgerPhase'[j] = IF j = i THEN "reported" ELSE LedgerPhase[j]
    BY <1>1, <1>2, <1>5 DEF LedgerPhase
  <2>2. LedgerPhase \in [1..MaxRuns -> {"absent", "running", "orphaned", "reported"}]
    BY DEF LedgerPhase
  <2>3. LedgerPhase' \in [1..MaxRuns -> {"absent", "running", "orphaned", "reported"}]
    BY DEF LedgerPhase
  <2> QED BY <2>1, <2>2, <2>3
<1> QED BY <1>4, <1>6 DEF Ledger!Report, Ledger!Move

\* What leaves the rows alone leaves the ledger where it is.
LEMMA SamePhase == UNCHANGED runs => UNCHANGED LedgerPhase
BY DEF LedgerPhase

LEMMA LedgerStep == LedgerInv /\ [Next]_vars => [Ledger!Next]_LedgerPhase
<1> SUFFICES ASSUME LedgerInv, [Next]_vars PROVE Ledger!Next \/ UNCHANGED LedgerPhase
  OBVIOUS
<1>0. /\ DOMAIN runs = 1..Len(runs) /\ Len(runs) \in Nat /\ Len(runs) <= MaxRuns
      /\ MaxRuns \in Nat /\ DOMAIN runs \subseteq 1..MaxRuns
  BY SourceHealthAssumption DEF LedgerInv, Typed
<1>1. ASSUME NEW k \in Kind, StartRun(k) PROVE Ledger!Next
  <2> DEFINE n == Len(runs) + 1
  <2>1. runs' = Append(runs, NewRow) /\ n \in 1..MaxRuns
    BY <1>0, <1>1 DEF StartRun
  <2>2. NewRow \in Row /\ NewRow.status = "running"
    BY DEF NewRow, Row, RunStatus, LedgerInv, Typed
  <2>3. /\ Len(runs') = n /\ runs'[n].status = "running"
        /\ \A j \in 1..Len(runs) : runs'[j] = runs[j]
    BY <2>1, <2>2 DEF LedgerInv, Typed
  <2>4. ASSUME NEW j \in 1..MaxRuns
        PROVE  LedgerPhase'[j] = IF j = n THEN "running" ELSE LedgerPhase[j]
    BY <1>0, <2>1, <2>3 DEF LedgerPhase
  <2>5. /\ LedgerPhase \in [1..MaxRuns -> {"absent", "running", "orphaned", "reported"}]
        /\ LedgerPhase' \in [1..MaxRuns -> {"absent", "running", "orphaned", "reported"}]
    BY DEF LedgerPhase
  <2>6. LedgerPhase' = [LedgerPhase EXCEPT ![n] = "running"]
    BY <2>1, <2>4, <2>5
  <2>7. LedgerPhase[n] = "absent"
    BY <1>0, <2>1 DEF LedgerPhase
  <2>8. Ledger!Insert(n)
    BY <2>6, <2>7 DEF Ledger!Insert, Ledger!Move
  <2> QED BY <2>1, <2>8 DEF Ledger!Next
<1>2. ASSUME NEW i \in DOMAIN runs, NEW o \in Outcome, FinishRun(i, o) PROVE Ledger!Next
  <2>1. Reported(i, Report(runs[i], o), o)
    BY <1>2, FinishRunReports DEF LedgerInv
  <2>2. proc[i] \in Kind
    BY <1>2, SourceHealthAssumption DEF FinishRun, LedgerInv, Typed
  <2> QED BY <1>0, <2>1, <2>2, ReportIsReport DEF Ledger!Next
<1>3. ASSUME NEW i \in DOMAIN runs, NEW o \in Outcome, FinishReplay(i, o) PROVE Ledger!Next
  <2>1. PICK row \in Row : Reported(i, row, o)
    BY <1>3, FinishReplayReports DEF LedgerInv
  <2>2. proc[i] \in Kind
    BY <1>3, SourceHealthAssumption DEF FinishReplay, LedgerInv, Typed
  <2> QED BY <1>0, <2>1, <2>2, ReportIsReport DEF Ledger!Next
<1>4. ASSUME NEW i \in DOMAIN runs, NEW v \in BOOLEAN, FailRun(i, v) PROVE Ledger!Next
  <2>1. PICK row \in Row : Reported(i, row, Failed)
    BY <1>4, FailRunReports DEF LedgerInv
  <2>2. proc[i] \in Kind
    BY <1>4, SourceHealthAssumption DEF FailRun, LedgerInv, Typed
  <2> QED BY <1>0, <2>1, <2>2, ReportIsReport DEF Ledger!Next
<1>5. CASE ReapOrphanedRuns
  <2> DEFINE R == {i \in DOMAIN runs : Reapable(runs[i])}
  <2>0. Len(runs') = Len(runs)
    <3>1. runs' \in Seq(Row)
      BY <1>5, LedgerInvReap DEF LedgerInv, Typed
    <3>2. DOMAIN runs' = DOMAIN runs
      BY <1>5 DEF ReapOrphanedRuns
    <3>3. Len(runs') \in Nat /\ 1..Len(runs') = 1..Len(runs)
      BY <1>0, <3>1, <3>2
    <3> QED BY <1>0, <3>3
  <2>1. /\ DOMAIN runs' = DOMAIN runs
        /\ \A j \in DOMAIN runs : runs'[j] =
             IF Reapable(runs[j])
               THEN [runs[j] EXCEPT !.status = "completed_with_errors",
                                    !.completed = clock, !.orphaned = TRUE]
               ELSE runs[j]
    BY <1>5 DEF ReapOrphanedRuns
  <2>2. \A j \in DOMAIN runs : runs[j] \in Row
    BY DEF LedgerInv, Typed
  <2>3. ASSUME NEW j \in R
        PROVE  LedgerPhase[j] = "running" /\ LedgerPhase'[j] = "orphaned"
    <3>1. runs[j].status = "running" /\ runs'[j].status = "completed_with_errors" /\ runs'[j].orphaned
      BY <2>1, <2>2 DEF Reapable, Row
    <3>2. j \in 1..MaxRuns /\ ~(j > Len(runs)) /\ ~(j > Len(runs'))
      BY <1>0, <2>0
    <3> HIDE DEF R
    <3> QED BY <3>1, <3>2 DEF LedgerPhase
  <2>4. ASSUME NEW j \in (1..MaxRuns) \ R PROVE LedgerPhase'[j] = LedgerPhase[j]
    <3>1. CASE j > Len(runs)
      BY <2>0, <3>1 DEF LedgerPhase
    <3>2. CASE ~(j > Len(runs))
      <4>0. j \in DOMAIN runs
        BY <1>0, <3>2
      <4>1. runs'[j] = runs[j]
        BY <2>1, <4>0
      <4> QED BY <2>0, <4>0, <4>1 DEF LedgerPhase
    <3> QED BY <3>1, <3>2
  <2>5. LedgerPhase' = [r \in 1..MaxRuns |-> IF r \in R THEN "orphaned" ELSE LedgerPhase[r]]
    <3>1. LedgerPhase' \in [1..MaxRuns -> {"absent", "running", "orphaned", "reported"}]
      BY DEF LedgerPhase
    <3> HIDE DEF R
    <3> QED BY <2>3, <2>4, <3>1
  <2>6. R \in SUBSET (1..MaxRuns)
    BY <1>0
  <2> HIDE DEF R
  <2>7. Ledger!Orphan
    BY <2>3, <2>5, <2>6 DEF Ledger!Orphan
  <2> QED BY <2>7 DEF Ledger!Next
<1>6. ASSUME NEW i \in DOMAIN runs, Die(i) \/ EvaluateHealth(i) \/ WriteCoverage(i)
      PROVE  UNCHANGED LedgerPhase
  BY <1>6, SamePhase DEF Die, EvaluateHealth, WriteCoverage
<1>7. CASE Tick \/ RunAlerts \/ ChainFails \/ UNCHANGED vars
  BY <1>7, SamePhase DEF Tick, RunAlerts, ChainFails, vars
<1> QED BY <1>1, <1>2, <1>3, <1>4, <1>5, <1>6, <1>7 DEF Next

\* The processes, the reaper and the replays keep the life cycle that RunLifecycle
\* promises of every row: inserted once, orphaned only while running, reported by
\* its owner at most once and last.
THEOREM LedgerImplements == Spec => LedgerLifecycle
<1>1. Init => Ledger!Init
  BY DEF Init, Ledger!Init, LedgerPhase
<1>2. LedgerInv /\ [Next]_vars => [Ledger!Next]_LedgerPhase
  BY LedgerStep
<1> QED BY <1>1, <1>2, LedgerInvariant, PTL DEF Spec, LedgerLifecycle, Ledger!Spec

--------------------------------------------------------------------------------
(* A dead feed is announced.                                                *)

\* A row claims no more usable records than its process reported: none as long
\* as nobody reported a terminal outcome, and a replay claims what it parsed.
Modest(i) ==
    /\ truth[i] \notin Outcome => Usable(runs[i]) = 0
    /\ truth[i] \in Outcome => Usable(runs[i]) <= Usable(truth[i])

UsableInv == \A i \in DOMAIN runs : Modest(i)

\* Counters that add up to nothing are nothing.
LEMMA NothingUsable ==
    ASSUME NEW row \in Row, Usable(row) = 0
    PROVE  row.parsed = 0 /\ row.duplicate = 0 /\ row.unchanged = 0
BY DEF Usable, Row

\* A process that is at its run reports: its row then claims no more than that.
LEMMA ModestReport ==
    ASSUME Typed, UsableInv, NEW i \in DOMAIN runs, NEW row, NEW t,
           runs' = [runs EXCEPT ![i] = row], truth' = [truth EXCEPT ![i] = t],
           t \notin Outcome => Usable(row) = 0,
           t \in Outcome => Usable(row) <= Usable(t)
    PROVE  UsableInv'
<1>1. DOMAIN runs' = DOMAIN runs /\ DOMAIN truth = DOMAIN runs
  BY DEF Typed
<1>2. runs'[i] = row /\ truth'[i] = t
  BY <1>1
<1>3. \A j \in DOMAIN runs : j # i => runs'[j] = runs[j] /\ truth'[j] = truth[j]
  BY <1>1
<1>4. ASSUME NEW j \in DOMAIN runs PROVE Modest(j)'
  <2>1. CASE j = i
    BY <1>2, <2>1 DEF Modest, Usable
  <2>2. CASE j # i
    <3>1. Modest(j) /\ runs'[j] = runs[j] /\ truth'[j] = truth[j]
      BY <1>3, <2>2 DEF UsableInv
    <3> QED BY <3>1 DEF Modest, Usable
  <2> QED BY <2>1, <2>2
<1> QED BY <1>1, <1>4 DEF UsableInv

LEMMA UsableInvStart ==
    ASSUME Typed, UsableInv, NEW k \in Kind, StartRun(k) PROVE UsableInv'
<1> DEFINE n == Len(runs) + 1
<1>1. /\ runs \in Seq(Row) /\ Len(runs) \in Nat /\ DOMAIN runs = 1..Len(runs)
      /\ truth \in Seq(Outcome \cup {Failed, None}) /\ Len(truth) = Len(runs)
  BY DEF Typed
<1>2. NewRow \in Row /\ Usable(NewRow) = 0
  BY DEF NewRow, Row, RunStatus, Typed, Usable
<1>3. runs' = Append(runs, NewRow) /\ truth' = Append(truth, None)
  BY DEF StartRun
<1>4. /\ DOMAIN runs' = 1..n /\ runs'[n] = NewRow
      /\ \A j \in 1..Len(runs) : runs'[j] = runs[j]
  BY <1>1, <1>2, <1>3
<1>5. truth'[n] = None /\ \A j \in 1..Len(runs) : truth'[j] = truth[j]
  <2> DEFINE S == Outcome \cup {Failed, None}
  <2>1. None \in S /\ truth \in Seq(S) /\ Len(truth) = Len(runs) /\ truth' = Append(truth, None)
    BY <1>1, <1>3
  <2> HIDE DEF S
  <2> QED BY <2>1, Appended
<1>6. ASSUME NEW j \in DOMAIN runs' PROVE Modest(j)'
  <2>1. CASE j = n
    BY <1>2, <1>4, <1>5, <2>1, SourceHealthAssumption DEF Modest, Usable
  <2>2. CASE j \in 1..Len(runs)
    <3>1. Modest(j) /\ runs'[j] = runs[j] /\ truth'[j] = truth[j]
      BY <1>1, <1>4, <1>5, <2>2 DEF UsableInv
    <3> QED BY <3>1 DEF Modest, Usable
  <2> QED BY <1>1, <1>4, <2>1, <2>2
<1> QED BY <1>6 DEF UsableInv

LEMMA UsableInvStep == LedgerInv /\ UsableInv /\ [Next]_vars => UsableInv'
<1> SUFFICES ASSUME LedgerInv, UsableInv, [Next]_vars PROVE UsableInv'
  OBVIOUS
<1>0. Typed /\ \A i \in DOMAIN runs : Placed(i) /\ runs[i] \in Row
  BY DEF LedgerInv, Typed
<1>1. ASSUME NEW k \in Kind, StartRun(k) PROVE UsableInv'
  BY <1>0, <1>1, UsableInvStart
<1>2. ASSUME NEW i \in DOMAIN runs, NEW o \in Outcome, FinishRun(i, o) PROVE UsableInv'
  <2>1. /\ runs' = [runs EXCEPT ![i] = Report(runs[i], o)]
        /\ truth' = [truth EXCEPT ![i] = o]
    BY <1>2 DEF FinishRun
  <2>2. /\ Report(runs[i], o).parsed = o.parsed
        /\ Report(runs[i], o).duplicate = o.duplicate
        /\ Report(runs[i], o).unchanged = o.unchanged
        /\ o.parsed \in Nat /\ o.duplicate \in Nat /\ o.unchanged \in Nat
    BY <1>0, SourceHealthAssumption DEF Report, Row, OutcomeType
  <2>3. Usable(Report(runs[i], o)) <= Usable(o)
    BY <2>2 DEF Usable
  <2> QED BY <1>0, <2>1, <2>3, ModestReport
<1>3. ASSUME NEW i \in DOMAIN runs, NEW o \in Outcome, FinishReplay(i, o) PROVE UsableInv'
  <2> DEFINE row == [runs[i] EXCEPT !.status = o.status, !.completed = clock,
                                    !.orphaned = FALSE, !.parsed = o.parsed]
  <2>1. /\ runs' = [runs EXCEPT ![i] = row] /\ truth' = [truth EXCEPT ![i] = o]
        /\ proc[i] = "replay"
    BY <1>3 DEF FinishReplay
  <2>2. truth[i] \notin Outcome
    BY <1>0, <2>1, SourceHealthAssumption DEF Placed, Typed
  <2>3. runs[i].duplicate = 0 /\ runs[i].unchanged = 0
    BY <1>0, <2>2, NothingUsable DEF UsableInv, Modest
  <2>4. /\ row.parsed = o.parsed /\ row.duplicate = 0 /\ row.unchanged = 0
        /\ o.parsed \in Nat /\ o.duplicate \in Nat /\ o.unchanged \in Nat
    BY <1>0, <2>3, SourceHealthAssumption DEF Row, OutcomeType
  <2>5. Usable(row) <= Usable(o)
    <3> HIDE DEF row
    <3> QED BY <2>4 DEF Usable
  <2> HIDE DEF row
  <2> QED BY <1>0, <2>1, <2>5, ModestReport
<1>4. ASSUME NEW i \in DOMAIN runs, NEW v \in BOOLEAN, FailRun(i, v) PROVE UsableInv'
  <2> DEFINE row == [runs[i] EXCEPT !.status = "failed", !.completed = clock,
                                    !.orphaned = FALSE, !.viol = v]
  <2>1. /\ runs' = [runs EXCEPT ![i] = row] /\ truth' = [truth EXCEPT ![i] = Failed]
        /\ proc[i] \in {"cli", "queue"}
    BY <1>4 DEF FailRun
  <2>2. truth[i] \notin Outcome
    BY <1>0, <2>1, SourceHealthAssumption DEF Placed, Typed
  <2>3. Usable(row) = Usable(runs[i])
    BY <1>0 DEF Row, Usable
  <2>4. Usable(row) = 0 /\ Failed \notin Outcome
    BY <2>2, <2>3, SourceHealthAssumption DEF UsableInv, Modest
  <2> HIDE DEF row
  <2> QED BY <1>0, <2>1, <2>4, ModestReport
<1>5. CASE ReapOrphanedRuns
  <2>1. /\ DOMAIN runs' = DOMAIN runs /\ UNCHANGED truth
        /\ \A j \in DOMAIN runs : runs'[j] =
             IF Reapable(runs[j])
               THEN [runs[j] EXCEPT !.status = "completed_with_errors",
                                    !.completed = clock, !.orphaned = TRUE]
               ELSE runs[j]
    BY <1>5 DEF ReapOrphanedRuns
  <2>2. ASSUME NEW j \in DOMAIN runs PROVE Modest(j)'
    <3>1. /\ runs'[j].parsed = runs[j].parsed /\ runs'[j].duplicate = runs[j].duplicate
          /\ runs'[j].unchanged = runs[j].unchanged
      BY <1>0, <2>1 DEF Row
    <3> QED BY <2>1, <3>1 DEF UsableInv, Modest, Usable
  <2> QED BY <2>1, <2>2 DEF UsableInv
<1>6. CASE \/ Tick \/ RunAlerts \/ ChainFails \/ UNCHANGED vars
           \/ \E i \in DOMAIN runs : Die(i) \/ EvaluateHealth(i) \/ WriteCoverage(i)
  <2>1. UNCHANGED <<runs, truth>>
    BY <1>6 DEF Tick, RunAlerts, ChainFails, vars, Die, EvaluateHealth, WriteCoverage
  <2> QED BY <2>1 DEF UsableInv, Modest, Usable
<1> QED BY <1>1, <1>2, <1>3, <1>4, <1>5, <1>6 DEF Next

\* Where no run of the flow window reported anything usable, the rows do not flow.
LEMMA DeadFeedDoesNotFlow ==
    ASSUME LedgerInv, UsableInv,
           \A i \in InWindow : truth[i] \in Outcome => Usable(truth[i]) = 0
    PROVE  FlowState # "flowing"
<1>1. ASSUME NEW i \in InWindow PROVE Usable(runs[i]) = 0
  <2>1. i \in DOMAIN runs /\ runs[i] \in Row /\ Modest(i)
    BY DEF InWindow, LedgerInv, Typed, UsableInv
  <2>2. Usable(runs[i]) \in Nat
    BY <2>1 DEF Row, Usable
  <2> QED BY <2>1, <2>2 DEF Modest
<1>2. \/ runs = <<>>
      \/ InWindow = {}
      \/ InWindow # {} /\ \A i \in InWindow : runs[i].orphaned
      \/ /\ \E i \in InWindow : ~runs[i].orphaned
         /\ \A i \in InWindow : ~runs[i].orphaned => Usable(runs[i]) = 0
  BY <1>1
<1> HIDE DEF InWindow, Usable
<1> QED BY <1>2 DEF FlowState

\* The nightly alerts never pass a dead feed over: when no run that began in the
\* flow window reported a usable record, an alert is raised, whatever the coverage
\* row says and whoever reaped or failed (flow.ts, alerts.ts).
THEOREM DeadFeedTold == Spec => DeadFeedAnnounced
<1>1. Init => UsableInv
  BY DEF Init, UsableInv
<1>2. LedgerInv /\ UsableInv /\ [Next]_vars => UsableInv'
  BY UsableInvStep
<1>3. ASSUME LedgerInv, UsableInv
      PROVE  RunAlerts /\ (\A i \in InWindow : truth[i] \in Outcome => Usable(truth[i]) = 0)
               => alerts' # {}
  <2> SUFFICES ASSUME RunAlerts,
                      \A i \in InWindow : truth[i] \in Outcome => Usable(truth[i]) = 0
               PROVE  alerts' # {}
    OBVIOUS
  <2>1. FlowState # "flowing"
    BY <1>3, DeadFeedDoesNotFlow
  <2>2. Firing("source_no_flow")
    BY <2>1 DEF Firing
  <2>3. alerts' = {type \in AlertType : Firing(type)} /\ "source_no_flow" \in AlertType
    BY DEF RunAlerts, AlertType
  <2> QED BY <2>2, <2>3
<1> QED BY <1>1, <1>2, <1>3, LedgerInvariant, PTL DEF Spec, DeadFeedAnnounced

--------------------------------------------------------------------------------
(* The worker: its nights and its Mondays.                                  *)

USE SchedulerAssumption

Night == [pc : {"idle", "resolve", "rest", "insert"}, errors : SUBSET Trouble,
          todo : SUBSET Trouble, fired : SUBSET Trouble]

Week == [state : {"none", "first", "retry", "second", "completed", "failed"},
         todo : SUBSET Account, drafted : SUBSET Account]

\* What a chain has fired it fired as rows, and tells of before it does anything else.
FiredHasRow(n) == n.fired \subseteq Keys /\ (n.fired # {} => n.pc = "insert")

\* A job at its drafts has every account either before it or behind it.
DraftsAddUp ==
    /\ monday.state \in {"first", "second"} => monday.todo \cup monday.drafted = Account
    /\ DraftsForAll

SchedulerInv ==
    /\ SchedulerTypeOK
    /\ \A c \in Chain : FiredHasRow(nights[c])
    /\ heard \subseteq Keys
    /\ SaidOnce
    /\ DraftsAddUp

--------------------------------------------------------------------------------
(* Lemmas: the parts of a step.                                             *)

\* A step that leaves what was told and the drafts as they are, and that moves one
\* chain to a night in which nothing is fired, keeps the invariant.
LEMMA QuietStep ==
    ASSUME SchedulerInv, SchedulerTypeOK', NEW c \in Chain, NEW n \in Night,
           nights' = [nights EXCEPT ![c] = n], n.fired = {},
           UNCHANGED <<today, ever, heard, monday>>
    PROVE  SchedulerInv'
<1>1. \A d \in Chain : nights'[d] = IF d = c THEN n ELSE nights[d]
  BY DEF SchedulerInv, SchedulerTypeOK
<1>2. \A d \in Chain : FiredHasRow(nights[d])'
  BY <1>1 DEF SchedulerInv, FiredHasRow, Keys
<1>3. SaidOnce'
  BY <1>1 DEF SchedulerInv, SaidOnce
<1> QED BY <1>2, <1>3 DEF SchedulerInv, Keys, DraftsAddUp, DraftsForAll

\* A step that moves no chain and no alert, and keeps the drafts adding up.
LEMMA StillStep ==
    ASSUME SchedulerInv, SchedulerTypeOK', UNCHANGED <<nights, today, ever, heard>>,
           DraftsAddUp'
    PROVE  SchedulerInv'
BY DEF SchedulerInv, FiredHasRow, Keys, SaidOnce

LEMMA QueueTyped ==
    ASSUME queue \in Queue, NEW w \in 0..MaxWaiting, NEW g \in 0..MaxWaiting,
           NEW a \in 0..2, NEW o \in 0..2,
           queue' = [waiting |-> w, again |-> g, active |-> a, orphan |-> o]
    PROVE  queue' \in Queue
BY DEF Queue

\* How a chain ends, for its own row, the queue and the lapse.
LEMMA LeaveTyped ==
    ASSUME SchedulerTypeOK, NEW c \in Chain, NEW b \in BOOLEAN, Leave(c, b)
    PROVE  /\ nights' = [nights EXCEPT ![c] = Idle] /\ nights' \in [Chain -> Night]
           /\ queue' \in Queue /\ lapse' \in 0..2
           /\ Idle \in Night /\ Idle.fired = {}
<1>1. Idle \in Night /\ Idle.fired = {}
  BY DEF Idle, Night
<1>2. nights' = [nights EXCEPT ![c] = Idle]
  BY DEF Leave, Put
<1>3. nights' \in [Chain -> Night]
  BY <1>1, <1>2 DEF SchedulerTypeOK, Night
<1>4. queue' \in Queue
  <2>1. CASE c # Queued
    BY <2>1 DEF Leave, SchedulerTypeOK
  <2>2. CASE c = Queued
    <3>1. queue.again \in 0..MaxWaiting /\ Retries(queue.active) \in 0..1
      BY DEF SchedulerTypeOK, Queue, Retries
    <3> DEFINE g == IF b THEN queue.again ELSE queue.again + Retries(queue.active)
    <3>2. queue' = [queue EXCEPT !.active = 0, !.again = g] /\ queue'.again <= MaxWaiting
      BY <2>2 DEF Leave
    <3>3. g \in Nat
      BY <3>1
    <3> HIDE DEF g
    <3>4. queue' = [waiting |-> queue.waiting, again |-> g, active |-> 0,
                    orphan |-> queue.orphan]
      BY <3>2 DEF SchedulerTypeOK, Queue
    <3>5. g \in 0..MaxWaiting
      BY <3>2, <3>3, <3>4
    <3> QED BY <3>4, <3>5 DEF SchedulerTypeOK, Queue
  <2> QED BY <2>1, <2>2
<1>5. lapse' \in 0..2
  BY DEF Leave, SchedulerTypeOK
<1> QED BY <1>1, <1>2, <1>3, <1>4, <1>5

LEMMA FaultTyped ==
    ASSUME SchedulerTypeOK, Fault
    PROVE  faults' \in 0..MaxFault
BY DEF SchedulerTypeOK, Fault

--------------------------------------------------------------------------------
(* The process and its clock.                                               *)

LEMMA ProcessStep ==
    ASSUME SchedulerInv, Boot \/ AskCatchUp \/ SendCatchUp \/ Stop
    PROVE  SchedulerInv'
<1>1. UNCHANGED <<nights, today, ever, heard, monday>>
  BY DEF Boot, AskCatchUp, SendCatchUp, Stop, alertVars
<1>2. SchedulerTypeOK'
  <2>1. UNCHANGED <<nights, kind, trouble, today, ever, heard, monday, lapse, faults, moment>>
    BY DEF Boot, AskCatchUp, SendCatchUp, Stop, alertVars
  <2>2. queue' \in Queue
    BY DEF SchedulerInv, SchedulerTypeOK, Queue, Boot, AskCatchUp, SendCatchUp, Stop
  <2>3. worker' \in {"down", "booting", "deciding", "up"} /\ throttled' \in BOOLEAN
    BY DEF SchedulerInv, SchedulerTypeOK, Boot, AskCatchUp, SendCatchUp, Stop
  <2> QED BY <2>1, <2>2, <2>3 DEF SchedulerInv, SchedulerTypeOK
<1>3. DraftsAddUp'
  BY <1>1 DEF SchedulerInv, DraftsAddUp, DraftsForAll
<1> QED BY <1>1, <1>2, <1>3, StillStep

LEMMA WorkerDiesStep ==
    ASSUME SchedulerInv, WorkerDies
    PROVE  SchedulerInv'
<1>1. /\ SchedulerTypeOK /\ DraftsAddUp /\ Idle \in Night /\ Idle.fired = {}
      /\ Queued \in Chain
  BY DEF SchedulerInv, Idle, Night
<1>2. /\ nights' = [nights EXCEPT ![Queued] = Idle]
      /\ UNCHANGED <<today, ever, heard, kind, trouble, moment, lapse, throttled>>
  BY DEF WorkerDies, Put, alertVars
<1> DEFINE s == IF Drafting THEN AfterThrow ELSE monday.state
<1>3. /\ monday' = [monday EXCEPT !.state = s]
      /\ s \in {"none", "retry", "completed", "failed", "first", "second"}
      /\ s \in {"first", "second", "completed"} => s = monday.state
  <2>1. monday' = [monday EXCEPT !.state = s]
    BY DEF WorkerDies
  <2>2. s \in {"none", "retry", "completed", "failed", "first", "second"}
    BY <1>1 DEF AfterThrow, SchedulerTypeOK
  <2>3. s \in {"first", "second", "completed"} => s = monday.state
    BY DEF AfterThrow
  <2> QED BY <2>1, <2>2, <2>3
<1> HIDE DEF s
<1>4. /\ monday' \in Week /\ monday'.state = s
      /\ monday'.todo = monday.todo /\ monday'.drafted = monday.drafted
  BY <1>1, <1>3 DEF SchedulerTypeOK, Week
<1>5. DraftsAddUp'
  BY <1>1, <1>3, <1>4 DEF DraftsAddUp, DraftsForAll
<1>6. faults' \in 0..MaxFault
  BY <1>1, FaultTyped DEF WorkerDies
<1>7. queue' \in Queue
  BY <1>1 DEF WorkerDies, SchedulerTypeOK, Queue
<1>8. worker' = "down"
  BY DEF WorkerDies
<1>9. SchedulerTypeOK'
  BY <1>1, <1>2, <1>4, <1>6, <1>7, <1>8 DEF SchedulerTypeOK, Night, Week
<1>10. \A d \in Chain : nights'[d] = IF d = Queued THEN Idle ELSE nights[d]
  BY <1>1, <1>2 DEF SchedulerTypeOK
<1>11. \A d \in Chain : FiredHasRow(nights[d])'
  BY <1>1, <1>2, <1>10 DEF SchedulerInv, FiredHasRow, Keys
<1>12. SaidOnce'
  BY <1>1, <1>2, <1>10 DEF SchedulerInv, SaidOnce
<1> QED BY <1>2, <1>5, <1>9, <1>11, <1>12 DEF SchedulerInv, Keys

LEMMA CronTickStep ==
    ASSUME SchedulerInv, CronTick
    PROVE  SchedulerInv'
<1>1. UNCHANGED <<worker, nights, kind, trouble, today, ever, heard, monday, faults>>
  BY DEF CronTick, alertVars
<1>2. SchedulerTypeOK'
  <2>1. queue' \in Queue
    BY DEF SchedulerInv, SchedulerTypeOK, Queue, CronTick
  <2>2. lapse' \in 0..2
    <3>1. lapse \in 0..2
      BY DEF SchedulerInv, SchedulerTypeOK
    <3>2. lapse = 2 => Min({2, lapse + 1}) = 2
      BY DEF Min
    <3>3. lapse # 2 => Min({2, lapse + 1}) \in {1, 2}
      BY <3>1 DEF Min
    <3> QED BY <3>1, <3>2, <3>3 DEF CronTick
  <2>3. throttled' \in BOOLEAN /\ moment' \in {"tick", "midnight"}
    BY DEF CronTick
  <2> QED BY <1>1, <2>1, <2>2, <2>3 DEF SchedulerInv, SchedulerTypeOK
<1>3. DraftsAddUp'
  BY <1>1 DEF SchedulerInv, DraftsAddUp, DraftsForAll
<1> QED BY <1>1, <1>2, <1>3, StillStep

\* A new day takes rows away, and the mails that told of them: at that moment no
\* chain has anything to tell.
LEMMA MidnightStep ==
    ASSUME SchedulerInv, Midnight
    PROVE  SchedulerInv'
<1>1. /\ UNCHANGED <<worker, queue, lapse, nights, kind, trouble, ever, monday, faults>>
      /\ today' = {} /\ heard' = heard \cap ever
      /\ moment' = "tick" /\ throttled' = FALSE
  BY DEF Midnight
<1>2. \A c \in Chain : nights[c].fired = {}
  BY DEF SchedulerInv, FiredHasRow, Midnight
<1>3. SchedulerTypeOK'
  BY <1>1 DEF SchedulerInv, SchedulerTypeOK
<1>4. \A c \in Chain : FiredHasRow(nights[c])'
  BY <1>1, <1>2 DEF FiredHasRow
<1>5. SaidOnce'
  BY <1>1, <1>2 DEF SaidOnce
<1>6. (heard \subseteq Keys)' /\ DraftsAddUp'
  BY <1>1 DEF SchedulerInv, Keys, DraftsAddUp, DraftsForAll
<1> QED BY <1>3, <1>4, <1>5, <1>6 DEF SchedulerInv

LEMMA ChangeStep ==
    ASSUME SchedulerInv, Change
    PROVE  SchedulerInv'
<1>1. UNCHANGED <<worker, moment, queue, lapse, throttled, nights, kind, today, ever, heard,
                  monday, faults>>
  BY DEF Change
<1>2. trouble' \subseteq Trouble
  BY DEF Change, SchedulerInv, SchedulerTypeOK
<1>3. SchedulerTypeOK' /\ DraftsAddUp'
  BY <1>1, <1>2 DEF SchedulerInv, SchedulerTypeOK, DraftsAddUp, DraftsForAll
<1> QED BY <1>1, <1>3, StillStep

--------------------------------------------------------------------------------
(* The queue.                                                               *)

\* The parts of SchedulerTypeOK that a chain's step may touch.
LEMMA ChainTyped ==
    ASSUME SchedulerTypeOK, nights' \in [Chain -> Night], queue' \in Queue, lapse' \in 0..2,
           today' \subseteq Trouble, ever' \subseteq Trouble, heard' \subseteq Trouble,
           faults' \in 0..MaxFault,
           UNCHANGED <<worker, moment, throttled, kind, trouble, monday>>
    PROVE  SchedulerTypeOK'
BY DEF SchedulerTypeOK, Night

LEMMA FetchStep ==
    ASSUME SchedulerInv, Fetch
    PROVE  SchedulerInv'
<1>1. SchedulerTypeOK /\ Queued \in Chain
  BY DEF SchedulerInv
<1> DEFINE n == [Idle EXCEPT !.pc = "resolve"]
<1>2. n \in Night /\ n.fired = {}
  BY DEF Idle, Night
<1>3. nights' = [nights EXCEPT ![Queued] = n]
  BY DEF Fetch, Put
<1> HIDE DEF n
<1>4. nights' \in [Chain -> Night]
  BY <1>1, <1>2, <1>3 DEF SchedulerTypeOK, Night
<1>5. queue' \in Queue
  <2>1. queue \in Queue
    BY <1>1 DEF SchedulerTypeOK
  <2>2. CASE queue.waiting > 0 /\ queue' = [queue EXCEPT !.waiting = @ - 1, !.active = 1]
    <3>1. queue' = [waiting |-> queue.waiting - 1, again |-> queue.again, active |-> 1,
                    orphan |-> queue.orphan]
      BY <2>1, <2>2 DEF Queue
    <3>2. queue.waiting - 1 \in 0..MaxWaiting
      BY <2>1, <2>2 DEF Queue
    <3> QED BY <2>1, <3>1, <3>2 DEF Queue
  <2>3. CASE queue.again > 0 /\ queue' = [queue EXCEPT !.again = @ - 1, !.active = 2]
    <3>1. queue' = [waiting |-> queue.waiting, again |-> queue.again - 1, active |-> 2,
                    orphan |-> queue.orphan]
      BY <2>1, <2>3 DEF Queue
    <3>2. queue.again - 1 \in 0..MaxWaiting
      BY <2>1, <2>3 DEF Queue
    <3> QED BY <2>1, <3>1, <3>2 DEF Queue
  <2> QED BY <2>2, <2>3 DEF Fetch
<1>6. UNCHANGED <<worker, moment, lapse, throttled, kind, trouble, today, ever, heard,
                  monday, faults>>
  BY DEF Fetch, alertVars
<1>7. SchedulerTypeOK'
  BY <1>1, <1>4, <1>5, <1>6, ChainTyped DEF SchedulerTypeOK
<1> QED BY <1>1, <1>2, <1>3, <1>6, <1>7, QuietStep

LEMMA ExpireStep ==
    ASSUME SchedulerInv, Expire
    PROVE  SchedulerInv'
<1>1. SchedulerTypeOK
  BY DEF SchedulerInv
<1>2. UNCHANGED <<worker, moment, lapse, throttled, nights, kind, trouble, today, ever,
                  heard, monday, faults>>
  BY DEF Expire, alertVars
<1>3. queue' \in Queue
  <2>1. queue.again \in 0..MaxWaiting /\ Retries(queue.orphan) \in 0..1
    BY <1>1 DEF SchedulerTypeOK, Queue, Retries
  <2> DEFINE g == queue.again + Retries(queue.orphan)
  <2>2. queue' = [queue EXCEPT !.orphan = 0, !.again = g] /\ queue'.again <= MaxWaiting
    BY DEF Expire
  <2>3. g \in Nat
    BY <2>1
  <2> HIDE DEF g
  <2>4. queue' = [waiting |-> queue.waiting, again |-> g, active |-> queue.active,
                  orphan |-> 0]
    BY <1>1, <2>2 DEF SchedulerTypeOK, Queue
  <2>5. g \in 0..MaxWaiting
    BY <2>2, <2>3, <2>4
  <2> QED BY <1>1, <2>4, <2>5 DEF SchedulerTypeOK, Queue
<1>4. SchedulerTypeOK'
  BY <1>1, <1>2, <1>3 DEF SchedulerTypeOK
<1>5. DraftsAddUp'
  BY <1>2 DEF SchedulerInv, DraftsAddUp, DraftsForAll
<1> QED BY <1>2, <1>4, <1>5, StillStep

--------------------------------------------------------------------------------
(* The chain.                                                               *)

LEMMA StartByHandStep ==
    ASSUME SchedulerInv, NEW c \in Chain, StartByHand(c)
    PROVE  SchedulerInv'
<1>1. SchedulerTypeOK
  BY DEF SchedulerInv
<1> DEFINE n == [Idle EXCEPT !.pc = "resolve"]
<1>2. n \in Night /\ n.fired = {}
  BY DEF Idle, Night
<1>3. nights' = [nights EXCEPT ![c] = n]
  BY DEF StartByHand, Put
<1> HIDE DEF n
<1>4. nights' \in [Chain -> Night]
  BY <1>1, <1>2, <1>3 DEF SchedulerTypeOK, Night
<1>5. UNCHANGED <<worker, moment, queue, lapse, throttled, kind, trouble, today, ever, heard,
                  monday, faults>>
  BY DEF StartByHand, alertVars
<1>6. SchedulerTypeOK'
  BY <1>1, <1>4, <1>5, ChainTyped DEF SchedulerTypeOK
<1> QED BY <1>2, <1>3, <1>5, <1>6, QuietStep

\* The steps before the first row: nothing has fired, and nothing fires.
LEMMA BeforeRowsStep ==
    ASSUME SchedulerInv, NEW c \in Chain, Resolve(c) \/ Evaluate(c)
    PROVE  SchedulerInv'
<1>1. SchedulerTypeOK /\ nights[c] \in Night
  BY DEF SchedulerInv, SchedulerTypeOK, Night
<1>2. nights[c].fired = {}
  BY DEF SchedulerInv, FiredHasRow, Resolve, Evaluate
<1> DEFINE n == IF nights[c].pc = "resolve"
                THEN [nights[c] EXCEPT !.pc = "rest",
                        !.errors = {t \in trouble : kind[t] = "memory"}]
                ELSE [nights[c] EXCEPT !.pc = "insert",
                        !.todo = {t \in trouble : kind[t] # "memory"} \cup nights[c].errors]
<1>3. nights' = [nights EXCEPT ![c] = n]
  BY DEF Resolve, Evaluate, Put
<1>4. n \in Night /\ n.fired = {}
  <2>1. trouble \subseteq Trouble
    BY <1>1 DEF SchedulerTypeOK
  <2>2. CASE nights[c].pc = "resolve"
    BY <1>1, <1>2, <2>1, <2>2 DEF Night
  <2>3. CASE nights[c].pc # "resolve"
    <3> DEFINE todo == {t \in trouble : kind[t] # "memory"} \cup nights[c].errors
    <3>1. todo \subseteq Trouble
      BY <1>1, <2>1 DEF Night
    <3>2. n = [nights[c] EXCEPT !.pc = "insert", !.todo = todo]
      BY <2>3
    <3> HIDE DEF todo, n
    <3> QED BY <1>1, <1>2, <3>1, <3>2 DEF Night
  <2> QED BY <2>2, <2>3
<1> HIDE DEF n
<1>5. nights' \in [Chain -> Night]
  BY <1>1, <1>3, <1>4 DEF SchedulerTypeOK, Night
<1>6. UNCHANGED <<worker, moment, queue, lapse, throttled, kind, trouble, today, ever, heard,
                  monday, faults>>
  BY DEF Resolve, Evaluate, alertVars
<1>7. SchedulerTypeOK'
  BY <1>1, <1>5, <1>6, ChainTyped DEF SchedulerTypeOK
<1> QED BY <1>3, <1>4, <1>6, <1>7, QuietStep

\* A chain that ends without a mail.
LEMMA EndStep ==
    ASSUME SchedulerInv, NEW c \in Chain,
           Throw(c) \/ NothingNew(c) \/ MailFails(c) \/ AlertsThrow(c)
    PROVE  SchedulerInv'
<1>1. SchedulerTypeOK
  BY DEF SchedulerInv
<1>2. PICK b \in BOOLEAN : Leave(c, b)
  BY DEF Throw, NothingNew, MailFails, AlertsThrow
<1>3. UNCHANGED <<worker, moment, throttled, kind, trouble, today, ever, heard, monday>>
  BY DEF Throw, NothingNew, MailFails, AlertsThrow, alertVars
<1>4. faults' \in 0..MaxFault
  <2>1. CASE Fault
    BY <1>1, <2>1, FaultTyped
  <2>2. CASE UNCHANGED faults
    BY <1>1, <2>2 DEF SchedulerTypeOK
  <2> QED BY <2>1, <2>2 DEF Throw, NothingNew, MailFails, AlertsThrow
<1>5. /\ nights' = [nights EXCEPT ![c] = Idle] /\ nights' \in [Chain -> Night]
      /\ queue' \in Queue /\ lapse' \in 0..2 /\ Idle \in Night /\ Idle.fired = {}
  BY <1>1, <1>2, LeaveTyped
<1>6. SchedulerTypeOK'
  BY <1>1, <1>3, <1>4, <1>5, ChainTyped DEF SchedulerTypeOK
<1> QED BY <1>3, <1>5, <1>6, QuietStep

\* A row is inserted: it fires where no row had its key, and then no mail and no other
\* chain has told of it.
LEMMA InsertStep ==
    ASSUME SchedulerInv, NEW c \in Chain, NEW t \in Trouble, Insert(c, t)
    PROVE  SchedulerInv'
<1>1. SchedulerTypeOK /\ nights[c] \in Night
  BY DEF SchedulerInv, SchedulerTypeOK, Night
<1> DEFINE n == [nights[c] EXCEPT !.todo = @ \ {t}, !.fired = @ \cup Fired(t)]
<1>2. /\ nights[c].pc = "insert"
      /\ nights' = [nights EXCEPT ![c] = n]
      /\ UNCHANGED <<worker, moment, queue, lapse, throttled, kind, trouble, heard, monday,
                     faults>>
  BY DEF Insert, Put
<1>3. /\ n \in Night /\ n.pc = "insert"
      /\ n.fired = nights[c].fired \cup ({t} \ Keys)
  BY <1>1, <1>2 DEF Night, Fired
<1> HIDE DEF n
<1>4. /\ today \subseteq today' /\ ever \subseteq ever' /\ t \in today' \cup ever'
      /\ today' \subseteq Trouble /\ ever' \subseteq Trouble
  BY <1>1 DEF Insert, SchedulerTypeOK
<1>5. nights' \in [Chain -> Night]
  BY <1>1, <1>2, <1>3 DEF SchedulerTypeOK, Night
<1>6. SchedulerTypeOK'
  BY <1>1, <1>2, <1>4, <1>5, ChainTyped DEF SchedulerTypeOK
<1>7. \A d \in Chain : nights'[d] = IF d = c THEN n ELSE nights[d]
  BY <1>1, <1>2 DEF SchedulerTypeOK
<1>8. Keys \cup {t} \subseteq Keys'
  BY <1>4 DEF Keys
<1>9. \A d \in Chain : FiredHasRow(nights[d])'
  BY <1>3, <1>7, <1>8 DEF SchedulerInv, FiredHasRow
<1>10. \A d \in Chain : nights[d].fired \subseteq Keys
  BY DEF SchedulerInv, FiredHasRow
<1>11. SaidOnce'
  <2>1. heard' = heard /\ heard \subseteq Keys
    BY <1>2 DEF SchedulerInv
  <2>2. \A d \in Chain : nights'[d].fired \cap heard' = {}
    BY <1>3, <1>7, <2>1 DEF SchedulerInv, SaidOnce
  <2>3. ASSUME NEW d \in Chain, NEW e \in Chain \ {d}
        PROVE  nights'[d].fired \cap nights'[e].fired = {}
    BY <1>3, <1>7, <1>10 DEF SchedulerInv, SaidOnce
  <2> QED BY <2>2, <2>3 DEF SaidOnce
<1>12. (heard \subseteq Keys)' /\ DraftsAddUp'
  BY <1>2, <1>8 DEF SchedulerInv, DraftsAddUp, DraftsForAll
<1> QED BY <1>6, <1>9, <1>11, <1>12 DEF SchedulerInv

\* What a mail carries had not been heard, and no chain is left that would tell it.
LEMMA MailStep ==
    ASSUME SchedulerInv, NEW c \in Chain, Mail(c)
    PROVE  SchedulerInv'
<1>1. SchedulerTypeOK /\ nights[c] \in Night
  BY DEF SchedulerInv, SchedulerTypeOK, Night
<1>2. Leave(c, TRUE) /\ heard' = heard \cup nights[c].fired
  BY DEF Mail
<1>3. UNCHANGED <<worker, moment, throttled, kind, trouble, today, ever, monday, faults>>
  BY DEF Mail
<1>4. /\ nights' = [nights EXCEPT ![c] = Idle] /\ nights' \in [Chain -> Night]
      /\ queue' \in Queue /\ lapse' \in 0..2 /\ Idle \in Night /\ Idle.fired = {}
  BY <1>1, <1>2, LeaveTyped
<1>5. SchedulerTypeOK'
  BY <1>1, <1>2, <1>3, <1>4, ChainTyped DEF SchedulerTypeOK, Night
<1>6. \A d \in Chain : nights'[d] = IF d = c THEN Idle ELSE nights[d]
  BY <1>1, <1>4 DEF SchedulerTypeOK
<1>7. \A d \in Chain : FiredHasRow(nights[d])'
  BY <1>3, <1>4, <1>6 DEF SchedulerInv, FiredHasRow, Keys
<1>8. (heard \subseteq Keys)'
  BY <1>2, <1>3 DEF SchedulerInv, FiredHasRow, Keys
<1>9. SaidOnce'
  BY <1>2, <1>4, <1>6 DEF SchedulerInv, SaidOnce
<1>10. DraftsAddUp'
  BY <1>3 DEF SchedulerInv, DraftsAddUp, DraftsForAll
<1> QED BY <1>5, <1>7, <1>8, <1>9, <1>10 DEF SchedulerInv

--------------------------------------------------------------------------------
(* Mondays.                                                                 *)

\* A step of the drafts alone.
LEMMA DraftingStep ==
    ASSUME SchedulerInv, NEW m \in Week, monday' = m,
           m.state \in {"first", "second"} => m.todo \cup m.drafted = Account,
           m.state = "completed" => m.drafted = Account,
           UNCHANGED <<worker, moment, queue, lapse, throttled, nights, alertVars, faults>>
    PROVE  SchedulerInv'
<1>1. UNCHANGED <<worker, moment, queue, lapse, throttled, nights, kind, trouble, today, ever,
                  heard, faults>>
  BY DEF alertVars
<1>2. SchedulerTypeOK'
  BY <1>1 DEF SchedulerInv, SchedulerTypeOK, Week
<1>3. DraftsAddUp'
  BY DEF DraftsAddUp, DraftsForAll
<1> QED BY <1>1, <1>2, <1>3, StillStep

LEMMA WeeklyStep ==
    ASSUME SchedulerInv, Weekly
    PROVE  SchedulerInv'
<1> DEFINE Rest == UNCHANGED <<worker, moment, queue, lapse, throttled, nights, alertVars,
                               faults>>
<1>1. monday \in Week /\ DraftsAddUp
  BY DEF SchedulerInv, SchedulerTypeOK, Week
<1>2. CASE Monday
  <2> DEFINE s == IF worker = "down" THEN "none" ELSE "first"
             m == [state |-> s, todo |-> Account, drafted |-> {}]
  <2>1. monday' = m /\ Rest /\ s \in {"none", "first"}
    BY <1>2 DEF Monday
  <2> HIDE DEF s
  <2>2. m \in Week /\ m.todo \cup m.drafted = Account /\ m.state # "completed"
    BY <2>1 DEF Week
  <2> HIDE DEF m
  <2> QED BY <2>1, <2>2, DraftingStep
<1>3. CASE RetryMonday
  <2> DEFINE m == [monday EXCEPT !.state = "second", !.todo = Account]
  <2>1. monday' = m /\ Rest
    BY <1>3 DEF RetryMonday
  <2>2. m \in Week /\ m.todo \cup m.drafted = Account /\ m.state # "completed"
    BY <1>1 DEF Week
  <2> HIDE DEF m
  <2> QED BY <2>1, <2>2, DraftingStep
<1>4. CASE DraftThrows
  <2> DEFINE m == [monday EXCEPT !.state = AfterThrow]
  <2>1. monday' = m /\ Rest /\ AfterThrow \in {"retry", "failed"}
    BY <1>4 DEF DraftThrows, AfterThrow
  <2>2. m \in Week /\ m.state \in {"retry", "failed"}
    BY <1>1, <2>1 DEF Week
  <2> HIDE DEF m
  <2> QED BY <2>1, <2>2, DraftingStep
<1>5. CASE DraftsDone
  <2> DEFINE m == [monday EXCEPT !.state = "completed"]
  <2>1. monday' = m /\ Rest /\ monday.drafted = Account
    <3>1. monday.state \in {"first", "second"} /\ monday.todo = {}
      BY <1>5 DEF DraftsDone, Drafting
    <3> QED BY <1>1, <1>5, <3>1 DEF DraftsDone, DraftsAddUp
  <2>2. m \in Week /\ m.drafted = Account /\ m.state = "completed"
    BY <1>1, <2>1 DEF Week
  <2> HIDE DEF m
  <2> QED BY <2>1, <2>2, DraftingStep
<1>6. ASSUME NEW a \in Account, Draft(a) PROVE SchedulerInv'
  <2> DEFINE m == [monday EXCEPT !.todo = @ \ {a}, !.drafted = @ \cup {a}]
  <2>1. monday' = m /\ Rest /\ monday.state \in {"first", "second"} /\ a \in monday.todo
    BY <1>6 DEF Draft, Drafting
  <2>2. /\ m \in Week /\ m.state = monday.state
        /\ m.todo = monday.todo \ {a} /\ m.drafted = monday.drafted \cup {a}
    BY <1>1 DEF Week
  <2> HIDE DEF m
  <2>3. monday.todo \cup monday.drafted = Account
    BY <1>1, <2>1 DEF DraftsAddUp
  <2>4. m.todo \cup m.drafted = Account /\ m.state # "completed"
    BY <2>1, <2>2, <2>3
  <2> QED BY <2>1, <2>2, <2>4, DraftingStep
<1> QED BY <1>2, <1>3, <1>4, <1>5, <1>6 DEF Weekly

--------------------------------------------------------------------------------
(* The theorems.                                                            *)

LEMMA SchedulerInvInit == SchedulerInit => SchedulerInv
<1> SUFFICES ASSUME SchedulerInit PROVE SchedulerInv
  OBVIOUS
<1>1. Idle \in Night /\ Idle.fired = {}
  BY DEF Idle, Night
<1>2. SchedulerTypeOK
  <2>1. queue \in Queue /\ monday \in Week
    BY DEF SchedulerInit, Queue, Week
  <2>2. nights \in [Chain -> Night]
    BY <1>1 DEF SchedulerInit
  <2>3. /\ worker = "down" /\ moment = "tick" /\ lapse = 2 /\ throttled = FALSE
        /\ trouble = {} /\ today = {} /\ ever = {} /\ heard = {} /\ faults = 0
    BY DEF SchedulerInit
  <2>4. kind \in [Trouble -> {"daily", "memory", "once"}]
    BY DEF SchedulerInit
  <2>5. {trouble, today, ever, heard} \subseteq SUBSET Trouble /\ faults \in 0..MaxFault
    BY <2>3
  <2>6. worker \in {"down", "booting", "deciding", "up"} /\ moment \in {"tick", "midnight"}
    BY <2>3
  <2>7. lapse \in 0..2
    BY <2>3
  <2>8. throttled \in BOOLEAN
    BY <2>3
  <2> QED BY <2>1, <2>2, <2>4, <2>5, <2>6, <2>7, <2>8 DEF SchedulerTypeOK, Night, Week
<1>3. \A c \in Chain : nights[c].fired = {}
  BY <1>1 DEF SchedulerInit
<1> QED BY <1>2, <1>3
        DEF SchedulerInit, SchedulerInv, FiredHasRow, Keys, SaidOnce, DraftsAddUp, DraftsForAll

LEMMA SchedulerInvStep == SchedulerInv /\ [SchedulerNext]_schedulerVars => SchedulerInv'
<1> SUFFICES ASSUME SchedulerInv, [SchedulerNext]_schedulerVars PROVE SchedulerInv'
  OBVIOUS
<1>1. CASE Start \/ Stop
  BY <1>1, ProcessStep DEF Start
<1>2. CASE WorkerDies
  BY <1>2, WorkerDiesStep
<1>3. CASE TimePasses \/ TakeJob \/ Change
  BY <1>3, CronTickStep, MidnightStep, FetchStep, ExpireStep, ChangeStep
     DEF TimePasses, TakeJob
<1>4. ASSUME NEW c \in Chain, ChainStep(c) \/ StartByHand(c) \/ Mail(c) \/ MailFails(c)
                              \/ Throw(c) \/ AlertsThrow(c)
      PROVE  SchedulerInv'
  BY <1>4, StartByHandStep, BeforeRowsStep, EndStep, InsertStep, MailStep DEF ChainStep
<1>5. CASE Weekly
  BY <1>5, WeeklyStep
<1>6. CASE UNCHANGED schedulerVars
  <2>1. UNCHANGED <<worker, moment, queue, lapse, throttled, nights, kind, trouble, today,
                    ever, heard, monday, faults>>
    BY <1>6 DEF schedulerVars, alertVars
  <2> QED BY <2>1, StillStep DEF SchedulerInv, SchedulerTypeOK, DraftsAddUp, DraftsForAll
<1> QED BY <1>1, <1>2, <1>3, <1>4, <1>5, <1>6 DEF SchedulerNext, Nightly

\* The inductive invariant of the worker's nights and Mondays: an alert is in no mail and
\* in no chain's hands unless it has a row, nor in the hands of two, and a job at its
\* drafts has every account before it or behind it (alerts.ts:437-463,
\* schedules.ts:298-320).
THEOREM SchedulerInvariant == SchedulerSpec => []SchedulerInv
BY SchedulerInvInit, SchedulerInvStep, PTL DEF SchedulerSpec

\* No alert is mailed twice, whoever runs the chain beside whom and wherever the worker
\* dies, and a week's job that completed has left every account its draft.
THEOREM NobodyTwiceOrMissed == SchedulerSpec => []NoneTwiceNoneMissed
<1>1. SchedulerInv => NoneTwiceNoneMissed
  BY DEF SchedulerInv, NoneTwiceNoneMissed, DraftsAddUp
<1> QED BY <1>1, SchedulerInvariant, PTL
================================================================================
