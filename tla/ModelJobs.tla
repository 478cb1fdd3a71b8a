------------------------------- MODULE ModelJobs -------------------------------
(***************************************************************************)
(* The language-model jobs of one project and what rests on them: the budget *)
(* they share, the extraction and its independent verification, the          *)
(* publication gate the digest asks, the versions of the decision memo.      *)
(* Operators at the command line and the web application run jobs beside     *)
(* each other; a job reads, asks the model for a minute, and writes one row  *)
(* of model_runs.  A statement or a call of the model is a step.             *)
(***************************************************************************)
EXTENDS Integers, Sequences, FiniteSets, SequencesExt, Functions

CONSTANTS
    Evidence,     \* evidence items a record of the project may carry
    Grade,        \* [Evidence -> authority grade]
    About,        \* [Evidence -> the fact path it speaks of]
    Answers,      \* what the extraction model may answer
    Worker,       \* processes at work at once
    Price,        \* [Job -> worst cost of one call]
    Cap, PerJob,  \* monthly and per-job limit
    Changing,     \* checks of the gate whose outcome may change
    MaxJob, MaxChange, MaxJobFault, MaxDigest,   \* bounds
    Void

Job == {"extraction", "verification", "draft", "question", "memo"}

\* A brief or an outreach message is a draft; a question to the assistant takes two calls.
Estimate(j) == IF j = "question" THEN 2 * Price[j] ELSE Price[j]

\* What the gate asks of the project and its score alone; and whether the project itself is of
\* a high-risk category or its sources contradict each other.
PlainCheck == {"score_threshold", "source_health", "identity_complete", "a_grade_core_event",
               "records_evidenced", "no_identity_contradiction", "timing_current"}

\* A fact is known by the evidence it cites; "labeled": no fact is unconfirmed; "clear": none is
\* below the confidence or of a high-risk category, and nothing critical is missing.
Extraction == [facts : SUBSET Evidence, labeled : BOOLEAN, clear : BOOLEAN]

ASSUME ModelJobsAssumption ==
    /\ Grade \in [Evidence -> {"A", "B", "C", "D"}]
    /\ DOMAIN About = Evidence
    /\ Answers \subseteq Extraction
    /\ IsFiniteSet(Worker) /\ Worker # {}
    /\ Price \in [Job \ {"memo"} -> Nat] /\ Cap \in Nat /\ PerJob \in Nat
    /\ Changing \subseteq PlainCheck \cup {"low_risk"}
    /\ {MaxJob, MaxChange, MaxJobFault, MaxDigest} \subseteq Nat

VARIABLES
    runs,        \* the rows of model_runs, oldest first
    memos,       \* the versions of the decision memo, each with what it shows
    active,      \* evidence of the records that are resolved to the project now
    failing,     \* checks that fail now
    promoted,    \* a person has promoted the opportunity
    job,         \* what each process is doing
    digest,      \* the candidate the digest is at
    shown,       \* items the digest included by itself, with the rows it read
    spent,       \* what the providers charged
    unrecorded,  \* what they charged to jobs that left no cost behind
    begun, changes, jobFaults, digests

jobsVars == <<runs, memos, active, failing, promoted, job, digest, shown, spent, unrecorded,
             begun, changes, jobFaults, digests>>
counts == <<begun, changes, jobFaults, digests>>

Verdict    == Evidence \X BOOLEAN
RunStatus  == {"succeeded", "rejected", "blocked", "error"}

\* "of": the extraction a verification loaded, kept in the model only.
RunOK(r) ==
    /\ r.job \in Job /\ r.status \in RunStatus /\ {r.cost, r.of} \subseteq Nat
    /\ r.result # Void => r.status = "succeeded"
    /\ r.result # Void => IF r.job = "extraction" THEN r.result \in Extraction
                           ELSE r.job = "verification" /\ r.result \subseteq Verdict

\* What a candidate costs in reads, in their order; the last two run at once.
Reads == <<"score_threshold", "extraction", "source_health", "identity_complete",
           "a_grade_core_event", "records_evidenced", "facts_evidenced",
           "no_identity_contradiction", "timing_current", "verifier_extraction", "verification",
           "item", "item">>

Free == [pc |-> "idle", job |-> Void, of |-> 0, known |-> {}, cost |-> 0, result |-> Void,
         status |-> Void, prior |-> 0]
Off  == [at |-> 0, fails |-> FALSE, blocked |-> FALSE, risky |-> FALSE, x |-> <<>>, v |-> <<>>]

JobsTypeOK ==
    /\ \A i \in DOMAIN runs : RunOK(runs[i])
    /\ Len(memos) <= MaxJob
    /\ active \subseteq Evidence /\ failing \subseteq PlainCheck \cup {"low_risk"} /\ promoted \in BOOLEAN
    /\ \A w \in Worker :
         /\ job[w].pc \in {"idle", "budget", "parse", "call", "persist", "compare", "insert"}
         /\ job[w].job \in Job \cup {Void} /\ job[w].known \subseteq Evidence
         /\ {job[w].of, job[w].cost, job[w].prior} \subseteq Nat
    /\ digest.at \in 0..Len(Reads) + 1
    /\ {digest.fails, digest.blocked, digest.risky} \subseteq BOOLEAN
    /\ {spent, unrecorded} \subseteq Nat
    /\ begun \in 0..MaxJob /\ changes \in 0..MaxChange
    /\ jobFaults \in 0..MaxJobFault /\ digests \in 0..MaxDigest

JobsInit ==
    /\ runs = <<>> /\ memos = <<>> /\ active = Evidence
    /\ failing = {} /\ promoted \in BOOLEAN
    /\ job = [w \in Worker |-> Free] /\ digest = Off /\ shown = {}
    /\ spent = 0 /\ unrecorded = 0 /\ begun = 0 /\ changes = 0 /\ jobFaults = 0 /\ digests = 0

--------------------------------------------------------------------------------
(* What the rows say.                                                        *)

\* The sum of the ledger in the month.
Recorded == LET sum[i \in 0..Len(runs)] == IF i = 0 THEN 0 ELSE sum[i - 1] + runs[i].cost
            IN  sum[Len(runs)]

\* Rows are known by their place; 0 stands for none.
LatestOf(Pick(_)) == LET at == {i \in 1..Len(runs) : Pick(runs[i])}
                     IN  IF at = {} THEN 0 ELSE CHOOSE i \in at : \A j \in at : j <= i

LatestExtraction   == LatestOf(LAMBDA r : r.job = "extraction" /\ r.status = "succeeded")
LatestVerification == LatestOf(LAMBDA r : r.job = "verification")

FactsOf(x) == IF x = 0 THEN {} ELSE runs[x].result.facts

\* mutant: the estimate of the job is left out
SpentOnly(j) == Estimate(j) <= PerJob /\ Recorded < Cap

\* The check before the call: the worst case of this job, in what the month has left.
BudgetAllows(j) == Estimate(j) <= PerJob /\ Recorded + Estimate(j) <= Cap

\* mutant: facts without a verdict are let through
OnlyKnownFacts(verdicts, facts) == {d[1] : d \in verdicts} \subseteq facts

\* The verifier must judge every fact and no other; it may contradict itself.  (A fact is
\* the evidence it cites: the code keys a verdict by path and evidence, and no two facts
\* of an answer share both here.)
ValidVerdicts(verdicts, facts) == {d[1] : d \in verdicts} = facts

Unsupported(v) == \E d \in runs[v].result : ~d[2]

--------------------------------------------------------------------------------
(* A job.                                                                    *)

Go(w, to) == job' = [job EXCEPT ![w] = to]

Row(j, status, cost, of, result) ==
    [job |-> j, status |-> status, cost |-> cost, of |-> of, result |-> result]

\* A process without a key leaves a blocked row and does no more.
Keyless(w, j) ==
    /\ job[w] = Free /\ begun < MaxJob /\ begun' = begun + 1
    /\ j = "extraction" => active # {}
    /\ j = "verification" => FactsOf(LatestExtraction) # {}
    /\ runs' = Append(runs, Row(j, "blocked", 0, 0, Void))
    /\ UNCHANGED <<memos, active, failing, promoted, job, digest, shown, spent, unrecorded,
                   changes, jobFaults, digests>>

\* The evidence of the project, as far as its records are resolved to it now.
BeginExtraction(w) ==
    /\ job[w] = Free /\ begun < MaxJob /\ begun' = begun + 1
    /\ active # {}
    /\ Go(w, [Free EXCEPT !.pc = "budget", !.job = "extraction", !.known = active])
    /\ UNCHANGED <<runs, memos, active, failing, promoted, digest, shown, spent, unrecorded,
                   changes, jobFaults, digests>>

\* The latest extraction; one without facts is verified without a call.
BeginVerification(w) ==
    /\ job[w] = Free /\ begun < MaxJob /\ begun' = begun + 1
    /\ LatestExtraction # 0
    /\ LET x == LatestExtraction
       IN  IF FactsOf(x) = {}
           THEN runs' = Append(runs, Row("verification", "succeeded", 0, x, {})) /\ UNCHANGED job
           ELSE /\ Go(w, [Free EXCEPT !.pc = "budget", !.job = "verification",
                                      !.of = x, !.known = FactsOf(x)])
                /\ UNCHANGED runs
    /\ UNCHANGED <<memos, active, failing, promoted, digest, shown, spent, unrecorded,
                   changes, jobFaults, digests>>

BeginDraft(w) ==
    /\ job[w] = Free /\ begun < MaxJob /\ begun' = begun + 1
    /\ Go(w, [Free EXCEPT !.pc = "budget", !.job = "draft"])
    /\ UNCHANGED <<runs, memos, active, failing, promoted, digest, shown, spent, unrecorded,
                   changes, jobFaults, digests>>

BeginQuestion(w) ==
    /\ job[w] = Free /\ begun < MaxJob /\ begun' = begun + 1
    /\ Go(w, [Free EXCEPT !.pc = "budget", !.job = "question"])
    /\ UNCHANGED <<runs, memos, active, failing, promoted, digest, shown, spent, unrecorded,
                   changes, jobFaults, digests>>

CheckBudget(w) ==
    /\ job[w].pc = "budget"
    /\ IF BudgetAllows(job[w].job)
       THEN /\ Go(w, [job[w] EXCEPT !.pc = IF job[w].job = "question" THEN "parse" ELSE "call"])
            /\ UNCHANGED runs
       ELSE /\ runs' = Append(runs, Row(job[w].job, "blocked", 0, job[w].of, Void))
            /\ Go(w, Free)
    /\ UNCHANGED <<memos, active, failing, promoted, digest, shown, spent, unrecorded, counts>>

\* A question's filter, whoever made it, may find nothing to tell of: an empty answer
\* without a second call.
Retrieve(w, cost) ==
    \E found \in BOOLEAN :
        Go(w, [job[w] EXCEPT !.cost = cost, !.pc = IF found THEN "call" ELSE "persist",
                             !.status = IF found THEN Void ELSE "succeeded"])

\* The first call of a question.  When it fails the words are taken instead, and what it
\* may have been charged is recorded nowhere.
ParseQuestion(w) ==
    /\ job[w].pc = "parse"
    /\ \/ /\ Retrieve(w, Price["question"])
          /\ spent' = spent + Price["question"]
          /\ UNCHANGED <<unrecorded, jobFaults>>
       \/ /\ jobFaults < MaxJobFault /\ jobFaults' = jobFaults + 1
          /\ \E charged \in {0, Price["question"]} :
               spent' = spent + charged /\ unrecorded' = unrecorded + charged
          /\ Retrieve(w, 0)
    /\ UNCHANGED <<runs, memos, active, failing, promoted, digest, shown, begun, changes, digests>>

\* What a call may come back with: an answer that is checked against what was asked.  Whether
\* a draft or an answer to a question was accepted nothing here asks: its row costs the same.
Replies(w) ==
    CASE job[w].job = "extraction" ->
           {[status |-> IF a.facts \subseteq job[w].known THEN "succeeded" ELSE "rejected",
             result |-> a] : a \in Answers}
      [] job[w].job = "verification" ->
           {[status |-> IF ValidVerdicts(v, job[w].known) THEN "succeeded" ELSE "rejected",
             result |-> v] : v \in SUBSET (Evidence \X BOOLEAN)}
      [] OTHER -> {[status |-> "succeeded", result |-> Void]}

\* The provider charges the worst case.
CallModel(w) ==
    /\ job[w].pc = "call"
    /\ \E a \in Replies(w) :
         Go(w, [job[w] EXCEPT !.pc = "persist", !.cost = @ + Price[job[w].job],
                              !.status = a.status,
                              !.result = IF a.status = "succeeded" THEN a.result ELSE Void])
    /\ spent' = spent + Price[job[w].job]
    /\ UNCHANGED <<runs, memos, active, failing, promoted, digest, shown, unrecorded, counts>>

\* The call fails, before the provider has charged it or after; the row has the cost of the
\* calls before it.
CallFails(w) ==
    /\ job[w].pc = "call"
    /\ jobFaults < MaxJobFault /\ jobFaults' = jobFaults + 1
    /\ runs' = Append(runs, Row(job[w].job, "error", job[w].cost, job[w].of, Void))
    /\ \E charged \in {0, Price[job[w].job]} :
         spent' = spent + charged /\ unrecorded' = unrecorded + charged
    /\ Go(w, Free)
    /\ UNCHANGED <<memos, active, failing, promoted, digest, shown, begun, changes, digests>>

PersistModelRun(w) ==
    /\ job[w].pc = "persist"
    /\ runs' = Append(runs, Row(job[w].job, job[w].status, job[w].cost, job[w].of, job[w].result))
    /\ Go(w, Free)
    /\ UNCHANGED <<memos, active, failing, promoted, digest, shown, spent, unrecorded, counts>>

\* A process that dies during the call may have been charged for it.
Die(w) ==
    /\ job[w].pc # "idle"
    /\ jobFaults < MaxJobFault /\ jobFaults' = jobFaults + 1
    /\ \E charged \in {0} \cup (IF job[w].pc \in {"parse", "call"} THEN {Price[job[w].job]} ELSE {}) :
         spent' = spent + charged /\ unrecorded' = unrecorded + job[w].cost + charged
    /\ Go(w, Free)
    /\ UNCHANGED <<runs, memos, active, failing, promoted, digest, shown, begun, changes, digests>>

--------------------------------------------------------------------------------
(* The decision memo: built from the rows, kept when it says something new.  *)

MemoContent ==
    LET x == LatestExtraction
        v == LatestVerification
    IN  <<IF x = 0 THEN Void ELSE runs[x].result, IF v = 0 THEN Void ELSE runs[v].result, failing>>

BuildMemo(w) ==
    /\ job[w] = Free /\ begun < MaxJob /\ begun' = begun + 1
    /\ Go(w, [Free EXCEPT !.pc = "compare", !.job = "memo", !.of = LatestExtraction,
                          !.result = MemoContent])
    /\ UNCHANGED <<runs, memos, active, failing, promoted, digest, shown, spent, unrecorded,
                   changes, jobFaults, digests>>

CompareMemo(w) ==
    /\ job[w].pc = "compare"
    /\ LET last == Len(memos)
       IN  Go(w, IF last > 0 /\ memos[last] = job[w].result THEN Free
                 ELSE [job[w] EXCEPT !.pc = "insert", !.prior = last])
    /\ UNCHANGED <<runs, memos, active, failing, promoted, digest, shown, spent, unrecorded, counts>>

\* mutant: no unique index on the version
NoVersionTaken(v) == FALSE

VersionTaken(v) == v <= Len(memos)

\* A version that is taken refuses the insert: the request fails.
InsertMemo(w) ==
    /\ job[w].pc = "insert"
    /\ memos' = IF VersionTaken(job[w].prior + 1) THEN memos ELSE Append(memos, job[w].result)
    /\ Go(w, Free)
    /\ UNCHANGED <<runs, active, failing, promoted, digest, shown, spent, unrecorded, counts>>

--------------------------------------------------------------------------------
(* The digest: the gate of a candidate read by read, then its item.          *)

\* The facts' evidence is active, never of grade D, and of grade C only beside another
\* item on the same path that is not.
FactsEvidenced(x) ==
    \A f \in FactsOf(x) :
      /\ f \in active /\ Grade[f] # "D"
      /\ Grade[f] = "C" => \E o \in active \ {f} : About[o] = About[f] /\ Grade[o] # "C"

AtRead(read) == digest.at \in DOMAIN Reads /\ Reads[digest.at] = read

Looks == UNCHANGED <<runs, memos, active, failing, promoted, job, shown, spent, unrecorded, counts>>

\* The candidates come with what the digest knows of the project.
BeginCandidate ==
    /\ digest = Off /\ digests < MaxDigest /\ digests' = digests + 1
    /\ digest' = [Off EXCEPT !.at = 1, !.risky = "low_risk" \in failing]
    /\ UNCHANGED <<runs, memos, active, failing, promoted, job, shown, spent, unrecorded,
                   begun, changes, jobFaults>>

ReadPlain ==
    /\ \E c \in PlainCheck :
         /\ AtRead(c)
         /\ digest' = [digest EXCEPT !.at = @ + 1, !.fails = @ \/ c \in failing]
    /\ Looks

ReadExtraction ==
    /\ AtRead("extraction")
    /\ digest' = [digest EXCEPT !.at = @ + 1, !.x = <<LatestExtraction>>]
    /\ Looks

\* Asked of the extraction that was read before, with the evidence there is now.
ReadFacts ==
    /\ AtRead("facts_evidenced")
    /\ LET x == digest.x[1]
       IN  digest' = [digest EXCEPT !.at = @ + 1,
                        !.fails = @ \/ ~FactsEvidenced(x) \/ (x # 0 /\ ~runs[x].result.labeled)]
    /\ Looks

\* The verifier's check reads the extraction again; without one it asks no further.
ReadVerifierExtraction ==
    /\ AtRead("verifier_extraction")
    /\ LET x == LatestExtraction
       IN  digest' = [digest EXCEPT !.at = @ + (IF x = 0 THEN 2 ELSE 1), !.blocked = x = 0,
                                    !.x = Append(@, x)]
    /\ Looks

\* Void or a blocked one is no answer; any but a success is a refusal.
ReadVerification ==
    /\ AtRead("verification")
    /\ LET v == LatestVerification
           none == v = 0 \/ runs[v].status = "blocked"
       IN  digest' = [digest EXCEPT !.at = @ + 1, !.v = <<v>>, !.blocked = none,
                        !.fails = @ \/ (~none /\ (runs[v].status # "succeeded" \/ Unsupported(v)))]
    /\ Looks

Passed == ~digest.fails /\ ~digest.blocked

GateRefuses == AtRead("item") /\ ~Passed /\ digest' = Off /\ Looks

\* The two reads of the item, whichever comes first.
ReadItem ==
    /\ AtRead("item") /\ Passed
    /\ \/ /\ Len(digest.x) = 2
          /\ digest' = [digest EXCEPT !.at = @ + 1, !.x = Append(@, LatestExtraction)]
       \/ /\ Len(digest.v) = 1
          /\ digest' = [digest EXCEPT !.at = @ + 1, !.v = Append(@, LatestVerification)]
    /\ Looks

\* mutant: confidence, missing facts and categories are not asked
WithoutConfidence(x, v) == v # 0 /\ runs[v].status = "succeeded" /\ ~Unsupported(v)

\* What the machine may include without a person.
SafeToInclude(x, v) ==
    /\ ~digest.risky
    /\ x # 0 /\ runs[x].result.clear
    /\ v # 0 /\ runs[v].status = "succeeded" /\ ~Unsupported(v)

IncludeItem ==
    /\ digest.at > Len(Reads)
    /\ shown' = IF promoted \/ SafeToInclude(digest.x[3], digest.v[2])
                THEN shown \cup {[x |-> digest.x, v |-> digest.v, by |-> promoted]} ELSE shown
    /\ digest' = Off
    /\ UNCHANGED <<runs, memos, active, failing, promoted, job, spent, unrecorded, counts>>

--------------------------------------------------------------------------------
(* The rest of the world.                                                    *)

\* A record leaves the project, or comes back.
Reresolve(e) ==
    /\ changes < MaxChange /\ changes' = changes + 1
    /\ active' = IF e \in active THEN active \ {e} ELSE active \cup {e}
    /\ UNCHANGED <<runs, memos, failing, promoted, job, digest, shown, spent, unrecorded,
                   begun, jobFaults, digests>>

Change(c) ==
    /\ changes < MaxChange /\ changes' = changes + 1
    /\ failing' = IF c \in failing THEN failing \ {c} ELSE failing \cup {c}
    /\ UNCHANGED <<runs, memos, active, promoted, job, digest, shown, spent, unrecorded,
                   begun, jobFaults, digests>>

Work(w) ==
    \/ \E j \in Job \ {"memo"} : Keyless(w, j)
    \/ BeginExtraction(w) \/ BeginVerification(w) \/ BeginDraft(w) \/ BeginQuestion(w)
    \/ CheckBudget(w) \/ ParseQuestion(w) \/ CallModel(w) \/ CallFails(w) \/ PersistModelRun(w) \/ Die(w)
    \/ BuildMemo(w) \/ CompareMemo(w) \/ InsertMemo(w)

EvaluateGate ==
    \/ BeginCandidate \/ ReadPlain \/ ReadExtraction \/ ReadFacts
    \/ ReadVerifierExtraction \/ ReadVerification \/ GateRefuses \/ ReadItem \/ IncludeItem

JobsNext ==
    \/ \E w \in Worker : Work(w)
    \/ EvaluateGate
    \/ \E e \in Evidence : Reresolve(e)
    \/ \E c \in Changing : Change(c)

JobsSpec == JobsInit /\ [][JobsNext]_jobsVars

--------------------------------------------------------------------------------
(* Properties.                                                               *)

\* However many jobs run at once, the month costs at most what the others in flight cost
\* over the cap, and what no row accounts for is what failed calls and dead processes
\* were charged (budget.ts:44-73, the ledger of runs.ts).
CostInFlight == SumFunctionOnSet([w \in Worker |-> job[w].cost], Worker)

SpendBounded ==
    /\ spent = Recorded + CostInFlight + unrecorded
    /\ spent - unrecorded <= Cap + (Cardinality(Worker) - 1) * PerJob

\* What the machine puts in a digest by itself rests on verdicts: when one extraction was
\* latest throughout and the verification judged that one, every fact shown was supported
\* and none contested, and nothing in it is unsure, missing or unconfirmed; also when
\* evidence moved and jobs ran between the reads (gate.ts:118-195, 250-314, automation.ts:73-117,
\* digest.ts:622-650, verifier-contract.ts:41-86).
OfOneRun(s) == \A i \in 1..Len(s) : s[i] = s[1]

ShownIsVerified ==
    \A s \in shown : OfOneRun(s.x) /\ OfOneRun(s.v) /\ runs[s.v[1]].of = s.x[1] =>
        LET x == runs[s.x[1]].result
            v == runs[s.v[1]].result
        IN  /\ \A f \in x.facts : <<f, TRUE>> \in v /\ <<f, FALSE>> \notin v
            /\ x.labeled /\ (s.by \/ x.clear)
            /\ \A f \in x.facts : Grade[f] # "D"

\* A new version of a memo says something its predecessor did not, also when two requests
\* build one at once (memo.ts:307-339, the index of schema.ts:557).
VersionsTellApart == \A i \in 2..Len(memos) : memos[i] # memos[i - 1]

\* The ledger of the model jobs accounts for what was charged, the month stays within what
\* overlapping jobs can add to the cap, and the versions of a memo tell apart (budget.ts:44-73,
\* runs.ts:32-52, memo.ts:314-337).
JobsAddUp == JobsTypeOK /\ SpendBounded /\ VersionsTellApart

\* "An item may be auto-included in a customer digest ONLY when the full §15 gate passes, the
\* independent verifier supported every fact" (automation.ts:7-8).
AutoMeansVerified ==
    \A s \in shown : ~s.by =>
        \A f \in runs[s.x[3]].result.facts : <<f, TRUE>> \in runs[s.v[2]].result
================================================================================
