------------------------------ MODULE MCPipeline ------------------------------
(* What is done with a record, in two parts side by side: the runs that store it and   *)
(* the model jobs that read its evidence.  They meet in no table the properties are    *)
(* about: a behaviour is of one part, and "side" says of which.                        *)
EXTENDS MCSourceRun, ModelJobs

CONSTANTS e1, e2, units, w1, w2

VARIABLE side

pipelineVars == <<vars, side, jobsVars>>

--------------------------------------------------------------------------------
(* Two items on one fact path, of grades A and C.                                    *)

MCGrade    == [e \in Evidence |-> IF e = e1 THEN "A" ELSE "C"]
MCAbout    == [e \in Evidence |-> units]
MCAnswers  == {[facts |-> {e1, e2}, labeled |-> TRUE, clear |-> TRUE],
               [facts |-> {e1}, labeled |-> TRUE, clear |-> FALSE]}
MCPrice    == [j \in Job \ {"memo"} |-> IF j = "extraction" THEN 2 ELSE 1]

PipelineRuns == Runs \cup Permutations(Worker)

--------------------------------------------------------------------------------
PipelineInit == side \in {"run", "jobs"} /\ Init /\ JobsInit
                /\ (side # "jobs" => promoted)

\* A bound: a replay is at work beside one run, not beside two.
StoreBound == replay'.pc = "idle" \/ Cardinality(Active') < 2

\* A reduction: a check whose outcome does not change may as well be made before anything else.
\* The memo and the gate write nothing the other reads: a behaviour is of one of them.
\* A bound: one change, one fault or one refused job.
Refused == {i \in DOMAIN runs : runs[i].status = "blocked"}

PlainFirst ==
    /\ changes' + jobFaults' + Cardinality(Refused') < 2
    /\ digests' > 0 => memos' = <<>> /\ \A w \in Worker : job'[w].job # "memo"
    /\ digest.at \in DOMAIN Reads /\ Reads[digest.at] \in PlainCheck => digest' # digest

RunSide == side = "run" /\ Next /\ StoreBound /\ UNCHANGED <<side, jobsVars>>
JobSide == side = "jobs" /\ JobsNext /\ PlainFirst /\ UNCHANGED <<vars, side>>

PipelineNext == RunSide \/ JobSide

PipelineSpec == PipelineInit /\ [][PipelineNext]_pipelineVars
===============================================================================
