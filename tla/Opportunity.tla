------------------------------ MODULE Opportunity ------------------------------
(***************************************************************************)
(* The state of an opportunity, which is one project for one account.  Score *)
(* runs write it (intelligence/score-run.ts): the nightly chain over every   *)
(* project, an operator over every project or a few.  People write it too:   *)
(* in the app (api/app/opportunities/[id]/state) and through the one-tap     *)
(* links of a digest (api/action, delivery/actions.ts).  A score run takes   *)
(* minutes, writes one row at a time and has no transaction.                 *)
(*                                                                          *)
(* A router's result is whether the pair fits and its score; these and the   *)
(* capacity of the account change when rules, projects or snapshots do.      *)
(***************************************************************************)
EXTENDS Integers, FiniteSets

CONSTANTS
    Pair,         \* (project, account) pairs
    Routerless,   \* those of accounts the scorer has no router for
    OldRows,      \* pairs that have a row, of an earlier algorithm, at the start
    Facts,        \* what a router and the capacity snapshot may say of a pair
    First,        \* [Pair -> what they say at the start]
    PriorityMin, DigestMin,  \* the account's thresholds
    MaxDeploy,    \* bound: new versions of the algorithm
    MaxChange,    \* bound: changes of what is said of a pair
    MaxRun,       \* bound: score runs of the operator
    MaxRequest,   \* bound: requests by people
    MaxFault,     \* bound: runs and requests that stop half way
    None

Band   == {"priority_review", "weekly_digest", "archive"}
Manual == {"dismissed", "promoted"}

ASSUME OpportunityAssumption ==
    /\ Routerless \subseteq Pair /\ OldRows \subseteq Pair
    /\ Facts \subseteq [fits : BOOLEAN, score : 0..100, factor : 0..100]
    /\ First \in [Pair -> Facts] /\ \A o \in Routerless : ~First[o].fits
    /\ PriorityMin \in Nat /\ DigestMin \in 0..PriorityMin
    /\ MaxDeploy \in Nat \ {0} /\ MaxChange \in Nat /\ MaxRun \in Nat
    /\ MaxRequest \in Nat /\ MaxFault \in Nat

VARIABLES
    facts,        \* what a run that loads each pair now will find
    deployed,     \* SCORING_ALGORITHM_VERSION of the code that starts now
    rows,         \* the row of opportunities, None: no row
    tokens,       \* the dismiss token of the last digest that showed the pair
    feedback,     \* feedback rows the taps on a pair's token have left
    labels,       \* decision_labels of each pair: how many
    work,         \* what each process is doing
    changes, runs, requests, faults

table == <<rows, tokens, feedback, labels>>
count == <<changes, runs, requests, faults>>
vars  == <<facts, deployed, rows, tokens, feedback, labels, work, changes, runs, requests, faults>>

Scorer  == {"chain", "operator"}
Person  == {"app", "mail"}
Process == Scorer \cup Person

\* derouted: rationale_json.deroute is there; band: of current_score.
Row == [state : Band \cup Manual, band : Band, version : 0..MaxDeploy,
        derouted : BOOLEAN]

ASSUME NoneIsNoRow == None \notin Row

BandFor(score) ==
    IF score >= PriorityMin THEN "priority_review"
    ELSE IF score >= DigestMin THEN "weekly_digest" ELSE "archive"

\* applyCapacity: the score times priorityFactor, in percent.
AfterCapacity(f) == (f.score * f.factor) \div 100

\* What a run that loads the pair says of it.  An account without a router gets no
\* result at all.
Verdict(o) ==
    IF o \in Routerless \/ ~facts[o].fits THEN "unrouted" ELSE BandFor(AfterCapacity(facts[o]))

Idle == [pc |-> "idle", scope |-> {}, seen |-> [o \in Pair |-> "unrouted"], version |-> 0,
         todo |-> {}, pair |-> None, to |-> None]

Busy(p) == work[p].pc # "idle"
Routed(p) == {o \in work[p].scope : work[p].seen[o] # "unrouted"}

Init ==
    /\ facts = First
    /\ deployed = 1
    /\ rows = [o \in Pair |-> IF o \in OldRows
                 THEN [state |-> "weekly_digest", band |-> "weekly_digest",
                       version |-> 0, derouted |-> FALSE]
                 ELSE None]
    /\ tokens = [o \in Pair |-> "none"]
    /\ feedback = [o \in Pair |-> 0] /\ labels = feedback
    /\ work = [p \in Process |-> Idle]
    /\ changes = 0 /\ runs = 0 /\ requests = 0 /\ faults = 0

-----------------------------------------------------------------------------
(* Score runs: scoreAll *)

\* loadFeatures and loadAccountInputs: what the run will score, and with what.
Load(p, scope) ==
    /\ p \in Scorer /\ ~Busy(p) /\ scope # {}
    /\ p = "chain" => scope = Pair
    /\ p = "operator" => runs < MaxRun
    /\ LET me == [Idle EXCEPT !.scope = scope, !.seen = [o \in Pair |-> Verdict(o)], !.version = deployed]
           routed == {o \in scope : Verdict(o) # "unrouted"}
       IN  work' = [work EXCEPT ![p] =
               [me EXCEPT !.todo = routed, !.pc = IF routed = {} THEN "read" ELSE "upsert"]]
    /\ runs' = IF p = "operator" THEN runs + 1 ELSE runs
    /\ UNCHANGED <<facts, deployed, table, changes, requests, faults>>

\* The state of the row after an upsert of `band`.
StateAfter(row, band) ==
    IF row # None /\ row.state \in Manual THEN row.state ELSE band

\* mutant: the row of a pair that is there already keeps its rationale
KeepRationale(row, band, version) ==
    [state |-> StateAfter(row, band), band |-> band, version |-> version,
     derouted |-> row # None /\ row.derouted]

\* upsertOpportunity: the rationale is replaced, with its deroute marker.
Upserted(row, band, version) ==
    [state |-> StateAfter(row, band), band |-> band, version |-> version, derouted |-> FALSE]

Upsert(p) ==
    /\ work[p].pc = "upsert"
    /\ \E o \in work[p].todo :
         LET me == [work[p] EXCEPT !.todo = @ \ {o}]
         IN  /\ rows' = [rows EXCEPT ![o] = Upserted(@, me.seen[o], me.version)]
             /\ work' = [work EXCEPT ![p] =
                    [me EXCEPT !.pc = IF me.todo = {} THEN "read" ELSE "upsert"]]
    /\ UNCHANGED <<facts, deployed, tokens, feedback, labels, count>>

\* Rows the sweep may archive.
Sweepable(o) == rows[o] # None /\ rows[o].state \notin Manual \cup {"archive"}

\* mutant: whatever the run has not found to route
NotRouted(p) == {o \in Pair \ Routerless : Sweepable(o)} \ Routed(p)

\* loadSweepableOpportunities and deroutedOpportunities.
Derouted(p) == {o \in work[p].scope \ Routerless : Sweepable(o)} \ Routed(p)

ReadSweepable(p) ==
    /\ work[p].pc = "read"
    /\ work' = [work EXCEPT ![p] =
           IF Derouted(p) = {} THEN Idle ELSE [@ EXCEPT !.todo = Derouted(p), !.pc = "sweep"]]
    /\ UNCHANGED <<facts, deployed, table, count>>

\* mutant: the guard is not asserted again
StillThere(o) == rows[o] # None

StillSweepable(o) == Sweepable(o)

\* archiveDerouted: one statement.
Sweep(p) ==
    /\ work[p].pc = "sweep"
    /\ rows' = [o \in Pair |->
         IF o \in work[p].todo /\ StillSweepable(o)
         THEN [rows[o] EXCEPT !.state = "archive", !.derouted = TRUE] ELSE rows[o]]
    /\ work' = [work EXCEPT ![p] = Idle]
    /\ UNCHANGED <<facts, deployed, tokens, feedback, labels, count>>

-----------------------------------------------------------------------------
(* People *)

\* POST state: what the person saw is read, then the state is set; "rescore" hands the
\* row back to the bands; the decision label is last.  What the label says, and the
\* feedback row of a dismissal that gives a reason, are left out.
Target(to) == IF to = "rescore" THEN "weekly_digest" ELSE to

Decide(o, to) ==
    /\ ~Busy("app") /\ requests < MaxRequest /\ rows[o] # None
    /\ work' = [work EXCEPT !["app"] = [Idle EXCEPT !.pc = "set", !.pair = o, !.to = to]]
    /\ requests' = requests + 1
    /\ UNCHANGED <<facts, deployed, table, changes, runs, faults>>

SetState ==
    /\ work["app"].pc = "set"
    /\ rows' = [rows EXCEPT ![work["app"].pair].state = Target(work["app"].to)]
    /\ work' = [work EXCEPT !["app"].pc = "label"]
    /\ UNCHANGED <<facts, deployed, tokens, feedback, labels, count>>

InsertLabel ==
    /\ work["app"].pc = "label"
    /\ labels' = [labels EXCEPT ![work["app"].pair] = @ + 1]
    /\ work' = [work EXCEPT !["app"] = Idle]
    /\ UNCHANGED <<facts, deployed, rows, tokens, feedback, count>>

\* POST /api/action.  A tap the mail client repeats is a request of its own, which the
\* app serves at the same time as the first ("app" taps only while "mail" does).
TapStarts(p, o) ==
    /\ p \in Person /\ ~Busy(p) /\ requests < MaxRequest /\ tokens[o] # "none"
    /\ p = "app" => Busy("mail")
    /\ work' = [work EXCEPT ![p] = [Idle EXCEPT !.pc = "claim", !.pair = o]]
    /\ requests' = requests + 1
    /\ UNCHANGED <<facts, deployed, table, changes, runs, faults>>

\* mutant: the token is read first and marked used with the feedback
PeekClaim(p) ==
    /\ work[p].pc = "claim"
    /\ work' = [work EXCEPT ![p] = IF tokens[work[p].pair] = "live"
                                   THEN [@ EXCEPT !.pc = "dismiss"] ELSE Idle]
    /\ UNCHANGED <<facts, deployed, table, count>>

\* consumeActionToken: one UPDATE guarded on used_at and expires_at.
Claim(p) ==
    /\ work[p].pc = "claim"
    /\ LET o == work[p].pair
       IN  IF tokens[o] = "live"
           THEN /\ tokens' = [tokens EXCEPT ![o] = "spent"]
                /\ work' = [work EXCEPT ![p].pc = "dismiss"]
           ELSE /\ work' = [work EXCEPT ![p] = Idle]
                /\ UNCHANGED tokens
    /\ UNCHANGED <<facts, deployed, rows, feedback, labels, count>>

TapDismiss(p) ==
    /\ work[p].pc = "dismiss"
    /\ rows' = [rows EXCEPT ![work[p].pair].state = "dismissed"]
    /\ work' = [work EXCEPT ![p].pc = "feedback"]
    /\ UNCHANGED <<facts, deployed, tokens, feedback, labels, count>>

TapFeedback(p) ==
    /\ work[p].pc = "feedback"
    /\ feedback' = [feedback EXCEPT ![work[p].pair] = @ + 1]
    /\ work' = [work EXCEPT ![p] = Idle]
    /\ UNCHANGED <<facts, deployed, rows, tokens, labels, count>>

-----------------------------------------------------------------------------
(* The world *)

\* What a digest ranks: deliverable, above the digest threshold and scored by the
\* algorithm of the code that builds it (scoredByCurrentAlgorithm, checkScore).
Deliverable(o) ==
    /\ rows[o] # None /\ rows[o].state \in {"priority_review", "weekly_digest", "promoted"}
    /\ rows[o].band # "archive" /\ rows[o].version = deployed

\* A digest shows the pair with a one-tap link (Delivery has the rest of it).
Show(o) ==
    /\ Deliverable(o) /\ tokens[o] = "none"
    /\ tokens' = [tokens EXCEPT ![o] = "live"]
    /\ UNCHANGED <<facts, deployed, rows, feedback, labels, work, count>>

\* The token's two weeks pass.
Expire(o) ==
    /\ tokens[o] = "live"
    /\ tokens' = [tokens EXCEPT ![o] = "spent"]
    /\ UNCHANGED <<facts, deployed, rows, feedback, labels, work, count>>

\* A rule, a territory, a project or a capacity snapshot changes.
Change(o, f) ==
    /\ changes < MaxChange /\ f # facts[o] /\ o \notin Routerless
    /\ facts' = [facts EXCEPT ![o] = f]
    /\ changes' = changes + 1
    /\ UNCHANGED <<deployed, table, work, runs, requests, faults>>

Deploy ==
    /\ deployed < MaxDeploy
    /\ deployed' = deployed + 1
    /\ UNCHANGED <<facts, table, work, count>>

\* A statement throws past its retries, or the process dies.
Fault(p) ==
    /\ Busy(p) /\ faults < MaxFault
    /\ work' = [work EXCEPT ![p] = Idle]
    /\ faults' = faults + 1
    /\ UNCHANGED <<facts, deployed, table, changes, runs, requests>>

Score(p)   == Upsert(p) \/ ReadSweepable(p) \/ Sweep(p)
Respond(p) == Claim(p) \/ TapDismiss(p) \/ TapFeedback(p)

Next ==
    \/ \E p \in Scorer : Score(p) \/ \E scope \in SUBSET Pair : Load(p, scope)
    \/ \E p \in Person : Respond(p) \/ \E o \in Pair : TapStarts(p, o)
    \/ SetState \/ InsertLabel
    \/ \E o \in Pair : Show(o) \/ Expire(o) \/ \E f \in Facts : Change(o, f)
    \/ \E o \in Pair, to \in Manual \cup {"rescore"} : Decide(o, to)
    \/ \E p \in Process : Fault(p)
    \/ Deploy

Spec == Init /\ [][Next]_vars

\* The chain runs every night and, once begun, goes on; so does a request.
FairSpec ==
    /\ Spec
    /\ WF_vars(Load("chain", Pair)) /\ \A p \in Scorer : WF_vars(Score(p))
    /\ \A p \in Person : WF_vars(Respond(p))
    /\ WF_vars(SetState \/ InsertLabel)

-----------------------------------------------------------------------------
(* Properties *)

TypeOK ==
    /\ facts \in [Pair -> Facts] /\ deployed \in 1..MaxDeploy
    /\ rows \in [Pair -> Row \cup {None}]
    /\ tokens \in [Pair -> {"none", "live", "spent"}]
    /\ feedback \in [Pair -> Nat] /\ labels \in [Pair -> Nat]
    /\ \A p \in Process :
         /\ work[p].pc \in {"idle", "upsert", "read", "sweep", "set", "label", "claim", "dismiss", "feedback"}
         /\ work[p].scope \subseteq Pair /\ work[p].todo \subseteq Pair
         /\ work[p].seen \in [Pair -> Band \cup {"unrouted"}] /\ work[p].version \in 0..MaxDeploy

\* "An owner who promoted or dismissed a row in the meantime must win": no score run,
\* however old what it read, takes a row out of a state a person gave it.
PeopleWin ==
    [][\A o \in Pair : rows[o] # None /\ rows[o].state \in Manual
          /\ rows'[o].state # rows[o].state
            => \E p \in Person : work[p].pc \in {"set", "dismiss"} /\ work[p].pair = o
                                 /\ work'[p] # work[p]]_vars

\* "Not looking at something is not evidence about it": a row is archived as no longer
\* routed only by a run that has scored its project, in an account it has a router for,
\* and found it not to route; never by a run that has routed it.
SweepHasEvidence ==
    [][\A o \in Pair : rows[o] # None /\ ~rows[o].derouted /\ rows'[o].derouted
            => \E p \in Scorer : /\ work[p].pc = "sweep" /\ work'[p] # work[p]
                                 /\ o \in work[p].scope \ Routerless
                                 /\ work[p].seen[o] = "unrouted"]_vars

\* "Two concurrent taps cannot both succeed": whatever is tapped how often, a token
\* leaves one feedback row at most.
TapOnce == \A o \in Pair : feedback[o] <= 1

\* The row says what the scorer says, or a person has had the last word.
Agrees(o) ==
    IF Verdict(o) = "unrouted"
    THEN o \in Routerless \/ rows[o] = None \/ rows[o].state \in Manual \cup {"archive"}
    ELSE /\ rows[o] # None /\ rows[o].version = deployed /\ rows[o].band = Verdict(o)
         /\ rows[o].state \in Manual \cup {Verdict(o)} /\ ~rows[o].derouted

\* However runs overlapped, died half way or began under an older algorithm, once
\* things stop changing the nightly run makes every row agree: no pair that stopped
\* routing stays live, none that routes again stays archived, no version is mixed.
ScoresSettle == <>[](\A o \in Pair : Agrees(o))
================================================================================
