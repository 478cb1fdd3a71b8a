# A verification of the permit-to-pursuit pipeline

TLA+ models, TLC runs and TLAPS proofs for the control logic of this repository: source runs that
store permits and bids, the feeds they ask, the ledger and health of those runs, the worker's nights,
the resolution of records into projects, the exchange with the partner registry, the scoring of
projects into opportunities, the digests that show them, and what an account does with them:
pursuits, takeoff sheets, bid invitations, the crew's field link, and the language-model jobs beside them.

Almost no function of the pipeline uses a database transaction, several processes reach the same
tables (the queue worker, operators at the command line, the web application, mail links), and any
of them may stop between two statements. The models are about that: **one statement that writes, one
external call, or one read whose answer decides a later write, is one step**, and another process, a
failure or a crash may come between any two.

1. [Inventory](#1-inventory)
2. [Modules](#2-modules)
3. [Runs](#3-runs)
4. [Fairness](#4-fairness)
5. [Proofs](#5-proofs)
6. [What the code does and the documents do not say](#6-what-the-code-does-and-the-documents-do-not-say)
7. [What is not modelled](#7-what-is-not-modelled)
8. [Plan](#8-plan)

Paths below leave out `packages/` and `src/` where that is unambiguous: `source-sdk/runner.ts` is
`src/packages/source-sdk/src/runner.ts`.

## 1. Inventory

`PROJECT.json` lists every component with its sources, and the hazards of each at their lines.

| component | state | operations | what makes it correct | module |
|---|---|---|---|---|
| source runs and replay (`source-sdk/runner.ts`, `replay.ts`, `persist-solicitation.ts`, `object-store.ts`) | object store, `raw_artifacts`, `source_records`, `solicitations`, `evidence_items`, `dead_letters` | run a source item by item; parse the stored artifacts again | bytes before rows; a record can be derived from stored bytes; a succeeded run lost nothing; a replay repairs | `SourceRun`, `SourceStore` |
| run ledger and reaper (`reap.ts`) | `source_runs` | insert, report, reap | a reaping never takes a report's place; a dead run is closed | `SourceHealth`, `RunLifecycle` |
| health, flow, alerts (`health.ts`, `flow.ts`, `delivery/alerts.ts`) | `coverage_entries`, `alerts` | evaluate after a run, check nightly | freshness is earned; a feed that died is announced | `SourceHealth` |
| resolution and reviews (`resolution/resolver.ts`, `fuzzy.ts`, `review.ts`) | `projects`, ids, roles, events, `record_resolutions`, `resolution_reviews` | resolve, update, re-evaluate, decide, undo | one permit on one project; nothing regresses; an approval stands; everything is settled | `Resolution` |
| opportunities (`intelligence/score-run.ts`, state route, `delivery/actions.ts`) | `opportunities`, tokens, feedback, labels | score all or a few, sweep, decide, tap | a person's decision wins; absence is no evidence; one tap counts once; rows agree with the scorer in the end | `Opportunity` |
| digests (`delivery/digest.ts`, `deliver.ts`) | `deliveries`, `delivery_items`, `action_tokens`, mails | draft, send | one row and one set of items a week; a mail is the row; its links work | `Delivery` |
| pursuits (`intelligence/pursuit.ts`, routes) | `pursuits`, `pursuit_transitions`, outcome labels | open, transition | opened once; every state is accounted for; a person commits | `Pursuit` |
| checkpoints of the feeds (`adapters/*`) | `checkpoint` of the last completed run | ask from a mark less an overlap, page a query, take a capped number | nothing falls out of the window unread; a feed is caught up with | `Feeds` |
| scheduler (`apps/worker/main.ts`, `schedules.ts`, `delivery/alerts.ts`) | queue, cron, `alerts`, mails | boot, catch up, tick, run the chain, mail alerts, draft on Mondays | a trouble that lasts is mailed each day and once a day; a Monday leaves nobody out | `Scheduler` |
| registry exchange (`resolution/registry-observations.ts`, `registry-link.ts`, `identifiers.ts`) | `organizations`, `registry_observations`, the partner's table | link, generate, bind, decide, relate, export | verdicts stand and have their effect; what is accepted arrives | `Registry` |
| registry matching (`resolution/registry-observations.ts`, `registry-identifiers.ts`) | the observations of unlinked organizations | the ladder of rules, trust, the strict gate, the floor; accept, then bind; decide | bearers of a name are offered together; the machine binds only what it can be sure of | `RegistryMatch` |
| takeoff (`intelligence/takeoff.ts`) | `takeoff_sheets`, `takeoff_lines` | derive, edit, add, delete, close | what the estimator touched stays | `Takeoff` |
| field link (`intelligence/field.ts`, entries route, `offline-client.tsx`) | the phone's outbox, `field_entries`, change orders | queue, flush, store, decide | an entry is stored once or shown as refused; the outbox drains | `Field` |
| invitations (`intelligence/invitations.ts`) | `inbound_messages`, `bid_invitations`, their events | ingest, match, move a deadline | a message counts once; no deadline is lost from the history | `Invitations` |
| language-model jobs and gate (`intelligence/extraction/*`, `gate/*`, `memo.ts`, `brief.ts`, `outreach.ts`, `assistant.ts`) | `model_runs`, `opportunity_decision_memos` | check the budget, call, record; evaluate the gate; build a memo | the ledger adds up; what is shown without a person was verified; a version says something new | `ModelJobs` |
| scoring, bid windows, normalization, families, enrichment, place matching | derived columns, or none | compute | see section 8 | in the plan |
| parsers, documents, configuration, web pages, reports, read-only commands | none, or presentation | | | not modelled (section 7) |

How they interact: every component writes its own tables and reads those of the one before it.
There are no callbacks. The queue retries failed jobs; the worker's nightly chain runs reap,
resolution, the registry exchange, scoring and alerts one after the other; operators run the same
functions at the same time; people act through the web application, mailed tokens and the field
link. Hard behaviours, in the order of
their weight: statements of two processes interleaved (every module), a stop between two statements
(every module), values read before a loop of minutes and used in it (`Resolution`, `Opportunity`),
late answers after a timeout (`SourceHealth`), repetition of calls (`Delivery`, `Opportunity`,
`Pursuit`, `Field`, `Invitations`, `Scheduler`), two databases (`Registry`), and records in any order
(`SourceRun`, `Resolution`, `Feeds`).

## 2. Modules

Every module declares its parameters as CONSTANTS, assumes of them what the code assumes
(`...Assumption`), and keeps the names of the code. `map` in `PROJECT.json` ties each definition to
its lines. A definition marked `mutant` in a module changes another the way a bug would; nothing of
the specification uses it.

**`SourceRun`** - one source. `run[r]` is a `runSource` process with its locals (`pc` is the
statement it is at), `replay` the replay of the source. A body is a member of `Content`; what an
adapter makes of it is `Emits[v][c][x]`, the fingerprint parser version `v` gives record `x`
(`None`: not mentioned, `Bad`: fails the schema), `Backed` says which of these records come with evidence, and `Throws[v]` are the contents it breaks on. Actions follow
`runner.ts`: `StartRun`, `Discover`, `FetchItem` (put in the object store, hash), `UnchangedItem`
(the shortcut for an artifact that is there), `NewItem`/`InsertArtifact` (a conflict means another
run inserted it), `Parse`, `ReadRecord`, `WriteRecord` (insert or update by fingerprint),
`InsertEvidence`, `RejectRecord` and `ItemThrows`/`ItemFaults` (dead letters), `FinishRun`,
`FailRun`, `Crash`; and `replay.ts`, oldest artifact first.
**`SourceStore`** is what the tables promise those who read them, whoever writes them and wherever it
stops: bytes are kept, then filed, one row a fetch; a record is entered once, from a filed artifact
whose date it keeps, and only ever says what some parser version reads in a filed artifact; evidence comes after its
record; nothing is taken away. `SourceRun` implements it (property `TablesAreKept`): `Filed`, `Entered` and `Readable` leave out who wrote a row and when a record was last seen.

**`SourceHealth`** - the ledger of one source. `runs` are rows of `source_runs`; `proc` what each
row's process is doing; `truth`, a history variable, what it really reported; `read` the health an
evaluation is about to write. A run reports an `Outcome`: record counts, violations, schema, the
fill of a required field. The rules of `health.ts` (two failed, two orphaned, stale, zero usable,
fill, drift, volume) are operators over the last five rows, those of `flow.ts` over the flow
window. The nightly chain reaps (`ReapOrphanedRuns`) and then raises alerts (`RunAlerts`).
**`RunLifecycle`** is what the ledger promises of a row: inserted once, closed by the reaper only while
running, reported by its owner at most once and last. `SourceHealth` implements it (property
`LedgerLifecycle`, refinement mapping `LedgerPhase`).

**`Resolution`** - records into projects. Three processes: the nightly `chain` (new records,
updates, reviews to re-evaluate), a `reviewer` in the web application and an `operator` who undoes.
Each works through `work[q]`: a phase, the rows its loop selected, the statement it is at.
The ladder is one query a step (`OfficialPass`, `ReferencePass`, `TwinPass`, `ParcelPass`, `AddressPass`, `ProximityPass`), for a record of the
chain (`ActOn` what was found), for the preview of a parked review (`Preview`), and again for a record whose candidate was refused, which skips
`TwinPass` and the `Excluded` project. The other statements are `ReadProject`, `WriteProject`, `RegisterIds`, `Derive`
(events and roles), `InsertResolution`, `Park`, `CheckPending`, `MarkMerged`, `MarkRejected`,
`AdvanceStage`, `StampProcessed`, `UndoDerived`, `MarkUndone`. The loops over records take any `Limit` of those there are (the code: the first
10,000 by the time they were first seen, an order that is not kept), the re-evaluation the oldest `Batch` reviews (the code: 2,000). Records of a
type that is never a project are among the records a loop selects, and are skipped (`Canary`). What a record says is
a constant but for its stage; names are reduced to which pairs are similar enough. A source may
publish a record again at any time (`Fetch`).

**`Opportunity`** - one row per (project, account). Score runs of the `chain` and of an `operator`
load what they will score (`Load`), upsert row by row, read what may be swept, sweep. People decide
in the app (`Decide`, `SetState`, `InsertLabel`) or tap links (`TapStarts`, `Claim`, `TapDismiss`, `TapFeedback`),
two requests at a time. Rules, data and capacity change (`Change`), the algorithm's version goes up
(`Deploy`). A router's answer is whether the pair fits and its score; `AfterCapacity` and `BandFor` are the code's.

**`Delivery`** - the digests of one account over several weeks, built and sent by the schedule and
an operator. `Load` is the queries of `buildDigest`, `Assemble` its loop over candidates (which reads
the tables again), then `Lookup`, `Insert` under the key of the week, `InsertItem`, `IssueToken`,
`WriteLinks`, and for a send `ReadStored`, `SendMail`, `MarkSent`. A content is the opportunities
shown, those called new and those with links.

**`Pursuit`** - the pursuit of one opportunity: opened from the app or by a tap (`Open`, `Tap`,
`Claim`, `Select`, `Create`, `InsertOpening`), moved by `transitionPursuit` (`Validate`,
`CheckGate`, `InsertAudit`, `SetState`, `InsertLabel`), by any number of requests at a time. The
transition table is the code's.

**`Feeds`** - what a run asks the publisher for and which checkpoint it leaves, for the three kinds of
adapter that keep one: dated reports (fetched from the newest date less an overlap), a query in pages
(counted, then fetched by offset), and the OMWBE board (the closing dates already parsed; a capped
number of the others). `Change` is the publisher; `Load`, `Open`, `DiscoverFeed`, `FetchEntry`, `EntryThrows`,
`Close`, `Fail`, `Die` are a run's. The work on one fetched item is one step: `SourceRun` is about what happens inside.

**`Scheduler`** - the worker (down, booting, deciding to catch up, up), its maintenance queue, the chain
as one step that may throw before its alerts, the alert rows with their keys (by day, or about
something that has no day) and their one mail; Mondays with a draft for each account. Time is two
moments that take turns: 04:45 when the cron fires and midnight UTC when the day in a key changes.

**`Registry`** - the exchange. Passes (the chain's, an operator's strict bind) generate observations, persist
them one by one, bind by the strict tier in two statements; reviewers look, apply, write the verdict; `ExportOne`
and `MarkExported` are in two databases. Which candidates a pass finds is any member of `Offers`.

**`RegistryMatch`** - which candidates those are. The seven rungs (name, telephone, Google telephone, address,
domain, alias, containment) and the fan of an ambiguous name, the six components of trust and their weighted
average, the strict gate, the floor that takes the rows of one name together,
over registry rows and permits that change between passes. Names are their cross-system keys and their
similarity is a constant; that a place name contains a city is a constant too; trust is computed in thousandths as the code rounds it.
What a pass found goes into the tables statement by statement: the strict upsert accepts (`PersistStrict`), the next statement binds
(`ApplyBindingAccept`). A person's request reads the row (`ReadPending`), binds (`BindAccepted`), and writes its verdict over whatever the row has become (`WriteVerdict`).

**`Takeoff`** - a sheet's derived and manual lines. `Rederive` reads, `DeleteDerived` and `InsertDerived` go
line by line, while the estimator updates, adds, deletes and closes. The row's status and the text of the records are two reads in one step (`Begin`): the
text may be any at any time and the row is not read again, so nothing between the two can be told apart.

**`Field`** - what a crew types, from the phone's outbox through the tabs that flush it and the request
that stores it under its key to the decision on a change order; lost requests and answers, rate limits, a revoked link.

**`Invitations`** - a delivery of a message inserts it (a repeat conflicts), looks for the invitation of its project, opens it
and logs, or logs both dates and moves it. Two deliveries at a time, which may stop anywhere.

**`ModelJobs`** - the language-model jobs of one project. A worker's job (`BeginExtraction`, `BeginVerification`, `BeginDraft`,
`BeginQuestion`) reads what it will ask about, sums the ledger (`CheckBudget`), calls the model (`ParseQuestion`, `CallModel`, `CallFails`)
and writes one row (`PersistModelRun`); without a key it leaves a blocked row. A fact is the evidence item it cites, an answer
any member of `Answers`, a list of verdicts any set. (The code keys a verdict by path and evidence: two facts of one path and one item would share it.) `Reads` is the publication gate of one digest candidate, read by read, with jobs
and changes between any two; `IncludeItem` decides as `decideInclusion` does. `BuildMemo`, `CompareMemo`, `InsertMemo` are the versions of a memo.

`MC<Module>` gives the constants small values; a `.cfg` is one run. `<Module>Proofs` holds the proofs.
Parts that share no table the properties are about are checked in one run, side by side: `MCPipeline`
(source runs, model jobs), `MCWatch` (ledger, worker), `MCNight` (resolution, registry), `MCApp` (opportunities, field
link), `MCDesk` (pursuit, takeoff, invitations), `MCInbox` (digests, matching) and `MCIngest` (replay, feeds, resolution) extend the modules of all
their parts, whose names are apart. A variable `side`, chosen at the start, says which part a behaviour
is of; the other stands still, so that nothing is multiplied and each part is checked over all its own behaviours.

The modules meet at their tables, not in shared variables: what one leaves is an arbitrary input of
the next (`Fetch` in `Resolution` publishes any record at any time, `Change` in `Opportunity` and
`Delivery` changes any fact at any time). So each is checked against more than its neighbours can do.

## 3. Runs

| run | shows | bounds |
|---|---|---|
| `pipeline_stores` (`MCPipeline`) | two overlapping runs and a replay, faults and crashes at every statement: `RecordDerivable`, `SucceededMeansPersisted`, and that `SourceStore` is implemented, `TablesAreKept`. Model jobs that overlap, fail and die: `JobsAddUp` (types, `SpendBounded`, `VersionsTellApart`), `ShownIsVerified` | runs: 2, symmetric, 1 URL, 2 contents, 1 permit, 1 bid, 1 parser; a replay beside one run. Jobs: 3 jobs by 2 symmetric workers, a budget of 3, 2 evidence items of one path and of grades A and C, 1 candidate of a digest or memos, one change, fault or refused job |
| `run_replay` (`MCIngest`) | `ReplayConverges` over a change of parser; `NothingSkipped`, `FeedCatchesUp` for feeds; records through the resolver: `PermitsAtHome` (of `Resolution`: `PermitsTogether`, with findability and types, and `OneHome`), `ApprovalStands`, `ProjectsOnlyGrow` | 2 runs one after the other, 2 contents, 2 parsers of which the first rejects one content's permit and breaks on the other. Feeds: 2 items, dates to 2, 2 revisions, 2 changes, overlap and lag 1, page and cap 1, 1 fault; a second worker only where nothing failed. Resolver: 3 records (two of one permit; one shares a parcel across jurisdictions), one published twice, 2 records and 1 review a loop, 4 projects, 6 reviews, 1 decision, 1 fault; beside a decision the fault strikes who carries it out |
| `run_unchanged_is_current` | **violated**: `UnchangedMeansCurrent` | 3 runs one after the other, 2 contents that disagree |
| `jobs_auto` (`MCJobs`) | **violated**: `AutoMeansVerified` | 1 worker, 2 items, 3 jobs one after the other, no fault, no change |
| `health_ledger` (`MCWatch`) | `LedgerTellsTruth`, `FreshnessIsEarned`, `LedgerLifecycle`, `DeadFeedAnnounced`, `DeadRunsClosed`; for the worker `Announced`, `NoneTwiceNoneMissed` | 2 rows, alive at once, of the 3 kinds of process; 4 reports; clock to 3, reaper after more than 0, stale after more than 1. Worker: 1 trouble of any kind, the queue's chain and one by hand, 1 job waiting, 1 fault; 2 accounts on a Monday |
| `resolve_settles` (`MCNight`) | `Settles`, `HeldTwinReleased`; for the registry `VerdictStands`, `AcceptedTakesEffect`, `AcceptedGetsExported` | 3 records (one address under two names, one twin), 2 records and 1 review a loop, 1 decision, no fault, 7 reviews. Registry: 1 organization, 1 entity, 2 states of evidence, 2 decisions, 1 fault; a second reviewer only where sources stand still and nothing died, and one decision where they moved and something died |
| `resolve_processed` | **violated**: `ProcessedIsApplied` | 3 records, no fault, no decision |
| `resolve_one_permit` | **violated**: `OnePermitOneProject` | 3 records of which two are of one permit, 1 decision, no fault |
| `deliver_weeks` (`MCInbox`) | `WrittenOnce`, `MailIsTheRow`, `LinksWork`, `WeeksTellOnce` (`MailedOnce` and `NewOnlyOnce`); for matching `ChoicesWhole`, `SureBinds` | 2 weeks, 2 symmetric opportunities, 4 runs, 1 change of facts, 1 fault. Matching: 1 organization of 7 states of knowledge, 3 entities of 2 or 3 rows each, cap 2, 2 passes, 1 decision (a request of three statements), 1 fault; every rung is reached |
| `match_frozen` (`MCMatch`) | **violated**: `FrozenEvidence` | 2 entities, 2 passes, no fault, no decision |
| `opportunity_settle` (`MCApp`) | `PeopleWin`, `SweepHasEvidence`, `TapOnce`, `ChainSettles`; for the field link `CrewWordsSurvive`, `OutboxDrains` | a pair of a routed account and one of an account without a router, 2 algorithm versions, 1 change, 1 operator run beside the chain, 2 requests, 1 fault. Field: 1 change order, 2 tabs, 2 requests, 2 people, 2 faults |
| `pursuit_race` (`MCDesk`) | `OpenedOnce`, `StateIsAudited`, `SerialHistory`; `SheetIsTheEstimators`; `IntakeKeepsHistory` | 2 requests at a time, 4 in all, 2 tokens, 1 fault; the pursuit not opened, or its bid in. Sheet: 2 derivations, 5 readings, 3 lines, 1 fault. Intake: 3 messages, 4 deliveries, 2 at a time, 1 fault |

Why the bounds are enough. A race of this code is between two processes over one row, so two
processes at a time and one row they both want show it; a second row is there where a property
relates rows (a permit of two records, two weeks that call something new, a pair without a router).
One fault at an arbitrary statement is enough because nothing resumes: what a second fault finds is what some
first one left. `SourceRun` has no bound on faults. `Feeds` and `Scheduler` need a second process only to overlap with a whole one. Contents, facts and outcomes are the smallest set in which each rule the code
has for them decides differently. In the three places where a larger instance matters most (number of
runs, weeks, requests) the proofs of section 5 remove the bound.

Deadlock is not checked: every run is of parts whose requests, publications and nights are used up at
some point, and then the program is at rest. That nobody waits for anybody for ever is stated as
liveness (`FeedCatchesUp`, `Settles`, `HeldTwinReleased`, `AcceptedGetsExported`, `DeadRunsClosed`, `Announced`, `ChainSettles`, `OutboxDrains`).
The types of `Feeds`, `Scheduler`, `Registry`, `RegistryMatch`, `Field`, `Takeoff`, `Invitations`, `ModelJobs` and `Resolution` are checked as the first
part of a property of each, and proved with it where section 5 lists it; those of `SourceRun`, `SourceHealth`, `Opportunity`, `Delivery` and `Pursuit` are proved (section 5) and not run again.

Each property of a passing run has a mutant in `PROJECT.json`, a change of one modelled definition that violates it in the same run:
the reaper that takes rows which are not running, the sweep that does not assert its guard again, the loser of an insert race
who goes on as the winner, a claim that reads first and marks later, the row updated before its audit entry, an amendment that writes the whole row anew,
the floor that asks each row of a name by itself, a mark without its overlap, a page counted by the last offset, a budget that leaves out the job it is asked about, facts without a verdict,
an approval that closes the review before it merges, a re-evaluation of one review less than its limit, a strict upsert that overwrites a decision.

## 4. Fairness

* `SourceRun`: none. Only safety is asked of it.
* `SourceHealth`: time passes, the nightly chain reaps and raises alerts (pg-boss schedules). No run
  is obliged to finish: a process may hang or die.
* `Resolution`: the chain runs every night and takes its next step; a request that was made is served. Nobody is obliged to
  publish, decide or undo. A held record is released when its review is among the `Batch` oldest: questions that nobody answers, that many of them, keep
  all later ones from being looked at again.
* `Opportunity`: the nightly load over all pairs, the steps of a score run that began, and those of a request.
  Deploys, changes and requests are finite by their bounds, which is what "once things stop changing" means in `ChainSettles`.

* `Feeds`: a run that is up goes on. Nobody is obliged to publish, throw, fail or die; all of that is bounded, which is what "in the
  end" means. `FeedsAssumption` is what the adapters rely on: the publisher writes no further behind its newest date than the overlap;
  while rows are paged no new date appears and nothing is withdrawn.
* `Scheduler`: a worker that is down is started; jobs are taken and time passes again and again (strong: a worker may go down in
  between); a chain goes on; the mail about a trouble gets through now and then (strong). The worker need not be up when the cron
  fires. Throws and deaths are bounded. Between the evaluation of an alert and its mail no midnight passes.
* `Registry`: the nights go on. No reviewer is obliged to decide.
* `Field`: what makes a page flush happens again and again - it is opened, the phone comes back online, the page becomes visible, an entry is added; there is no
  timer, and a page left open and online with a failed flush does nothing until one of these - and an accepted request is served. Lost requests are bounded; nobody is obliged to keep the link open.

In a side-by-side run the fairness of a part is conjoined with `side`, so that it asks nothing of the other. Elsewhere weak
fairness is enough: no step of the code is enabled only from time to time by what another process does, since nothing takes locks.

## 5. Proofs

TLAPS proves the following for every value of the constants: any number of runs, pages, records,
versions, weeks, opportunities, requests, tokens, workers, budgets and faults. The assumptions are the named ASSUMEs of
the modules, which TLC evaluates in the runs. In italics what no run checks by itself, but the others rest on.

| module | theorems |
|---|---|
| `IngestProofs` | `TypeCorrect`, `BytesFirst` (`BytesBehindRows`), `Derivable`, `NoSilentLoss`, `ReplaysConverge`, `TablesImplement` (refinement of `SourceStore`); *`ShapeInvariant`*, *`RepairInvariant`*, *`TraceInvariant`*. For the feeds `NothingIsSkipped` (`NothingSkipped`); *`FeedInvariant`* |
| `ResolutionProofs` | `TypeCorrect`, `ProjectsGrow` (an action property), `PermitsHome` (both halves of `PermitsAtHome`), `ApprovedStays` (`ApprovalStands`); *`BaseInvariant`*, *`CalmInvariant`*, *`ApprovalInvariant`*, *`FoundInvariant`*, *`PathInvariant`*, *`HomeInvariant`* |
| `WatchProofs` | `LedgerTypeCorrect`, `TruthTold`, `FreshnessTold`, `DeadFeedTold` (`DeadFeedAnnounced`, an action property), `LedgerImplements` (refinement of `RunLifecycle`); *`LedgerInvariant`*. For the worker `NobodyTwiceOrMissed` (`NoneTwiceNoneMissed`); *`SchedulerInvariant`* |
| `AppProofs` | `TypeCorrect`, `OneTap`, `PeopleHaveTheLastWord`, `SweepIsEarned` (the last two are action properties); *`OpportunityInvariant`*. For the field link `WordsSurvive` (`CrewWordsSurvive`); *`FieldInvariant`* |
| `RegistryProofs` | `EffectTaken` (`AcceptedTakesEffect`), `VerdictIsFinal` (`VerdictStands`, an action property); *`RegistryInvariant`* |
| `InboxProofs` | `TypeCorrect`, `OneRowAWeek`, `MailsShowTheRow`, `LinksHaveTokens`, `WeeksToldOnce`; *`DeliveryInvariant`*, *`WeekInvariant`*. For the matching `ChoicesStayWhole` (`ChoicesWhole`), `BindsStaySure` (`SureBinds`, an action property); *`MatchInvariantHolds`* |
| `DeskProofs` | `TypeCorrect`, `OpensOnce`, `Audited`, `OnePath` (`SerialHistory`); *`PursuitInvariant`*, *`SerialInvariant`*. For the sheet `PenKept` (`SheetIsTheEstimators`, with an action property); *`SheetInvariant`*. For the intake `HistoryKept` (`IntakeKeepsHistory`); *`IntakeInvariant`* |
| `ModelJobsProofs` | `JobsLedger` (types, `SpendBounded`, `VersionsTellApart`), `ShownVerified`; *`BaseInvariant`*, *`SpendInvariant`*, *`DigestInvariant`* |

Every proof has the same shape: an inductive invariant, a lemma `InvInit`, one lemma per action
(`<Action>Keeps`), `InvNext`, and the theorems that follow. Lemmas named `...Kept` say what one
process's step leaves true of the others. The invariants are needed because no property is inductive:

* **`Shape`** (`SourceRun`) adds to the types what each process holds: a run past its insert has its artifact
  stored, a run at a record has read it in its content, a replay works on stored artifacts. `BytesFirst` then needs
  only that the put comes before the insert; `Derivable`
  that a record is written from the content its process holds. `NoSilentLoss` adds that an
  unfinished run without errors has, of every artifact it stored before the one it is at, every accepted record; nothing is ever deleted (`Grows`), so other processes cannot take that away.
* **`LedgerInv`**: a process still at its run has reported nothing, one that evaluates has. So the reaper, which takes only running rows,
  never meets a report; and a completion time that counts as success comes from a report (`Earned`), also in the
  value an evaluation has computed and not written yet. The volume and staleness rules compare the newest rows; that there is a newest one comes from the
  well-foundedness of the naturals.
* **`OpportunityInv`**: whoever has claimed a token holds it alone and no feedback has been left for it (`Spent`); who is about to
  sweep holds only pairs it scored and found not to route (`Placed`). `PeopleWin` needs no more than types: the guard is in the upsert and in the sweep statement themselves.
* **`DeliveryInv`**: the run that created a row is the only one to fill it (`Alone`), its model shows what the row shows, and its
  items and tokens are exactly those it has finished (`Fills`); who is about to mail holds what the row shows, with links that have tokens (`Known`).
* **`PursuitInv`**: a request about to write the opening entry is alone and the trail has none (`Opened`); a request about to set a
  state has its audit entry in the trail (`Sound`); labels written and owed are at most the moves in the trail (`Balance`, by counting finite sets).

* **`RepairInv`** (`SourceRun`): artifacts have distinct fetch times (`Dated`), and a replay that nothing has disturbed works from the oldest to the newest, so that
  every permit but those in its hands is as the newest artifact taken up so far says (`Repairs`). When none is left, the newest of all says it (`ReplayConverges`).
* **`TraceInv`** (`SourceRun`): the tables do not say which fetch a process works for; this does. An item being parsed was filed by this very fetch, so the date a record
  is entered with is the date of its artifact; evidence about to be written is of a record that is there and was accepted. With `Dated` (one row a fetch) every step of
  `SourceRun` is a step of `SourceStore` or leaves it where it is: a read, a parse, a rejection, a fault, a death, the unchanged shortcut and a duplicate do the latter.
* **`WeekInv`** (`Delivery`): of the weeks whose runs neither overlapped nor died (`Clean`), a run works alone (`Solo`), what is called new is shown
  (`NewIsShown`), a run has seen all that the other clean weeks show before it calls anything new (`Fresh`), and a week's mail, its row and the run about to mark it agree (`Tidy`).
* **`Serial`** (`Pursuit`): while requests come one at a time and none dies, the trail is one path through the transition table from
  `discovered` to the state of the row, but for the one entry the request at work is about to add or has just added (`HandsOver`), and the labels are those of the path.
* **`BaseInv`** (`Resolution`): what each of the three processes carries between statements exists and is in order (`Listed`, `Local`, `Course`):
  a decision is one the ladder makes, the project it writes has a row, its phase allows the statement it is at. `CalmInv` adds that while
  nothing is begun beside anything else the row a process has read is the row that is there (`Fresh`), from which `ProjectsOnlyGrow` follows.
* **`ApprovalInv`** (`Resolution`): who carries out an approval works for the candidate of its review (`Agreed`), and at the last statement the record *is* on the
  candidate, or was undone since (`Kept`). Two requests about one review, and the chain beside them, cannot take that away: the index keeps a second resolution out, and only an undo removes the first.
* **`HomeInv`** (`Resolution`), the hardest: *everything said of a permit that nobody cites names one project* - the ids registered, the candidates of pending
  reviews, the resolutions, the events, the decision a process carries, the records an update has selected (`Says`). Until a
  person refuses a candidate or an approval is closed between two passes over its permit (`crossed`), it is inductive, beside
  `FoundInv` (whoever is past the ids of its record has one, and ids are of their jurisdiction), `PathInv` (who refuses nothing approves; what the chain has selected are
  different records nobody is asked about), and the reason the ladder gives: with an id, a pass finds its project and says what was said; without one, a
  project is made only while nothing has been said (`Maker`). Between the pass that found no id and the one that asks for a twin, the permit still has no id, or somebody waits for it (`Waits`): that is
  what an approval takes away which registers the id after the first and closes the review before the second. A re-evaluated review of such a permit is decided by its ids alone: the chain rejects nothing of it (`Spared`).
* **`SpendInv`** (`ModelJobs`): the ledger *plus the estimates of all who were let through* stays within `Cap + (n - 1) * PerJob`, n being the number of workers: who is
  let through last saw a ledger that with its own estimate is within the cap, and each of the others was let through with at most
  `PerJob`. A row gives back at least the room it takes. The ledger is a recursive function and the sum over
  the workers a fold, for which the prover has no induction: `LedgerAppend`, `TotalChange`, `TotalLeq` and `TotalBound` are proved by the least counterexample (`Least`, `SetBySet`).
* **`DigestInv`** (`ModelJobs`): by the position of the read, how many rows have been read, that each is still what it was read as (rows are only
  appended, `Grown`), and what has been asked of the first of each. With `BaseInv`, by which a verification that succeeded has exactly one
  verdict set over the facts of the extraction it loaded, `ShownIsVerified` follows when the rows read are of one extraction.

* **`UsableInv`** (`SourceHealth`): a row claims no more usable records than its process reported, none while nobody reported (`Modest`). So a window
  in which nobody reported anything usable has no row that flows, and the nightly check cannot pass it over (`DeadFeedAnnounced`).
* **`SchedulerInv`**: what a chain has fired has its row and is told of before the chain does anything else (`FiredHasRow`), is in no mail yet and in no other
  chain's hands: of two chains only the first inserts the row of a key. A job at its drafts has each account before it or behind it (`DraftsAddUp`), also when it is retried.
* **`FieldInv`**: a word is in the outbox, with a request, or in its row (`Phoned`, `Flushing`, `Earnest`); of the requests about one entry at most one
  tells the owner, the one whose insert was the first (`Alone`, `Single`); who writes the note of a change order has decided it alone (`Noting`, `Settled`).
* **`RegistryInv`**: of a row, the partner holds nothing that was not decided, with the evidence of the decision (`Held`), and what a person accepted has had its
  effect (`HumanDone`); of a pass, that what it carries fits the step it is at (`PassFits`); of a request, that what is left of it is
  the end of one of the code's lists of statements and what came before has happened (`ReviewFits`). The other process's claims stand because what they claim only grows (`Grows`: rows, verdicts, what was sent, links, contacts).
* **`IntakeInv`** (`Invitations`): no two deliveries past the unique index carry one message (`Apart`), nobody else has opened an invitation or logged for it (`Stored`),
  and the date of a row is in the event of a change or has been read by everybody who may overwrite it (`Dated`). The last part is
  why the event before the row loses nothing although two messages revise one row at once: the second to write overwrites a date the first has logged.
  The latest invitation of a project is a choice of the largest index, which the well-foundedness of the naturals provides.
* **`MatchInvariant`** (`RegistryMatch`): of an ambiguous name that this pass has touched, as many bearers as the cap lets through are written by it, decided, *or still to
  come* (`Whole`), unless the pass died: a candidate that is written passes from the last to the first, a decision from the first to the second, and nothing goes back. That
  the rows of a name come together is the floor (`ClearsFloor`: what lets one through lets all through) and that they are enough is
  `FirstCounted`: in an order without ties the first `n` of a finite set are `n` of them, by the least counterexample. What waits with the strict mark has passed the gate
  on a registry and permits that do not move while a pass writes (`Sure`); `NameRungTyped` is the case the gate rests on, that only a single bearer, or the only one whose
  telephone agrees, is called an exact name. The types need that the ladder returns candidates (`OfferTyped`, rung by rung) and that trust is a number of thousandths (`TrustTyped`).
* **`BindInvariant`** (`RegistryMatch`): what the pass has accepted and is about to bind is sure and decided, and a request that may still turn it down, or has, was one that
  had read the row before (`crossed`); a decided row is not read by a new request, and what was turned down stays decided, so the strict upsert passes it by.
* **`SheetInv`** (`Takeoff`): a derived line is of a reading that justifies its figure (`LineKnown`), as are the lines a derivation has yet to insert, in the order of the triggers
  and hence without repetition (`WorkKnown`); of one that works alone, *what it made and what it has yet to make are what its reading asks for* (`AloneAt`).
  What `deriveLines` returns is proved by rank (`DerivedGood`): a concatenation of optional lines is strictly increasing, whichever are present.

* **`FeedInv`** (`Feeds`): every checkpoint in play - stored, read by a run that is about to look, or held by one that works - claims no more than the publisher has shown
  (`Modest`); from one that is stored or has just been read everything unaccounted for is asked for (`Honest`), and what a run at work has not accounted for is still in its
  list, or so recent that whatever it leaves asks for it again (`Covered`). That is why it does not matter which of two overlapping runs writes last. A change is
  recent because the publisher writes at most `Lag <= Overlap` behind (`WrittenIsDue`). For a paged query the point is `RowsKeepTheirPage`: a row below that lag keeps its place in the
  order while pages are turned, so the page it was counted on is the page it is on; `EveryPlaceHasItsPage` and `PlacesAreTaken` (the places of a finite set are `1..n`, by the
  pigeonhole principle) say that the pages hold all of it.

`PermitsTogether` was false as first stated, as its proof attempt showed and TLC confirmed; it now asks for `Plain` permits (no record cites the number or is cited by a
record of it): a record that joins another permit's project by an explicit reference, while its twin waits in the queue with the first one's project, leaves the permit on two
projects when a person approves the twin.

Only model-checked, and why. Liveness (section 3) is beyond the prover, as are ENABLED and induction over data as such. Every invariant and every action property of the
passing runs is proved. No module that is proved about declares a RECURSIVE operator.

## 6. What the code does and the documents do not say

Checked by a run that is expected to be violated:

* **`UnchangedMeansCurrent`** (`runner.ts:170`). A document that returns to an earlier body meets the artifact of that body and is
  skipped as unchanged; its records keep saying what the body in between said. The same shortcut passes over an artifact whose processing a crash interrupted.
* **`ProcessedIsApplied`** (`resolver.ts:540`). The version stamped as processed is read at the end of a resolution; a record published again in between is stamped without having been applied, and no later night comes back to it.
* **`OnePermitOneProject`** (`resolver.ts:486`). The chain asks for the id of a permit and then, in a query of its own, who waits for it; an approval of the twin whose statements fall between the two is seen by neither, and the record goes on to the weaker passes: one permit on two projects, though nobody refused anything.
* **`FrozenEvidence`** (`registry-observations.ts:1746`). A strict match promotes a row that an earlier pass queued and leaves its rule, score and payload, so that the evidence beside the decision is not what it was made on; it may even say "1 of n".
* **`AutoMeansVerified`** (`gate.ts:269`). The gate and the decision about an item ask the latest extraction and the latest verification and do not compare them; an extraction that no verification has judged is shown by itself on the verdicts about the one before.

Met while modelling, in the models, and not stated as properties:

* The fill rates of a run are computed (`runner.ts:376-379`) and not stored in its metrics (405), so the rule D2 of `docs/operations.md:193` (a required field that drops by more than a fifth turns the source red) compares with nothing.
* A run that finds an artifact whose processing a crash interrupted takes it for processed (`runner.ts:170-180`): only a replay brings its records in.
* A person and the re-evaluation, or two people, may decide one review at once: both pass the check of `review.ts:105`, and the later statement wins, though `review.ts:615` says of the person "theirs wins". A refusal beside an approval can leave a review rejected and its record on the candidate.
* The re-evaluation looks at the oldest 2,000 reviews (`review.ts:520`, 537-538): behind that many questions nobody answers a held twin is not released. The exchange's export stops at an insert that fails (`registry-observations.ts:2307`): one that fails every night keeps back all decided after it.
* The outbox of a phone is flushed when its page is triggered, entry by entry, and a flush stops at the first entry the server answers with an error of its own or a limit (`offline-client.tsx:98-109`): an entry that always fails so holds back those behind it. `Field` has one entry at a time in the outbox and does not show that.
* A request to decide an observation that read the row before the strict pass accepted it writes its rejection over the acceptance (`registry-observations.ts:2137-2143` has no guard), and the organization stays bound to what the person turned down.
* A failed run throws before its health evaluation (`jobs.ts:67`), so two failed runs turn a source red only at the next run that does not fail; `operations.md:230` expects it at once. A red source is cleared by the next unchanged run (`health.ts:147`).
* Replay rows count as flow (`flow.ts:163`), and the nightly staleness alert reads the coverage of the last evaluation (`schedules.ts:133`).
* A replay with an unchanged parser still rewrites records (`replay.ts:16` says it rewrites nothing); the unchanged shortcut bumps `last_seen` for the records of that artifact only, never for bids.
* A reviewer's rejection does not keep the record from matching the same project again (`resolver.ts:557`); ids registered by a resolution survive its undo, so that the next run puts the record back. `ProjectsOnlyGrow` needs `calm`: a reviewer and the chain writing one project lose each other's stage or parcels. `OneHome` and `PermitsTogether` exclude histories with a refusal, for a reviewer's choice may split a permit.
* A crash between the project and its first id leaves a project no record finds; one between a stage and its event loses the event for good.
* Two sends of a week at once, or a stop between the mail and its mark, mail twice (`deliver.ts:11` says once); hence `MailedOnce` is about weeks without overlap or death. A stop after the draft row leaves items and links that are never completed. Items suppressed after the draft are still mailed.
* A one-tap dismissal writes no decision label (`state/route.ts:46` says every decision does); a tap that stops after its claim is lost.
* Two transitions of one pursuit validated from the same state both succeed: a pursuit can leave `archived`, and its trail forks. Hence `SerialHistory` is about requests one at a time.
* Digests: drafts count as sent (`digest.ts:445`): when nobody sends a week's draft, the customer's first mail calls its items known.
* Alerts: rows are inserted before the mail and a failed mail is not tried again; keys with a day come back the next day, those without (`delivery_unsent:<id>`, the month's `spend_budget`) never, though `operations.md:226` says each reaches the inbox. What the resolver reports is in memory and lost when the chain throws before its alerts, as it may do every night. A worker that is down on Monday at 05:15 drafts nothing that week.
* Model jobs: jobs that overlap pass the budget on the same sum, so that the month can cost one job more for each other worker than the cap allows; a call that fails after it was charged, and a process that dies, leave no cost (`budget.ts:7` says the ledger and reality cannot drift apart). The confirmed facts of a memo are those of the latest extraction, verified or not (`memo.ts`, against `brief.ts:17`). `ShownIsVerified` is therefore about reads that met one extraction and the verification of that one.
* The OMWBE board: a posting leaves the capped places only when a completed run has parsed it; one whose page was stored by a run that died meets the unchanged shortcut ever after and keeps its place, and what is behind the cap starves (`omwbe-bid-opportunities.ts:161`).
* Feeds: two overlapping runs of the board lose what one of them saw; a dead-lettered report older than the mark less the overlap is not tried again; the bytes of an item that failed to parse block it until a replay. The Centralia and Lacey reports lack King's guard against a date in the future. A row withdrawn while a query is paged moves another past the page.
* Registry: the strict row is accepted before it is bound, so that a stop in between leaves an acceptance without a binding; the night's strong link can replace a human binding (`linkRegistry` asks only IS DISTINCT FROM); two reviewers overwrite each other's verdict, on evidence that may have been rescored since they looked; a second accepted candidate still backfeeds its keys; an automatic acceptance of a telephone creates no contact.
* Matching: a one-word name that several entities bear and a telephone tells apart is `binding_name_phone`, which the strict gate binds (`registry-observations.ts:1018-1021`), though 95-99 calls such names review-only; the strict gate does not look at the telephone, so that an exact name in its city and trade is bound although its number contradicts, of which `classifyReviewTier` (1929) says it is never promoted. A row whose trust falls below the floor is not rescored, and rows of a name that no longer reaches them stay pending. A containment or alias that gains an agreeing telephone may become a weaker rule.
* Takeoff: `takeoff.ts:434` says an override survives; a derivation keeps the overridden line and adds the machine's figure as a second one (392-399). Two derivations at once double the derived lines; one may insert into a sheet that has been closed meanwhile.
* Field: the outbox is flushed in the order of random keys; a deduplicated repeat does not notify (`entries/route.ts:81`), so that an entry whose answer and mail were lost is never told; an entry that was stored before the link was revoked and whose answer was lost is shown as failed.
* Invitations: a message stored before a stop has no invitation and its repeat is a duplicate; two messages of one project at once open two invitations.

## 7. What is not modelled

* Parsers and documents: what a page says is data; the models take every outcome a parser can have (records, rejected records, a throw).
* Fetching (rate limits, robots, retries inside one process): a fetch is a content or a failure.
* Presentation, exports, reports, sessions, read-only commands: no state that a property could be about.
* Wording, ranking, names, addresses and coordinates are reduced to what a decision depends on.
* The database is autocommit, read committed: one statement is one step. Unique keys are modelled where a statement relies on them. Connection retries are not.
* Merges of organizations and projects, clusters of organization reviews, enrichment batches, place matching, corporate families. What a memo, a brief or an answer says, and the grounding of its words.
* Which opportunities raise an alert (drops, deadlines): `Scheduler` takes a trouble as it comes.

The gaps are listed per component, with the reason, in `PROJECT.json`.

## 8. Plan

Done since the first version: `Feeds`, `Scheduler`, `Registry`, `RegistryMatch`, `Field`, `Takeoff`, `Invitations`, `ModelJobs`. Left, in this order:

1. **Pure algorithms** - scoring, bid window, capacity, normalization and families as operators, against reference definitions over bounded inputs.
2. **Batches** - place matching (the review pattern of the registry), enrichment, merges of projects and organizations in `Resolution`.
3. **Proofs** - the modules still to come; the liveness properties stay with TLC.

Abstract specifications worth stating next: an observation as a
write-once decision (for `Registry`), an outbox as at-most-once entries (for `Field`). New modules are to be written as these
are: parameters with assumptions, one action per operation, invariants in named parts, no RECURSIVE
operator, so that the proofs can follow.
