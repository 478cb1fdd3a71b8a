------------------------------- MODULE Scheduler -------------------------------
(***************************************************************************)
(* The worker and what it owes every night: the maintenance queue with its  *)
(* cron tick and the catch-up at boot, the chain that ends in alerts, their *)
(* rows and their one mail; and on Mondays a draft for every account.       *)
(*                                                                          *)
(* Time is two moments of a day that take turns: 04:45 in the worker's zone *)
(* when the cron fires, and midnight UTC when the day in the keys changes.  *)
(* What the chain does to records, projects and scores is in the modules of *)
(* those tables; here it is one step that may throw.                        *)
(***************************************************************************)
EXTENDS Integers, FiniteSetsExt

CONSTANTS
    Trouble,       \* what an alert can be about
    Account,       \* the active accounts
    Chain,         \* places a chain can run
    Queued,        \* the one of them the worker's queue runs in; the others are by hand
    MaxWaiting,    \* bound: jobs waiting in the maintenance queue
    MaxFault       \* bound: deaths, and steps of a chain that throw

ASSUME SchedulerAssumption ==
    /\ Queued \in Chain /\ MaxWaiting \in Nat \ {0} /\ MaxFault \in Nat

VARIABLES
    worker,      \* the process: down, booting, deciding (to catch up), up
    moment,      \* which of the two moments comes next
    queue,       \* pgboss.job of pipeline-maintenance
    lapse,       \* ticks since a maintenance job completed, up to 2
    throttled,   \* the singleton key of the catch-up is taken for the hour
    nights,      \* the chains at work
    kind,        \* where an alert comes from: its key has the day, it is about this
                 \* chain, its key has no day
    trouble,     \* what is wrong at the moment
    today, ever, \* keys of the alerts table: of this day, and without a day
    heard,       \* keys of this day, or without a day, that a mail has carried
    monday,      \* the digest-draft job and this week's drafts
    faults

alertVars     == <<kind, trouble, today, ever, heard>>
schedulerVars ==
    <<worker, moment, queue, lapse, throttled, nights, alertVars, monday, faults>>

\* Jobs waiting for their first and their second attempt, the attempt at work, and
\* those whose process died under them, which the queue finds out later.
Queue == [waiting : 0..MaxWaiting, again : 0..MaxWaiting, active : 0..2, orphan : 0..2]

Idle == [pc |-> "idle", errors |-> {}, todo |-> {}, fired |-> {}]

SchedulerTypeOK ==
    /\ worker \in {"down", "booting", "deciding", "up"} /\ moment \in {"tick", "midnight"}
    /\ queue \in Queue /\ lapse \in 0..2 /\ throttled \in BOOLEAN
    /\ nights \in [Chain -> [pc : {"idle", "resolve", "rest", "insert"},
                            errors : SUBSET Trouble, todo : SUBSET Trouble,
                            fired : SUBSET Trouble]]
    /\ kind \in [Trouble -> {"daily", "memory", "once"}]
    /\ {trouble, today, ever, heard} \subseteq SUBSET Trouble
    /\ monday \in [state : {"none", "first", "retry", "second", "completed", "failed"},
                   todo : SUBSET Account, drafted : SUBSET Account]
    /\ faults \in 0..MaxFault

SchedulerInit ==
    /\ worker = "down" /\ moment = "tick"
    /\ queue = [waiting |-> 0, again |-> 0, active |-> 0, orphan |-> 0]
    /\ lapse = 2 /\ throttled = FALSE
    /\ nights = [c \in Chain |-> Idle]
    /\ kind \in [Trouble -> {"daily", "memory", "once"}]
    /\ trouble = {} /\ today = {} /\ ever = {} /\ heard = {}
    /\ monday = [state |-> "none", todo |-> {}, drafted |-> {}]
    /\ faults = 0

--------------------------------------------------------------------------------
(* The process and its clock.                                               *)

Fault == faults < MaxFault /\ faults' = faults + 1

Put(c, next) == nights' = [nights EXCEPT ![c] = next]

\* mutant: the throw is caught around the loop, as the chain catches the alerts'
Swallowed == "completed"

AfterThrow == IF monday.state = "first" THEN "retry" ELSE "failed"

Drafting == worker # "down" /\ monday.state \in {"first", "second"}

\* The workers listen and the cron is reconciled before the catch-up is considered.
Boot ==
    /\ worker = "down" /\ worker' = "booting"
    /\ UNCHANGED <<moment, queue, lapse, throttled, nights, alertVars, monday, faults>>

Pending == queue # [waiting |-> 0, again |-> 0, active |-> 0, orphan |-> 0]

\* The last run completed more than 24 hours ago: certainly not since the last tick,
\* certainly before the last but one, and possibly in between.
Overdue == IF lapse = 1 THEN BOOLEAN ELSE {lapse = 2}

\* The catch-up reads the queue ...
AskCatchUp ==
    /\ worker = "booting"
    /\ \E overdue \in Overdue :
          worker' = IF ~Pending /\ overdue THEN "deciding" ELSE "up"
    /\ UNCHANGED <<moment, queue, lapse, throttled, nights, alertVars, monday, faults>>

\* ... and sends, unless a boot did and the hour is not over.
SendCatchUp ==
    /\ worker = "deciding" /\ worker' = "up"
    /\ \/ queue.waiting < MaxWaiting /\ queue' = [queue EXCEPT !.waiting = @ + 1]
       \/ (throttled \/ queue.waiting = MaxWaiting) /\ UNCHANGED queue
    /\ throttled' = TRUE
    /\ UNCHANGED <<moment, lapse, nights, alertVars, monday, faults>>

\* SIGTERM: the process finishes what it has begun.  It listens once it is up.
Stop ==
    /\ worker = "up" /\ queue.active = 0 /\ monday.state \notin {"first", "second"}
    /\ worker' = "down"
    /\ UNCHANGED <<moment, queue, lapse, throttled, nights, alertVars, monday, faults>>

\* The process dies; what its jobs were doing is lost with it.  A bound: one job at
\* a time has lost its process.
WorkerDies ==
    /\ Fault /\ worker # "down" /\ worker' = "down"
    /\ Put(Queued, Idle)
    /\ queue.orphan = 0 /\ queue' = [queue EXCEPT !.active = 0, !.orphan = queue.active]
    /\ monday' = [monday EXCEPT !.state = IF Drafting THEN AfterThrow ELSE @]
    /\ UNCHANGED <<moment, lapse, throttled, alertVars>>

\* The cron fires while a worker is alive to fire it, and at no other time.
CronTick ==
    /\ moment = "tick" /\ moment' = "midnight"
    /\ IF worker = "down" THEN UNCHANGED queue
       ELSE queue.waiting < MaxWaiting /\ queue' = [queue EXCEPT !.waiting = @ + 1]
    /\ lapse' = Min({2, lapse + 1}) /\ throttled' = FALSE
    /\ UNCHANGED <<worker, nights, alertVars, monday, faults>>

\* A new day in the keys.  A bound: nobody is between reading it and mailing.
Midnight ==
    /\ moment = "midnight" /\ moment' = "tick"
    /\ \A c \in Chain : nights[c].pc # "insert"
    /\ today' = {} /\ heard' = heard \cap ever /\ throttled' = FALSE
    /\ UNCHANGED <<worker, queue, lapse, nights, kind, trouble, ever, monday, faults>>

\* Something breaks or is mended.
Change ==
    /\ \E t \in Trouble : trouble' = (trouble \ {t}) \cup ({t} \ trouble)
    /\ UNCHANGED <<worker, moment, queue, lapse, throttled, nights, kind, today, ever, heard,
                   monday, faults>>

--------------------------------------------------------------------------------
(* The queue.                                                               *)

\* retryLimit 1: a second attempt after the first, and no third.
Retries(attempt) == IF attempt = 1 THEN 1 ELSE 0

Fetch ==
    /\ worker # "down" /\ queue.active = 0
    /\ \/ queue.waiting > 0 /\ queue' = [queue EXCEPT !.waiting = @ - 1, !.active = 1]
       \/ queue.again > 0 /\ queue' = [queue EXCEPT !.again = @ - 1, !.active = 2]
    /\ Put(Queued, [Idle EXCEPT !.pc = "resolve"])
    /\ UNCHANGED <<worker, moment, lapse, throttled, alertVars, monday, faults>>

\* A job nobody works on any more expires, and is a failed attempt.
Expire ==
    /\ worker # "down" /\ queue.orphan # 0
    /\ queue' = [queue EXCEPT !.orphan = 0, !.again = @ + Retries(queue.orphan)]
    /\ queue'.again <= MaxWaiting
    /\ UNCHANGED <<worker, moment, lapse, throttled, nights, alertVars, monday, faults>>

\* The chain run by hand.
StartByHand(c) ==
    /\ c # Queued /\ nights[c].pc = "idle" /\ Put(c, [Idle EXCEPT !.pc = "resolve"])
    /\ UNCHANGED <<worker, moment, queue, lapse, throttled, alertVars, monday, faults>>

--------------------------------------------------------------------------------
(* The chain.                                                               *)

\* resolveUnresolved: what it could not resolve it tells the chain, and nobody else.
Resolve(c) ==
    /\ nights[c].pc = "resolve"
    /\ Put(c, [nights[c] EXCEPT !.pc = "rest",
                 !.errors = {t \in trouble : kind[t] = "memory"}])
    /\ UNCHANGED <<worker, moment, queue, lapse, throttled, alertVars, monday, faults>>

Leave(c, completed) ==
    /\ Put(c, Idle)
    /\ IF c # Queued THEN UNCHANGED <<queue, lapse>>
       ELSE /\ queue' = [queue EXCEPT !.active = 0,
                            !.again = IF completed THEN @ ELSE @ + Retries(queue.active)]
            /\ queue'.again <= MaxWaiting
            /\ lapse' = IF completed THEN 0 ELSE lapse

\* A step throws, and with it the chain.
Throw(c) ==
    /\ Fault /\ nights[c].pc \in {"resolve", "rest"} /\ Leave(c, FALSE)
    /\ UNCHANGED <<worker, moment, throttled, alertVars, monday>>

\* Everything between the resolver and the alerts, and their candidates: what is wrong
\* now, and what this chain's resolver met.
Evaluate(c) ==
    /\ nights[c].pc = "rest"
    /\ Put(c, [nights[c] EXCEPT !.pc = "insert",
                 !.todo = {t \in trouble : kind[t] # "memory"} \cup nights[c].errors])
    /\ UNCHANGED <<worker, moment, queue, lapse, throttled, alertVars, monday, faults>>

\* mutant: the keys lose their day
Dayless(t) == TRUE

\* Whether the key of an alert has no day in it: spend by the month, a delivery by its id.
Once(t) == kind[t] = "once"

Keys == today \cup ever

\* mutant: a duplicate is mailed like a new row
FiredAll(t) == {t}

\* ON CONFLICT DO NOTHING RETURNING id: only a new row has fired.
Fired(t) == {t} \ Keys

Insert(c, t) ==
    /\ nights[c].pc = "insert" /\ t \in nights[c].todo
    /\ ever' = IF Once(t) THEN ever \cup {t} ELSE ever
    /\ today' = IF Once(t) THEN today ELSE today \cup {t}
    /\ Put(c, [nights[c] EXCEPT !.todo = @ \ {t}, !.fired = @ \cup Fired(t)])
    /\ UNCHANGED <<worker, moment, queue, lapse, throttled, kind, trouble, heard, monday, faults>>

Inserted(c) == nights[c].pc = "insert" /\ nights[c].todo = {}

\* With nothing new there is no mail.
NothingNew(c) ==
    /\ Inserted(c) /\ nights[c].fired = {} /\ Leave(c, TRUE)
    /\ UNCHANGED <<worker, moment, throttled, alertVars, monday, faults>>

Mail(c) ==
    /\ Inserted(c) /\ nights[c].fired # {}
    /\ heard' = heard \cup nights[c].fired /\ Leave(c, TRUE)
    /\ UNCHANGED <<worker, moment, throttled, kind, trouble, today, ever, monday, faults>>

\* The alerts step throws, at the mail or before it: logged, and the chain is as
\* complete as with a mail.
MailFails(c) ==
    /\ Inserted(c) /\ nights[c].fired # {} /\ Leave(c, TRUE)
    /\ UNCHANGED <<worker, moment, throttled, alertVars, monday, faults>>

AlertsThrow(c) ==
    /\ Fault /\ nights[c].pc \in {"rest", "insert"} /\ Leave(c, TRUE)
    /\ UNCHANGED <<worker, moment, throttled, alertVars, monday>>

ChainStep(c) ==
    \/ Resolve(c) \/ Evaluate(c) \/ NothingNew(c)
    \/ \E t \in Trouble : Insert(c, t)

--------------------------------------------------------------------------------
(* Mondays.                                                                 *)

\* The cron's Monday, with a new week of drafts.
Monday ==
    /\ monday.state \in {"none", "completed", "failed"} \/ worker = "down"
    /\ monday' = [state |-> IF worker = "down" THEN "none" ELSE "first",
                  todo |-> Account, drafted |-> {}]
    /\ UNCHANGED <<worker, moment, queue, lapse, throttled, nights, alertVars, faults>>

RetryMonday ==
    /\ worker # "down" /\ monday.state = "retry"
    /\ monday' = [monday EXCEPT !.state = "second", !.todo = Account]
    /\ UNCHANGED <<worker, moment, queue, lapse, throttled, nights, alertVars, faults>>

\* The account's draft is there, new or from an earlier attempt.
Draft(a) ==
    /\ Drafting /\ a \in monday.todo
    /\ monday' = [monday EXCEPT !.todo = @ \ {a}, !.drafted = @ \cup {a}]
    /\ UNCHANGED <<worker, moment, queue, lapse, throttled, nights, alertVars, faults>>

\* The digest of one account throws, and the loop with it.
DraftThrows ==
    /\ Drafting /\ monday.todo # {}
    /\ monday' = [monday EXCEPT !.state = AfterThrow]
    /\ UNCHANGED <<worker, moment, queue, lapse, throttled, nights, alertVars, faults>>

DraftsDone ==
    /\ Drafting /\ monday.todo = {}
    /\ monday' = [monday EXCEPT !.state = "completed"]
    /\ UNCHANGED <<worker, moment, queue, lapse, throttled, nights, alertVars, faults>>

--------------------------------------------------------------------------------
Start      == Boot \/ AskCatchUp \/ SendCatchUp
TimePasses == CronTick \/ Midnight
TakeJob    == Fetch \/ Expire

Nightly ==
    \/ TimePasses \/ TakeJob \/ Change
    \/ \E c \in Chain : \/ StartByHand(c) \/ ChainStep(c) \/ Mail(c) \/ MailFails(c)
                       \/ Throw(c) \/ AlertsThrow(c)

Weekly ==
    \/ Monday \/ RetryMonday \/ DraftThrows \/ DraftsDone
    \/ \E a \in Account : Draft(a)

SchedulerNext == Start \/ Stop \/ WorkerDies \/ Nightly \/ Weekly

\* A chain does not stand still, and a mail about this gets through.
OnWithIt(c) == ChainStep(c) \/ Mail(c) \/ MailFails(c)
Through(t)  == \E c \in Chain : t \in nights[c].fired /\ Mail(c)

\* A worker that is started again and again, with the jobs it meets worked on to
\* their end; whether it is up when the cron would fire nobody promises, nor that a
\* given mail gets through: only that of those about one trouble not all are lost.
Fairness ==
    /\ WF_schedulerVars(Start) /\ SF_schedulerVars(TimePasses) /\ SF_schedulerVars(TakeJob)
    /\ \A c \in Chain : WF_schedulerVars(OnWithIt(c))
    /\ \A t \in Trouble : SF_schedulerVars(Through(t))

SchedulerSpec == SchedulerInit /\ [][SchedulerNext]_schedulerVars /\ Fairness

--------------------------------------------------------------------------------
\* A trouble that lasts is mailed on one day after another (the day in the keys,
\* alerts.ts:84-118, 182-271), whether or not the worker is up when the cron fires
\* (catchUpMaintenance, schedules.ts:333-377) and however many mails fail
\* (schedules.ts:229-249).
Announced ==
    \A t \in Trouble : <>[](t \in trouble /\ kind[t] # "once") => []<>(t \in heard)

\* No key is mailed twice, by this chain or by the one beside it (alerts.ts:437-447).
SaidOnce ==
    \A c \in Chain :
        /\ nights[c].fired \cap heard = {}
        /\ \A d \in Chain \ {c} : nights[c].fired \cap nights[d].fired = {}

\* A week's job that completed has left every account with its draft, through the
\* accounts whose digest throws and the second attempt (schedules.ts:298-320).
DraftsForAll == monday.state = "completed" => monday.drafted = Account

\* No alert is mailed twice, and a week's job that completed has left every account its
\* draft (alerts.ts:437-447, schedules.ts:298-320).
NoneTwiceNoneMissed == SchedulerTypeOK /\ SaidOnce /\ DraftsForAll
================================================================================
