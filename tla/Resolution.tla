------------------------------- MODULE Resolution -------------------------------
(***************************************************************************)
(* From source records to projects: the pass ladder of the resolver          *)
(* (resolution/resolver.ts, fuzzy.ts), the nightly chain that runs it, the   *)
(* review queue (resolution/review.ts) with the people who decide it, and    *)
(* the operator who undoes a resolution.  None of it uses a transaction: a   *)
(* process writes the project, the ids, the derived rows and the resolution  *)
(* one after the other, and may stop between any two of them.                *)
(*                                                                          *)
(* What a record says is constant but for its stage, which a source may      *)
(* advance by publishing the record again.  Parcels and addresses are those  *)
(* of one county.  Every pass of the ladder is a query of its own.           *)
(***************************************************************************)
EXTENDS Integers, Sequences, FiniteSets, FiniteSetsExt

CONSTANTS
    Record,       \* source records of the shared sources
    Canary,       \* those of a type that never becomes a project
    Authority,    \* [Record -> permitting jurisdictions]
    Number,       \* [Record -> official external ids]
    Refs,         \* [Record -> sets of external ids cited]
    Parcels,      \* [Record -> sets of parcels]
    Address,      \* [Record -> normalized addresses, or Null]
    Point,        \* [Record -> places within PROXIMITY_METERS, or Null]
    Orgs,         \* [Record -> sets of organizations]
    Compatible,   \* pairs of records whose titles are similar enough
    Generic,      \* records with a generic name
    Stage,        \* [Record -> the stage each version states]; 0 is "unknown"
    Limit,        \* how many records a loop of the chain selects
    Batch,        \* how many reviews the re-evaluation selects
    MaxProject, MaxReview,  \* bounds: rows of projects and resolution_reviews
    MaxVerdict,   \* bound: decisions by people (merge, reject, undo)
    MaxFault,     \* bound: faults and crashes
    Null

Project == 1..MaxProject
Review  == 1..MaxReview
MaxVersion == Max({Len(Stage[r]) : r \in Record})
Known(f)   == UNION {f[r] : r \in Record}

ASSUME ResolutionAssumption ==
    /\ Canary \subseteq Record /\ Generic \subseteq Record
    /\ Compatible \subseteq Record \X Record
    /\ Stage \in [Record -> Seq(Nat)] /\ \A r \in Record : Len(Stage[r]) > 0
    /\ \A r \in Record : Len(Stage[r]) <= MaxVersion
    /\ {Limit, Batch} \subseteq Nat \ {0}
    /\ {MaxVersion, MaxProject, MaxReview, MaxVerdict, MaxFault} \subseteq Nat

VARIABLES
    version,      \* the content version stored of each record, 0 before the first
    projects,     \* rows of projects (Null: no row)
    extIds,       \* project_external_ids
    roles,        \* project_roles, as <<project, organization, record>>
    events,       \* project_events that a record caused
    resolutions,  \* the active record_resolution of each record
    reviews,      \* rows of resolution_reviews, in the order they were created
    work,         \* what each process is doing
    verdicts,     \* decisions people have made
    faults,       \* faults so far
    refused,      \* history: a person has refused a candidate
    crossed,      \* history: an approval was closed between two passes over its permit
    undone,       \* history: the records a resolution of which was undone
    calm          \* history: nothing was begun while something else was at work

graph == <<projects, extIds, roles, events>>
queue == <<resolutions, reviews>>
told  == <<refused, crossed, undone>>
count == <<verdicts, faults, told, calm>>
resolutionVars  == <<version, projects, extIds, roles, events, resolutions, reviews, work,
           verdicts, faults, refused, crossed, undone, calm>>

Process == {"chain", "reviewer", "operator"}

Rule == {"official_id", "explicit_reference", "parcel_overlap", "address_name",
         "proximity_org", "new_project"}

\* What decideResolution returns.
Decision == [kind : {"merge", "review", "create"}, rule : Rule,
             project : Project \cup {Null}]

ProjectRow == [authority : {Authority[r] : r \in Record}, title : Record,
               parcels : SUBSET Known(Parcels), address : {Address[r] : r \in Record} \cup {Null},
               point : {Point[r] : r \in Record} \cup {Null}, stage : Nat]

\* A record_resolution that is active, and a row of resolution_reviews.
Resolved  == [project : Project, ver : 0..MaxVersion, id : 0..MaxVerdict]
ReviewRow == [rec : Record, candidate : Project \cup {Null}, rule : Rule,
              status : {"pending", "merged", "rejected"}]

ASSUME NullIsNothing ==
    Null \notin ProjectRow \cup Resolved \cup ReviewRow \cup Project \cup {"merge", "reject"}

\* phase: which loop the process is in; todo: the rows that loop selected; pc: the
\* statement it is at; the rest are the locals of the row being worked on.
Idle == [phase |-> "idle", todo |-> {}, pc |-> "take", rec |-> Null, ver |-> 0,
         dec |-> Null, row |-> Null, res |-> Null, review |-> Null, verdict |-> Null]

ResolutionTypeOK ==
    /\ version \in [Record -> 0..MaxVersion]
    /\ projects \in [Project -> ProjectRow \cup {Null}]
    /\ extIds \subseteq [authority : {Authority[r] : r \in Record},
                         number : {Number[r] : r \in Record} \cup Known(Refs),
                         type : {"primary", "reference"}, project : Project]
    /\ roles \subseteq (Project \X Known(Orgs) \X Record)
    /\ events \subseteq [project : Project, rec : Record, seen : 1..MaxVersion, stage : Nat]
    /\ resolutions \in [Record -> Resolved \cup {Null}]
    /\ reviews \in [Review -> ReviewRow \cup {Null}]
    /\ \A q \in Process : work[q].dec \in Decision \cup {Null}
    /\ verdicts \in 0..MaxVerdict /\ faults \in 0..MaxFault
    /\ refused \in BOOLEAN /\ crossed \in BOOLEAN /\ calm \in BOOLEAN
    /\ undone \subseteq Record

ResolutionInit ==
    /\ version = [r \in Record |-> 0]
    /\ projects = [p \in Project |-> Null]
    /\ extIds = {} /\ roles = {} /\ events = {}
    /\ resolutions = [r \in Record |-> Null]
    /\ reviews = [v \in Review |-> Null]
    /\ work = [q \in Process |-> Idle]
    /\ verdicts = 0 /\ faults = 0 /\ calm = TRUE
    /\ refused = FALSE /\ crossed = FALSE /\ undone = {}

Rows    == {p \in Project : projects[p] # Null}
Pending == {v \in Review : reviews[v] # Null /\ reviews[v].status = "pending"}
IsPending(r) == \E v \in Pending : reviews[v].rec = r

\* resolveUnresolved: neither an active resolution nor a pending review.
Unresolved(r) == version[r] > 0 /\ resolutions[r] = Null /\ ~IsPending(r)

\* applyRecordUpdates: the stored fingerprint is not the one processed (a
\* version of 0 is a NULL fingerprint).
Drifted(r) == resolutions[r] # Null /\ resolutions[r].ver # version[r]

\* mutant: the stage a record states replaces the project's
NewerStage(s, t) == IF t > 0 THEN t ELSE s

\* laterStage: never regress a stage from a single record.
LaterStage(s, t) == IF t > s THEN t ELSE s

--------------------------------------------------------------------------------
(* What each pass of the ladder finds (decideResolution).  Where the code     *)
(* takes the first of several unordered rows, any of them may come first.    *)

Decide(kind, rule, p) == [kind |-> kind, rule |-> rule, project |-> p]
NewProject == Decide("create", "new_project", Null)

SamePermit(r, s) == Number[r] = Number[s] /\ Authority[r] = Authority[s]

\* Pass 1 asks for the number in this jurisdiction, whatever the id_type.
Official(r) == {e.project : e \in {f \in extIds : f.authority = Authority[r]
                                                    /\ f.number = Number[r]}}
\* Pass 2: the number or a cited one, in any jurisdiction.
Cited(r)    == {e.project : e \in {f \in extIds : f.number \in Refs[r] \cup {Number[r]}}}

NoTwins(r) == {}   \* mutant: pass 1b is missing

\* Pass 1b: the same permit waits for a decision on another record.
Twins(r) == {v \in Pending : reviews[v].rec # r /\ SamePermit(reviews[v].rec, r)}

\* Pass 3.
ByParcels(r, excluded) ==
    LET P == {p \in Rows \ excluded : projects[p].parcels \cap Parcels[r] # {}}
    IN  IF Cardinality(P) > 1 THEN {Decide("review", "parcel_overlap", p) : p \in P}
        ELSE {Decide(IF projects[p].authority = Authority[r] THEN "merge" ELSE "review",
                     "parcel_overlap", p) : p \in P}

Similar(p, r)  == <<projects[p].title, r>> \in Compatible
OrgsOf(p)      == {x[2] : x \in {y \in roles : y[1] = p}}

\* Pass 4.
ByAddress(r) ==
    LET P == {p \in Rows : Address[r] # Null /\ projects[p].address = Address[r]}
    IN  IF Cardinality(P) > 1 THEN {Decide("review", "address_name", p) : p \in P}
        ELSE {Decide(IF r \notin Generic /\ Similar(p, r) THEN "merge" ELSE "review",
                     "address_name", p) : p \in P}

\* Pass 5.
ByProximity(r) ==
    LET P == {p \in Rows : Point[r] # Null /\ projects[p].point = Point[r]}
        supported == {p \in P : r \notin Generic /\ OrgsOf(p) \cap Orgs[r] # {}}
    IN  IF supported # {} THEN {Decide("merge", "proximity_org", p) : p \in supported}
        ELSE {IF Similar(p, r) \/ r \in Generic THEN Decide("review", "proximity_org", p)
              ELSE NewProject : p \in P}

--------------------------------------------------------------------------------
(* What the sources do, and the statements every path shares.               *)

AllIdle == \A q \in Process : work[q].phase = "idle"
Begin   == calm' = (calm /\ AllIdle)

\* A source publishes a record for the first time, or a new version of it.
Fetch(r) ==
    /\ Begin
    /\ version[r] < Len(Stage[r])
    /\ version' = [version EXCEPT ![r] = @ + 1]
    /\ UNCHANGED <<graph, queue, work, verdicts, faults, told>>

At(q, pc)   == work[q].phase # "idle" /\ work[q].pc = pc
Goto(q, pc) == work' = [work EXCEPT ![q].pc = pc]

\* The row is done, or has thrown: a loop takes its next one, a request returns.
Done(w) ==
    IF w.phase = "undo" \/ (w.phase = "decide" /\ w.todo = {}) THEN Idle
    ELSE [Idle EXCEPT !.phase = w.phase, !.todo = w.todo,
                      !.verdict = IF w.phase = "decide" THEN w.verdict ELSE Null]
Return(q) == work' = [work EXCEPT ![q] = Done(@)]

\* mutant: the derived rows are written before the ids are registered
DerivedFirst == [write |-> "derive", derive |-> "register", register |-> "insert"]

\* The order of mergeIntoProject and createProject, then of their callers.
After == [write |-> "register", register |-> "derive", derive |-> "insert"]

\* STRONG_REEVALUATION_RULES
StrongRule == {"official_id", "explicit_reference"}

\* The preview of a parked record: only an authoritative match decides it, for the
\* candidate or against it.
Preview(w, d) ==
    IF d.kind = "merge" /\ d.rule \in StrongRule
      THEN [w EXCEPT !.pc = "check",
                     !.verdict = IF d.project = reviews[w.review].candidate THEN "merge" ELSE "reject"]
    ELSE Done(w)

\* resolveRecord acts on decision d.
ActOn(w, d) ==
    [w EXCEPT !.dec = d,
              !.pc = CASE d.kind = "merge"  -> "read"
                       [] d.kind = "create" -> "write"
                       [] d.kind = "review" -> "park"]

Previewing(w)  == w.phase = "reevaluate" /\ w.verdict = Null
Conclude(w, d) == IF Previewing(w) THEN Preview(w, d) ELSE ActOn(w, d)

--------------------------------------------------------------------------------
(* The pass ladder (decideResolution), one query after the other, for a      *)
(* record of the chain, a preview, or a record whose candidate was refused.  *)

Adjudicating(w) == w.verdict = "reject"
Excluded(w)     == IF Adjudicating(w) THEN {w.dec.project} \ {Null} ELSE {}

\* Without an id, or with that of the project refused: pass 1b, unless this very
\* record is being decided.
WithoutId(w)    == [w EXCEPT !.pc = IF Adjudicating(w) THEN "parcel" ELSE "twin"]
ByIds(w, d)     == IF d.project \in Excluded(w) THEN WithoutId(w) ELSE Conclude(w, d)

\* An excluded fuzzy match is dropped, not replaced by the next candidate.
ByFuzzy(w, d)   == Conclude(w, IF d.project \in Excluded(w) THEN NewProject ELSE d)

\* One query: w1 is where the work of q stands after it.
Query(q, pc, W) ==
    /\ At(q, pc)
    /\ \E w1 \in W : work' = [work EXCEPT ![q] = w1]
    /\ UNCHANGED <<version, graph, queue, count>>

OfficialPass(q) ==
    LET w == work[q]
    IN  Query(q, "official",
          IF w.rec \in Canary THEN {Done(w)}
          ELSE IF Official(w.rec) = {} THEN {[w EXCEPT !.pc = "cite"]}
          ELSE {ByIds(w, Decide("merge", "official_id", p)) : p \in Official(w.rec)})

ReferencePass(q) ==
    LET w == work[q]
    IN  Query(q, "cite",
          IF Cardinality(Cited(w.rec)) # 1 THEN {WithoutId(w)}
          ELSE {ByIds(w, Decide("merge", "explicit_reference", p)) : p \in Cited(w.rec)})

\* mutant: a record whose twin is pending is left alone
TwinPassUnparked(q) ==
    LET w == work[q]
    IN  Query(q, "twin", {IF Twins(w.rec) = {} THEN [w EXCEPT !.pc = "parcel"] ELSE Done(w)})

TwinPass(q) ==
    LET w == work[q]
    IN  Query(q, "twin",
          {IF Twins(w.rec) = {} THEN [w EXCEPT !.pc = "parcel"]
           ELSE Conclude(w, Decide("review", "official_id", reviews[Min(Twins(w.rec))].candidate))})

ParcelPass(q) ==
    LET w == work[q]
        found == ByParcels(w.rec, Excluded(w))
    IN  Query(q, "parcel",
          IF found = {} THEN {[w EXCEPT !.pc = "address"]} ELSE {Conclude(w, d) : d \in found})

AddressPass(q) ==
    LET w == work[q]
        found == ByAddress(w.rec)
    IN  Query(q, "address",
          IF found = {} THEN {[w EXCEPT !.pc = "near"]} ELSE {ByFuzzy(w, d) : d \in found})

ProximityPass(q) ==
    LET w == work[q]
        found == ByProximity(w.rec)
    IN  Query(q, "near",
          IF found = {} THEN {Conclude(w, NewProject)} ELSE {ByFuzzy(w, d) : d \in found})

Ladder(q) == \/ OfficialPass(q) \/ ReferencePass(q) \/ TwinPass(q)
             \/ ParcelPass(q) \/ AddressPass(q) \/ ProximityPass(q)

--------------------------------------------------------------------------------
(* mergeIntoProject and createProject, and what their callers write after.   *)

\* mergeIntoProject reads the project ...
ReadProject(q) ==
    /\ At(q, "read")
    /\ work' = [work EXCEPT ![q].row = projects[work[q].dec.project],
                            ![q].pc = IF work[q].phase = "update" THEN "advance" ELSE "write"]
    /\ UNCHANGED <<version, graph, queue, count>>

Merged(row, r, v) ==
    [row EXCEPT !.parcels = @ \cup Parcels[r],
                !.stage   = LaterStage(@, Stage[r][v]),
                !.address = IF @ = Null THEN Address[r] ELSE @]

Created(r, v) ==
    [authority |-> Authority[r], title |-> r, parcels |-> Parcels[r], address |-> Address[r],
     point |-> Null, stage |-> Stage[r][v]]

\* ... and writes it back as computed from what was read; or inserts a new one.
\* (The point is not part of that write.)
WriteProject(q) ==
    LET w == work[q]
        p == IF w.dec.kind = "merge" THEN w.dec.project ELSE Min(Project \ Rows)
    IN  /\ At(q, "write")
        /\ w.dec.kind = "create" => Rows # Project
        /\ projects' = [projects EXCEPT ![p] =
              IF w.dec.kind = "create" THEN Created(w.rec, w.ver)
              ELSE [Merged(w.row, w.rec, w.ver) EXCEPT !.point = projects[p].point]]
        /\ work' = [work EXCEPT ![q].dec.project = p, ![q].pc = After["write"]]
        /\ UNCHANGED <<version, extIds, roles, events, queue, count>>

\* registerExternalIds: on conflict on (authority, type, number), do nothing.
RegisterIds(q) ==
    LET w == work[q]
        Row(n, t) == [authority |-> Authority[w.rec], number |-> n, type |-> t,
                      project |-> w.dec.project]
        new == {Row(Number[w.rec], "primary")} \cup {Row(n, "reference") : n \in Refs[w.rec]}
    IN  /\ At(q, "register")
        /\ extIds' = extIds \cup {e \in new : \A f \in extIds :
              <<f.authority, f.number, f.type>> # <<e.authority, e.number, e.type>>}
        /\ Goto(q, After["register"])
        /\ UNCHANGED <<version, projects, roles, events, queue, count>>

\* Roles (one per project and organization), the point if there is none, and the
\* event, once per project, record and sighting.  A merge always emits one, an
\* update only when it advanced the stage.
Derive(q) ==
    LET w == work[q]
        p == w.dec.project
        reached == IF w.row = Null THEN Stage[w.rec][w.ver]
                   ELSE LaterStage(w.row.stage, Stage[w.rec][w.ver])
        advanced == w.row = Null \/ reached # w.row.stage
        event == [project |-> p, rec |-> w.rec, seen |-> IF w.phase = "update" THEN w.ver ELSE 1,
                  stage |-> IF advanced THEN reached ELSE 0]
        known == \E e \in events : <<e.project, e.rec, e.seen>> = <<p, w.rec, event.seen>>
    IN  /\ At(q, "derive")
        /\ roles' = roles \cup {<<p, o, w.rec>> : o \in Orgs[w.rec] \ OrgsOf(p)}
        /\ projects' = [projects EXCEPT ![p].point = IF @ = Null THEN Point[w.rec] ELSE @]
        /\ events' = IF known \/ (w.phase = "update" /\ ~advanced) THEN events
                     ELSE events \cup {event}
        /\ Goto(q, IF w.phase = "update" THEN "stamp" ELSE After["derive"])
        /\ UNCHANGED <<version, extIds, queue, count>>

\* Both persistResolution, which stamps the fingerprint the record has now, and
\* the insert of an approved review, which stamps none.  One active resolution per
\* record: the index makes a second insert throw.
InsertResolution(q) ==
    LET w == work[q]
    IN  /\ At(q, "insert")
        /\ IF resolutions[w.rec] # Null THEN Return(q) /\ UNCHANGED resolutions
           ELSE /\ resolutions' = [resolutions EXCEPT ![w.rec] =
                      [project |-> w.dec.project, id |-> verdicts,
                       ver |-> IF w.verdict = "merge" THEN 0 ELSE version[w.rec]]]
                /\ IF w.verdict = "merge" THEN Goto(q, "mark") ELSE Return(q)
        /\ UNCHANGED <<version, graph, reviews, count>>

\* The record waits for a person.  No index keeps a second row out.
Park(q) ==
    LET w == work[q]
        free == {v \in Review : reviews[v] = Null}
    IN  /\ At(q, "park") /\ free # {}
        /\ reviews' = [reviews EXCEPT ![Min(free)] =
              [rec |-> w.rec, candidate |-> w.dec.project, rule |-> w.dec.rule,
               status |-> "pending"]]
        /\ Return(q)
        /\ UNCHANGED <<version, graph, resolutions, count>>

--------------------------------------------------------------------------------
(* The nightly chain: resolveUnresolved, applyRecordUpdates,                *)
(* reevaluatePendingReviews.  Each loop selects its rows once, with their   *)
(* contents, and works through that list.                                   *)

Loop(phase, todo) == work' = [work EXCEPT !["chain"] = [Idle EXCEPT !.phase = phase, !.todo = todo]]
Taking(phase)     == work["chain"].phase = phase /\ At("chain", "take")
Without(t)        == [work["chain"] EXCEPT !.todo = @ \ {t}]

\* mutant: one review less than the limit
OldestBatchLess(S) == {v \in S : Cardinality({u \in S : u <= v}) < Batch}

\* Limit of the rows S (the code takes the first by the time a record was seen, which
\* is not kept here: any of them); the oldest Batch of the reviews in S.
Selections(S) == {T \in SUBSET S : Cardinality(T) = Min({Cardinality(S), Limit})}
OldestBatch(S)     == {v \in S : Cardinality({u \in S : u < v}) < Batch}

StartChain ==
    /\ work["chain"].phase = "idle" /\ Begin
    /\ \E R \in Selections({r \in Record : Unresolved(r)}) :
          Loop("resolve", {<<r, version[r]>> : r \in R})
    /\ UNCHANGED <<version, graph, queue, verdicts, faults, told>>

NextLoop ==
    /\ At("chain", "take") /\ work["chain"].todo = {}
    /\ \/ /\ Taking("resolve")
          /\ \E R \in Selections({r \in Record : Drifted(r)}) :
                Loop("update", {<<r, version[r], resolutions[r]>> : r \in R})
       \/ Taking("update") /\ Loop("reevaluate", OldestBatch(Pending))
       \/ Taking("reevaluate") /\ Loop("idle", {})
    /\ UNCHANGED <<version, graph, queue, count>>

TakeRecord ==
    /\ Taking("resolve")
    /\ \E t \in work["chain"].todo :
          work' = [work EXCEPT !["chain"] =
              [Without(t) EXCEPT !.rec = t[1], !.ver = t[2], !.pc = "official"]]
    /\ UNCHANGED <<version, graph, queue, count>>

TakeUpdate ==
    /\ Taking("update")
    /\ \E t \in work["chain"].todo :
          work' = [work EXCEPT !["chain"] =
              [Without(t) EXCEPT !.rec = t[1], !.ver = t[2], !.res = t[3], !.pc = "read",
                                 !.dec = Decide("merge", "new_project", t[3].project)]]
    /\ UNCHANGED <<version, graph, queue, count>>

\* The stage only, and only if it advances on the one that was read.
AdvanceStage ==
    LET w == work["chain"]
        reached == LaterStage(w.row.stage, Stage[w.rec][w.ver])
    IN  /\ At("chain", "advance")
        /\ projects' = IF reached = w.row.stage THEN projects
                       ELSE [projects EXCEPT ![w.dec.project].stage = reached]
        /\ Goto("chain", "derive")
        /\ UNCHANGED <<version, extIds, roles, events, queue, count>>

\* The resolution that was selected is stamped with the fingerprint selected.
StampProcessed ==
    LET w == work["chain"]
    IN  /\ At("chain", "stamp")
        /\ resolutions' = IF resolutions[w.rec] = Null \/ resolutions[w.rec].id # w.res.id
                            THEN resolutions
                          ELSE [resolutions EXCEPT ![w.rec].ver = w.ver]
        /\ Return("chain")
        /\ UNCHANGED <<version, graph, reviews, count>>

\* The record of a parked review is loaded for the preview.
TakeReview ==
    /\ Taking("reevaluate")
    /\ \E v \in work["chain"].todo :
          LET r == reviews[v].rec
          IN  work' = [work EXCEPT !["chain"] =
                  [Without(v) EXCEPT !.review = v, !.rec = r, !.ver = version[r], !.pc = "official"]]
    /\ UNCHANGED <<version, graph, queue, count>>

--------------------------------------------------------------------------------
(* decideReview, for a person or for the re-evaluation.                     *)

\* A person decides one review, or every pending one of a triage cluster.
Cluster(v) == {u \in Pending : /\ reviews[u].rule = reviews[v].rule
                               /\ reviews[u].candidate = reviews[v].candidate}

Request(V, verdict) ==
    /\ work["reviewer"].phase = "idle" /\ Begin /\ verdicts < MaxVerdict
    /\ work' = [work EXCEPT !["reviewer"] =
          [@ EXCEPT !.phase = "decide", !.todo = V, !.verdict = verdict]]
    /\ verdicts' = verdicts + 1
    /\ UNCHANGED <<version, graph, queue, faults, told>>

TakeDecision ==
    LET w == work["reviewer"]
    IN  /\ w.phase = "decide" /\ At("reviewer", "take")
        /\ work' = [work EXCEPT !["reviewer"] =
              [w EXCEPT !.todo = @ \ {Min(w.todo)}, !.review = Min(w.todo), !.pc = "check"]]
        /\ UNCHANGED <<version, graph, queue, count>>

\* mutant: an approval closes the review first, as a rejection does
CheckPendingCloses(q) ==
    LET w  == work[q]
        rv == reviews[w.review]
    IN  /\ At(q, "check")
        /\ IF w.review \notin Pending \/ (w.verdict = "merge" /\ rv.candidate = Null)
             THEN Return(q) /\ UNCHANGED reviews
           ELSE /\ work' = [work EXCEPT ![q] =
                      [w EXCEPT !.rec = rv.rec, !.ver = version[rv.rec],
                                !.dec = Decide("merge", rv.rule, rv.candidate),
                                !.pc = IF w.verdict = "merge" THEN "read" ELSE "reject"]]
                /\ reviews' = IF w.verdict = "reject" THEN reviews
                              ELSE [reviews EXCEPT ![w.review].status = "merged"]
        /\ UNCHANGED <<version, graph, resolutions, count>>

\* The review must still be pending, and an approval needs a candidate.
CheckPending(q) ==
    LET w  == work[q]
        rv == reviews[w.review]
    IN  /\ At(q, "check")
        /\ work' = [work EXCEPT ![q] =
              IF w.review \notin Pending \/ (w.verdict = "merge" /\ rv.candidate = Null) THEN Done(w)
              ELSE [w EXCEPT !.rec = rv.rec, !.ver = version[rv.rec],
                             !.dec = Decide("merge", rv.rule, rv.candidate),
                             !.pc = IF w.verdict = "merge" THEN "read" ELSE "reject"]]
        /\ UNCHANGED <<version, graph, queue, count>>

\* The chain found no id for the permit of r, and has yet to ask who waits for it.
BetweenPasses(r) == /\ At("chain", "twin") /\ work["chain"].phase = "resolve"
                    /\ SamePermit(work["chain"].rec, r)

\* After the merge and its resolution, the review is closed.
MarkMerged(q) ==
    /\ At(q, "mark")
    /\ reviews' = [reviews EXCEPT ![work[q].review].status = "merged"]
    /\ crossed' = (crossed \/ BetweenPasses(work[q].rec))
    /\ Return(q)
    /\ UNCHANGED <<version, graph, resolutions, verdicts, faults, refused, undone, calm>>

\* A rejected review is closed first, then the record is resolved again.
MarkRejected(q) ==
    /\ At(q, "reject")
    /\ reviews' = [reviews EXCEPT ![work[q].review].status = "rejected"]
    /\ refused' = (refused \/ q = "reviewer")
    /\ Goto(q, "official")
    /\ UNCHANGED <<version, graph, resolutions, verdicts, faults, crossed, undone, calm>>

--------------------------------------------------------------------------------
(* undoResolution.                                                          *)

RequestUndo(r) ==
    /\ work["operator"].phase = "idle" /\ Begin /\ verdicts < MaxVerdict
    /\ resolutions[r] # Null
    /\ work' = [work EXCEPT !["operator"] =
          [@ EXCEPT !.phase = "undo", !.pc = "undo", !.rec = r, !.res = resolutions[r]]]
    /\ verdicts' = verdicts + 1
    /\ UNCHANGED <<version, graph, queue, faults, told>>

\* What was derived from the record goes; ids, parcels and stage stay.
UndoDerived ==
    LET r == work["operator"].rec
    IN  /\ At("operator", "undo")
        /\ events' = {e \in events : e.rec # r}
        /\ roles' = {x \in roles : x[3] # r}
        /\ Goto("operator", "unmark")
        /\ UNCHANGED <<version, projects, extIds, queue, count>>

MarkUndone ==
    LET w == work["operator"]
    IN  /\ At("operator", "unmark")
        /\ IF resolutions[w.rec] # Null /\ resolutions[w.rec].id = w.res.id
             THEN resolutions' = [resolutions EXCEPT ![w.rec] = Null] /\ undone' = undone \cup {w.rec}
             ELSE UNCHANGED <<resolutions, undone>>
        /\ Return("operator")
        /\ UNCHANGED <<version, graph, reviews, verdicts, faults, refused, crossed, calm>>

--------------------------------------------------------------------------------
(* A statement throws: the loops go on with their next row, a request fails.*)
(* Or the worker dies.                                                      *)

Fault(q) ==
    /\ faults < MaxFault
    /\ work[q].phase # "idle" /\ ~At(q, "take")
    /\ Return(q)
    /\ faults' = faults + 1
    /\ UNCHANGED <<version, graph, queue, verdicts, told, calm>>

CrashChain ==
    /\ faults < MaxFault
    /\ work["chain"].phase # "idle"
    /\ Loop("idle", {})
    /\ faults' = faults + 1
    /\ UNCHANGED <<version, graph, queue, verdicts, told, calm>>

Statement(q) ==
    \/ ReadProject(q) \/ WriteProject(q) \/ RegisterIds(q) \/ Derive(q)
    \/ InsertResolution(q) \/ Park(q)
    \/ CheckPending(q) \/ MarkMerged(q) \/ MarkRejected(q) \/ Ladder(q)

ChainStep == \/ StartChain \/ NextLoop \/ TakeRecord \/ TakeUpdate \/ TakeReview
             \/ AdvanceStage \/ StampProcessed \/ Statement("chain")
ReviewerStep == TakeDecision \/ Statement("reviewer")
OperatorStep == UndoDerived \/ MarkUndone

ResolutionNext ==
    \/ \E r \in Record : Fetch(r) \/ RequestUndo(r)
    \/ \E v \in Pending, verdict \in {"merge", "reject"} :
          Request({v}, verdict) \/ Request(Cluster(v), verdict)
    \/ ChainStep \/ ReviewerStep \/ OperatorStep
    \/ \E q \in Process : Fault(q)
    \/ CrashChain

ResolutionSpec == ResolutionInit /\ [][ResolutionNext]_resolutionVars

\* The chain runs every night and a request that was made is served; nobody is
\* obliged to publish, to decide or to undo anything.
ResolutionFairSpec ==
    /\ ResolutionSpec
    /\ WF_resolutionVars(ChainStep)
    /\ WF_resolutionVars(ReviewerStep)
    /\ WF_resolutionVars(OperatorStep)

--------------------------------------------------------------------------------
(* Safety.                                                                  *)

\* The number of r is its permit's alone: no other jurisdiction uses it, no record cites
\* it, and the records of the permit cite nothing.
Plain(r) == \A s \in Record :
    /\ Number[r] \notin Refs[s]
    /\ Number[s] = Number[r] => Authority[s] = Authority[r] /\ Refs[s] = {}

\* A resolved record can be found by its permit number, however its resolution came about:
\* every later record of that permit meets it in pass 1.  And two resolved records of a
\* permit nobody cites are on one project, as long as no person refused a candidate and no
\* approval slipped between two passes of the chain over its permit (OnePermitOneProject
\* says what happens then).
PermitsTogether ==
    /\ ResolutionTypeOK
    /\ \A r \in Record : resolutions[r] # Null => Official(r) # {}
    /\ ~refused /\ ~crossed =>
          \A r, s \in Record :
              /\ resolutions[r] # Null /\ resolutions[s] # Null
              /\ SamePermit(r, s) /\ Plain(r)
              => resolutions[r].project = resolutions[s].project

\* A record of such a permit tells its story on one project only, the one it is resolved
\* to: no retry after a fault, and no undo, leaves events behind elsewhere.
OneHome ==
    ~refused /\ ~crossed =>
        \A e \in events : Plain(e.rec) /\ resolutions[e.rec] # Null =>
            resolutions[e.rec].project = e.project

\* The records of one permit can be found by its number and stand on one project, and what
\* a record caused stands on the one it is resolved to (resolver.ts:93-114, 303-409,
\* 410-499, review.ts:149-205).
PermitsAtHome == PermitsTogether /\ OneHome

\* An approval stands: the record of a review that reads "merged" is on the project that
\* was approved, unless it was undone since.  Two may decide one review at once (both pass
\* the check of review.ts:105 before either writes), a decision may break off anywhere,
\* the chain may place, update and re-evaluate the record meanwhile.
ApprovalStands ==
    \A v \in Review : reviews[v] # Null /\ reviews[v].status = "merged" =>
        LET r == reviews[v].rec
        IN  \/ r \in undone
            \/ resolutions[r] # Null /\ resolutions[r].project = reviews[v].candidate

\* spec 9: no record makes a project's stage regress, or takes a parcel from it,
\* as long as people do not decide while the chain is writing.
ProjectsOnlyGrow ==
    [][\A p \in Rows : calm' => /\ projects'[p].stage >= projects[p].stage
                                /\ projects[p].parcels \subseteq projects'[p].parcels]_resolutionVars

(* Liveness.                                                                *)

\* A record that no one has placed yet is placed or put before a person.
Settles ==
    \A r \in Record \ Canary : Unresolved(r) ~> ~Unresolved(r)

\* A record held because its permit was pending elsewhere is released once that
\* permit has a project, without anybody deciding it (if nothing failed and nobody
\* decided while the chain was at work), and once its review is among the oldest Batch: a
\* longer queue of questions that nobody answers holds it for as long.
HeldTwin(r) ==
    /\ \E v \in Pending : reviews[v].rec = r /\ Cardinality({u \in Pending : u < v}) < Batch
    /\ faults = 0 /\ calm
    /\ \E s \in Record \ {r} : resolutions[s] # Null /\ SamePermit(r, s)
HeldTwinReleased ==
    \A r \in {t \in Record : \E s \in Record \ {t} : SamePermit(s, t)} :
        HeldTwin(r) ~> ~HeldTwin(r)

--------------------------------------------------------------------------------
(* What a comment says and the code does not do.                            *)

\* Pass 1b outranks every weaker pass, so that deciding the review of one record cannot
\* split its permit across two projects (resolver.ts:458-471): until a candidate was
\* refused, the resolved records of a permit that nobody cites are on one project.
OnePermitOneProject ==
    ~refused => \A r, s \in Record :
        /\ resolutions[r] # Null /\ resolutions[s] # Null
        /\ SamePermit(r, s) /\ Plain(r)
        => resolutions[r].project = resolutions[s].project

\* persistResolution stamps "the content version being applied right now", so that
\* applyRecordUpdates comes back when the record drifts from it: a record whose
\* current version counts as processed has moved its project's stage.
ProcessedIsApplied ==
    \A r \in Record :
        (resolutions[r] # Null /\ resolutions[r].ver = version[r])
          => projects[resolutions[r].project].stage >= Stage[r][version[r]]
================================================================================
