------------------------------- MODULE SourceRun -------------------------------
(***************************************************************************)
(* One source of the pipeline: the run orchestrator (source-sdk/runner.ts), *)
(* the parser replay (source-sdk/replay.ts) and the four tables they share: *)
(* the object store, raw_artifacts, source_records (with solicitations) and *)
(* evidence_items.  Every statement that writes, every external call, and   *)
(* every read whose answer decides a later write is a step of its own, so a *)
(* crash, a fault or another process may come between any two of them:      *)
(* runSource and replaySource use no transaction.                           *)
(*                                                                          *)
(* A fetched body is a member of Content.  What an adapter makes of it is   *)
(* Emits[v][c][x], the normalized fingerprint that parser version v gives   *)
(* record x of content c: None when c does not mention x, Bad when the      *)
(* record fails the schema (or names another source).  Throws[v] are the    *)
(* contents on which parse() itself throws, and Backed says which records  *)
(* come with evidence.                                                      *)
(***************************************************************************)
EXTENDS Integers, FiniteSets

CONSTANTS
    Run,            \* ids of source_runs rows written by runSource
    Url,            \* canonical URLs the source can discover
    Content,        \* bodies the source can serve
    Permit,         \* external ids of permit records (source_records)
    Solicitation,   \* external ids of bids (solicitations), the second class
    Version,        \* deployable parser versions
    Fp,             \* normalized fingerprints
    Emits,          \* [Version -> [Content -> [Rec -> Fp \cup {None, Bad}]]]
    Throws,         \* [Version -> SUBSET Content]
    Backed,         \* <<v, c, x>>: version v reads x in c with evidence
    MaxActive,      \* bound: runs of this source in flight at once
    None, Bad

Rec == Permit \cup Solicitation

ASSUME SourceRunAssumption ==
    /\ Emits \in [Version -> [Content -> [Rec -> Fp \cup {None, Bad}]]]
    /\ Throws \in [Version -> SUBSET Content]
    /\ MaxActive \in Nat \ {0}
    /\ None \notin Fp \cup {Bad}
    /\ Bad \notin Fp
    /\ Permit \cap Solicitation = {}

VARIABLES
    now,          \* number of fetches so far; the retrieved_at clock
    store,        \* object store: contents held under raw/<source>/<sha256>
    rawArtifacts, \* rows of raw_artifacts
    records,      \* source_records and solicitations, by external id
    evidence,     \* evidence_items, as <<record, artifact id>>
    status,       \* source_runs.status of every run ("absent": no row yet)
    run,          \* the runSource processes
    replay        \* the replaySource process of the source

db   == <<store, rawArtifacts, records, evidence>>
vars == <<now, db, status, run, replay>>

ArtifactId == Url \X Content
IdOf(a)    == <<a.url, a.content>>
Stored     == {IdOf(a) : a \in rawArtifacts}

\* The records a parse of c by version v hands to the persist loop, and those
\* of them that pass the schema and the sourceKey guard.
Parsed(v, c)   == {x \in Rec : Emits[v][c][x] # None}
Accepted(v, c) == {x \in Rec : Emits[v][c][x] \in Fp}

InFlight == {"discover", "loop", "lookup", "insert", "parse", "persist", "write", "evidence"}
Active   == {r \in Run : run[r].pc \in InFlight}

IdleRun    == [pc |-> "idle", ver |-> None, todo |-> {}, url |-> None,
               content |-> None, at |-> 0, parsed |-> {}, rec |-> None, found |-> None,
               errs |-> FALSE]
EndedRun   == [IdleRun EXCEPT !.pc = "ended"]
IdleReplay == [pc |-> "idle", ver |-> None, todo |-> {}, art |-> None,
               parsed |-> {}, rec |-> None, found |-> None, errs |-> FALSE, quiet |-> FALSE]

Artifact == [url : Url, content : Content, at : Nat, run : Run, ver : Version]
RecRow   == [fp : Fp, art : ArtifactId, first : Nat, seen : Nat]

\* What the readers of a record row go by.
ReadersRow == [fp : Fp, art : ArtifactId, first : Nat]

ASSUME NoneIsNoRecord == None \notin RecRow \cup ReadersRow

RunState ==
    [pc : {"idle", "ended"} \cup InFlight, ver : Version \cup {None},
     todo : SUBSET Url, url : Url \cup {None}, content : Content \cup {None},
     at : Nat, parsed : SUBSET Rec, rec : Rec \cup {None}, found : Fp \cup {None},
     errs : BOOLEAN]
ReplayState ==
    [pc : {"idle", "loop", "persist", "write", "evidence"}, ver : Version \cup {None},
     todo : SUBSET Artifact, art : Artifact \cup {None}, parsed : SUBSET Rec,
     rec : Permit \cup {None}, found : Fp \cup {None}, errs : BOOLEAN, quiet : BOOLEAN]
Status == {"absent", "running", "succeeded", "completed_with_errors", "failed"}

TypeOK ==
    /\ now \in Nat
    /\ store \subseteq Content
    /\ rawArtifacts \subseteq Artifact
    /\ records \in [Rec -> RecRow \cup {None}]
    /\ evidence \subseteq (Permit \X ArtifactId)
    /\ status \in [Run -> Status]
    /\ run \in [Run -> RunState]
    /\ replay \in ReplayState

Init ==
    /\ now = 0
    /\ store = {}
    /\ rawArtifacts = {}
    /\ records = [x \in Rec |-> None]
    /\ evidence = {}
    /\ status = [r \in Run |-> "absent"]
    /\ run = [r \in Run |-> IdleRun]
    /\ replay = IdleReplay

--------------------------------------------------------------------------------
(* runSource.                                                               *)

\* The row is inserted as 'running'; the process keeps the parser it loaded,
\* which may be any version: a developer deploys when he likes.
StartRun(r, v) ==
    /\ status[r] = "absent"
    /\ Cardinality(Active) < MaxActive
    /\ status' = [status EXCEPT ![r] = "running"]
    /\ run' = [run EXCEPT ![r] = [IdleRun EXCEPT !.pc = "discover", !.ver = v]]
    /\ replay' = [replay EXCEPT !.quiet = FALSE]
    /\ UNCHANGED <<now, db>>

Discover(r) ==
    /\ run[r].pc = "discover"
    /\ \E items \in SUBSET Url : 
          run' = [run EXCEPT ![r] = [run[r] EXCEPT !.pc = "loop", !.todo = items]]
    /\ UNCHANGED <<now, db, status, replay>>

\* mutant: the catch forgets to count the error
EndItemUncounted(r, failed) ==
    run' = [run EXCEPT ![r] = [run[r] EXCEPT !.pc = "loop", !.url = None, !.content = None,
                                        !.at = 0, !.parsed = {}, !.rec = None, !.found = None]]

\* The end of one item: `continue`, the end of the loop body, or the catch.
EndItem(r, failed) ==
    run' = [run EXCEPT ![r] = [run[r] EXCEPT !.pc = "loop", !.url = None, !.content = None,
                                        !.at = 0, !.parsed = {}, !.rec = None,
                                        !.found = None, !.errs = @ \/ failed]]

\* mutant: the artifact row is written without the bytes
FetchItemNoPut(r, u, c) ==
    /\ run[r].pc = "loop"
    /\ u \in run[r].todo
    /\ now' = now + 1
    /\ run' = [run EXCEPT ![r] = [run[r] EXCEPT !.pc = "lookup", !.todo = @ \ {u},
                                           !.url = u, !.content = c, !.at = now + 1]]
    /\ UNCHANGED <<db, status, replay>>

\* fetch, then putImmutable: the page serves any content, and bytes already in
\* the store are never rewritten.
FetchItem(r, u, c) ==
    /\ run[r].pc = "loop"
    /\ u \in run[r].todo
    /\ now' = now + 1
    /\ store' = store \cup {c}
    /\ run' = [run EXCEPT ![r] = [run[r] EXCEPT !.pc = "lookup", !.todo = @ \ {u},
                                           !.url = u, !.content = c, !.at = now + 1]]
    /\ UNCHANGED <<rawArtifacts, records, evidence, status, replay>>

FetchFails(r, u) ==
    /\ run[r].pc = "loop"
    /\ u \in run[r].todo
    /\ run' = [run EXCEPT ![r] = [run[r] EXCEPT !.todo = @ \ {u}, !.errs = TRUE]]
    /\ UNCHANGED <<now, db, status, replay>>

\* This content was seen at this URL before: nothing is parsed; the records
\* whose raw_artifact_id is that artifact get a new last_seen_at (permits only:
\* the solicitations table is not touched).
UnchangedItem(r) ==
    LET id == <<run[r].url, run[r].content>>
    IN  /\ run[r].pc = "lookup"
        /\ id \in Stored
        /\ records' = [x \in Rec |->
                         IF x \in Permit /\ records[x] # None /\ records[x].art = id
                           THEN [records[x] EXCEPT !.seen = run[r].at]
                           ELSE records[x]]
        /\ EndItem(r, FALSE)
        /\ UNCHANGED <<now, store, rawArtifacts, evidence, status, replay>>

\* mutant: parse first, store the row of a new artifact never
NewItemUnrecorded(r) ==
    /\ run[r].pc = "lookup"
    /\ <<run[r].url, run[r].content>> \notin Stored
    /\ run' = [run EXCEPT ![r] = [run[r] EXCEPT !.pc = "parse"]]
    /\ UNCHANGED <<now, db, status, replay>>

NewItem(r) ==
    /\ run[r].pc = "lookup"
    /\ <<run[r].url, run[r].content>> \notin Stored
    /\ run' = [run EXCEPT ![r] = [run[r] EXCEPT !.pc = "insert"]]
    /\ UNCHANGED <<now, db, status, replay>>

\* The artifact row is written before anything is parsed.  (raw_artifacts has a
\* unique index on source, URL and hash: if another run inserted the same row
\* meanwhile the insert throws.)
InsertArtifact(r) ==
    /\ run[r].pc = "insert"
    /\ <<run[r].url, run[r].content>> \notin Stored
    /\ rawArtifacts' = rawArtifacts \cup
         {[url |-> run[r].url, content |-> run[r].content, at |-> run[r].at,
           run |-> r, ver |-> run[r].ver]}
    /\ run' = [run EXCEPT ![r] = [run[r] EXCEPT !.pc = "parse"]]
    /\ UNCHANGED <<now, store, records, evidence, status, replay>>

Parse(r) ==
    /\ run[r].pc = "parse"
    /\ run[r].content \notin Throws[run[r].ver]
    /\ run' = [run EXCEPT ![r] = [run[r] EXCEPT
                 !.pc = "persist", !.parsed = Parsed(run[r].ver, run[r].content)]]
    /\ UNCHANGED <<now, db, status, replay>>

\* One turn of the persist loop for a record that passes the guards: the
\* stored fingerprint is read ...
ReadRecord(r, x) ==
    /\ run[r].pc = "persist"
    /\ x \in run[r].parsed \cap Accepted(run[r].ver, run[r].content)
    /\ run' = [run EXCEPT ![r] = [run[r] EXCEPT
                 !.pc = "write", !.rec = x,
                 !.found = IF records[x] = None THEN None ELSE records[x].fp]]
    /\ UNCHANGED <<now, db, status, replay>>

FpOf(r) == Emits[run[r].ver][run[r].content][run[r].rec]

\* ... and decides what is written.  The same fingerprint: only last_seen_at
\* moves, raw_artifact_id stays.
Duplicate(r, x) ==
    /\ run[r].found = FpOf(r)
    /\ records' = [records EXCEPT ![x] = [records[x] EXCEPT !.seen = run[r].at]]
    /\ run' = [run EXCEPT ![r] = [run[r] EXCEPT !.pc = "persist", !.parsed = @ \ {x},
                                               !.rec = None, !.found = None]]

\* A permit's evidence comes in a statement of its own; a solicitation carries
\* its evidence in the row.
AfterWrite(r, x) ==
    run' = [run EXCEPT ![r] = [run[r] EXCEPT !.parsed = @ \ {x}, !.found = None,
                                             !.pc = IF x \in Permit THEN "evidence" ELSE "persist",
                                             !.rec = IF x \in Permit THEN x ELSE None]]

\* mutant: an amendment writes the whole row anew
UpdateAnew(r, x) ==
    /\ run[r].found \notin {None, FpOf(r)}
    /\ records' = [records EXCEPT ![x] =
         [fp |-> FpOf(r), art |-> <<run[r].url, run[r].content>>,
          first |-> run[r].at, seen |-> run[r].at]]
    /\ AfterWrite(r, x)

\* An amendment: the row that was read is rewritten, whatever it holds by now.
Update(r, x) ==
    /\ run[r].found \notin {None, FpOf(r)}
    /\ records' = [records EXCEPT ![x] =
         [records[x] EXCEPT !.fp = FpOf(r), !.art = <<run[r].url, run[r].content>>,
                            !.seen = run[r].at]]
    /\ AfterWrite(r, x)

\* First seen: the insert, which throws when another process inserted the row
\* meanwhile (source_records and solicitations are unique on source, external id).
Insert(r, x) ==
    /\ run[r].found = None
    /\ records[x] = None
    /\ records' = [records EXCEPT ![x] =
         [fp |-> FpOf(r), art |-> <<run[r].url, run[r].content>>,
          first |-> run[r].at, seen |-> run[r].at]]
    /\ AfterWrite(r, x)

WriteRecord(r) ==
    /\ run[r].pc = "write"
    /\ Duplicate(r, run[r].rec) \/ Update(r, run[r].rec) \/ Insert(r, run[r].rec)
    /\ UNCHANGED <<now, store, rawArtifacts, evidence, status, replay>>

\* A record that fails the schema is counted and skipped; nothing is written.
RejectRecord(r, x) ==
    /\ run[r].pc = "persist"
    /\ x \in run[r].parsed \ Accepted(run[r].ver, run[r].content)
    /\ run' = [run EXCEPT ![r] = [run[r] EXCEPT !.parsed = @ \ {x}]]
    /\ UNCHANGED <<now, db, status, replay>>

InsertEvidence(r) ==
    /\ run[r].pc = "evidence"
    /\ evidence' = IF <<run[r].ver, run[r].content, run[r].rec>> \in Backed
                     THEN evidence \cup {<<run[r].rec, <<run[r].url, run[r].content>>>>}
                     ELSE evidence
    /\ run' = [run EXCEPT ![r] = [run[r] EXCEPT !.pc = "persist", !.rec = None]]
    /\ UNCHANGED <<now, store, rawArtifacts, records, status, replay>>

\* Every record was handled; checkInvariants only reports.
CheckInvariants(r) ==
    /\ run[r].pc = "persist"
    /\ run[r].parsed = {}
    /\ EndItem(r, FALSE)
    /\ UNCHANGED <<now, db, status, replay>>

\* The catch around one item: the item is dead-lettered, what was written
\* before stays and the loop goes on.  The insert of a row another process has
\* inserted meanwhile throws, and so does the parse of some contents ...
ItemThrows(r) ==
    /\ \/ run[r].pc = "insert" /\ <<run[r].url, run[r].content>> \in Stored
       \/ run[r].pc = "parse"  /\ run[r].content \in Throws[run[r].ver]
       \/ run[r].pc = "write"  /\ run[r].found = None /\ records[run[r].rec] # None
    /\ EndItem(r, TRUE)
    /\ UNCHANGED <<now, db, status, replay>>

\* ... and a statement may hit a fault at any point of the item.
ItemFaults(r) ==
    /\ run[r].pc \in {"lookup", "insert", "parse", "persist", "write", "evidence"}
    /\ EndItem(r, TRUE)
    /\ UNCHANGED <<now, db, status, replay>>

\* The terminal write.
FinishRun(r) ==
    /\ run[r].pc = "loop"
    /\ run[r].todo = {}
    /\ status' = [status EXCEPT ![r] =
         IF run[r].errs THEN "completed_with_errors" ELSE "succeeded"]
    /\ run' = [run EXCEPT ![r] = EndedRun]
    /\ UNCHANGED <<now, db, replay>>

\* The outer catch: discover() threw, or the terminal write did.
FailRun(r) ==
    /\ run[r].pc = "discover" \/ (run[r].pc = "loop" /\ run[r].todo = {})
    /\ status' = [status EXCEPT ![r] = "failed"]
    /\ run' = [run EXCEPT ![r] = EndedRun]
    /\ UNCHANGED <<now, db, replay>>

\* The process dies (or the write of the outer catch throws too): the row
\* stays 'running' and whatever was written stays.
Crash(r) ==
    /\ run[r].pc \in InFlight
    /\ run' = [run EXCEPT ![r] = EndedRun]
    /\ UNCHANGED <<now, db, status, replay>>

--------------------------------------------------------------------------------
(* replaySource.                                                            *)

\* The artifacts are selected once, at the start.
StartReplay(v) ==
    /\ replay.pc = "idle"
    /\ replay' = [IdleReplay EXCEPT !.pc = "loop", !.ver = v,
                                    !.todo = rawArtifacts, !.quiet = (Active = {})]
    /\ UNCHANGED <<now, db, status, run>>

\* mutant: ORDER BY retrieved_at DESC
OldestLast(a) == \A b \in replay.todo : a.at >= b.at

\* ORDER BY retrieved_at ASC.
Oldest(a) == \A b \in replay.todo : a.at <= b.at

\* The stored bytes are read and parsed again with the current parser.
ReplayArtifact(a) ==
    /\ replay.pc = "loop"
    /\ a \in replay.todo
    /\ Oldest(a)
    /\ a.content \in store
    /\ a.content \notin Throws[replay.ver]
    /\ replay' = [replay EXCEPT !.pc = "persist", !.todo = @ \ {a}, !.art = a,
                                !.parsed = Parsed(replay.ver, a.content)]
    /\ UNCHANGED <<now, db, status, run>>

\* The bytes cannot be read, or the parser throws.
ReplayArtifactFails(a) ==
    /\ replay.pc = "loop"
    /\ a \in replay.todo
    /\ Oldest(a)
    /\ replay' = [replay EXCEPT !.todo = @ \ {a}, !.errs = TRUE]
    /\ UNCHANGED <<now, db, status, run>>

\* Only permits pass the replay's schema.  The stored fingerprint is read ...
ReplayRead(x) ==
    /\ replay.pc = "persist"
    /\ x \in replay.parsed \cap Accepted(replay.ver, replay.art.content) \cap Permit
    /\ replay' = [replay EXCEPT
         !.pc = "write", !.parsed = @ \ {x}, !.rec = x,
         !.found = IF records[x] = None THEN None ELSE records[x].fp]
    /\ UNCHANGED <<now, db, status, run>>

ReplayFp == Emits[replay.ver][replay.art.content][replay.rec]

\* ... and the row is rewritten if it differs (raw_artifact_id and last_seen_at
\* are left as they are), or inserted if there was none.
ReplayWrite ==
    /\ replay.pc = "write"
    /\ replay.found = None => records[replay.rec] = None
    /\ records' =
         IF replay.found = ReplayFp THEN records
         ELSE [records EXCEPT ![replay.rec] =
                 IF replay.found # None
                   THEN [records[replay.rec] EXCEPT !.fp = ReplayFp]
                   ELSE [fp |-> ReplayFp, art |-> IdOf(replay.art),
                         first |-> replay.art.at, seen |-> replay.art.at]]
    /\ replay' = [replay EXCEPT !.pc = "evidence"]
    /\ UNCHANGED <<now, store, rawArtifacts, evidence, status, run>>

ReplayReject(x) ==
    /\ replay.pc = "persist"
    /\ x \in replay.parsed \ (Accepted(replay.ver, replay.art.content) \cap Permit)
    /\ replay' = [replay EXCEPT !.parsed = @ \ {x}]
    /\ UNCHANGED <<now, db, status, run>>

HasEvidence(x) == \E id \in ArtifactId : <<x, id>> \in evidence

\* A record the replay inserted gets the evidence the parse came with, another
\* one only if it has none.  (The count and the insert are one step: evidence is kept as a set.)
ReplayEvidence ==
    /\ replay.pc = "evidence"
    /\ evidence' = IF \/ <<replay.ver, replay.art.content, replay.rec>> \notin Backed
                      \/ replay.found # None /\ HasEvidence(replay.rec)
                     THEN evidence
                     ELSE evidence \cup {<<replay.rec, IdOf(replay.art)>>}
    /\ replay' = [replay EXCEPT !.pc = "persist", !.rec = None, !.found = None]
    /\ UNCHANGED <<now, store, rawArtifacts, records, status, run>>

ReplayNext ==
    /\ replay.pc = "persist"
    /\ replay.parsed = {}
    /\ replay' = [replay EXCEPT !.pc = "loop", !.art = None]
    /\ UNCHANGED <<now, db, status, run>>

\* The catch around one artifact, in the middle of its records.
ReplayItemFails ==
    /\ replay.pc \in {"persist", "write", "evidence"}
    /\ replay' = [replay EXCEPT !.pc = "loop", !.art = None, !.parsed = {},
                                !.rec = None, !.found = None, !.errs = TRUE]
    /\ UNCHANGED <<now, db, status, run>>

FinishReplay ==
    /\ replay.pc = "loop"
    /\ replay.todo = {}
    /\ replay' = IdleReplay
    /\ UNCHANGED <<now, db, status, run>>

CrashReplay ==
    /\ replay.pc # "idle"
    /\ replay' = IdleReplay
    /\ UNCHANGED <<now, db, status, run>>

--------------------------------------------------------------------------------
\* What a run does while nothing outside the program fails ...
RunProgress(r) ==
    \/ Discover(r)
    \/ \E u \in Url, c \in Content : FetchItem(r, u, c)
    \/ UnchangedItem(r) \/ NewItem(r) \/ InsertArtifact(r) \/ Parse(r)
    \/ \E x \in Rec : ReadRecord(r, x) \/ RejectRecord(r, x)
    \/ WriteRecord(r) \/ InsertEvidence(r) \/ CheckInvariants(r) \/ ItemThrows(r)
    \/ FinishRun(r)

\* ... and what may go wrong.
RunFault(r) ==
    \/ \E u \in Url : FetchFails(r, u)
    \/ ItemFaults(r) \/ FailRun(r) \/ Crash(r)

ReplayProgress ==
    \/ \E a \in replay.todo : ReplayArtifact(a)
    \/ \E x \in Rec : ReplayRead(x) \/ ReplayReject(x)
    \/ ReplayWrite \/ ReplayEvidence \/ ReplayNext \/ FinishReplay

ReplayFault ==
    \/ \E a \in replay.todo : ReplayArtifactFails(a)
    \/ ReplayItemFails \/ CrashReplay

Next ==
    \/ \E r \in Run, v \in Version : StartRun(r, v)
    \/ \E r \in Run : RunProgress(r) \/ RunFault(r)
    \/ \E v \in Version : StartReplay(v)
    \/ ReplayProgress \/ ReplayFault

Spec == Init /\ [][Next]_vars

--------------------------------------------------------------------------------
(* Safety.                                                                  *)

\* "Immutable storage BEFORE parsing": whatever crashes, a raw_artifacts row
\* never points at bytes the object store does not hold, so every row can be
\* replayed.
BytesBehindRows == \A a \in rawArtifacts : a.content \in store

\* A record is never left without its source: its raw_artifact_id is a stored
\* artifact, and its content is what some parser version reads in the bytes of
\* some stored artifact (after a replay, not always the one it points to).
RecordDerivable ==
    \A x \in Rec : records[x] # None =>
        /\ records[x].art \in Stored
        /\ \E a \in rawArtifacts, v \in Version : Emits[v][a.content][x] = records[x].fp

\* No silent loss: when the ledger says a run succeeded, every record that its
\* parser accepted in every artifact it stored is in the database.  Faults,
\* crashes, overlapping runs and replays may come in between.
SucceededMeansPersisted ==
    \A r \in Run : status[r] = "succeeded" =>
        \A a \in rawArtifacts : a.run = r =>
            \A x \in Accepted(a.ver, a.content) : records[x] # None

\* The stored artifacts in which parser version v reads permit x.
Mentions(v, x) == {a \in rawArtifacts : x \in Accepted(v, a.content)}

\* A replay that no run disturbed and no artifact failed leaves every permit
\* as the current parser reads it in the newest artifact that mentions it, and
\* with evidence where that artifact gives any: it repairs what crashes and
\* dead letters left behind.
ReplayConverges ==
    replay.pc = "loop" /\ replay.todo = {} /\ replay.quiet /\ ~replay.errs =>
        \A x \in Permit : \A a \in Mentions(replay.ver, x) :
            (\A b \in Mentions(replay.ver, x) : b.at <= a.at) =>
                /\ records[x] # None
                /\ records[x].fp = Emits[replay.ver][a.content][x]
                /\ <<replay.ver, a.content, x>> \in Backed => HasEvidence(x)

\* Who wrote a row, when and with which version, and when a record was last
\* seen, is not the readers' business.
Filed    == {[url |-> a.url, content |-> a.content, at |-> a.at] : a \in rawArtifacts}
Entered  == [x \in Rec |-> IF records[x] = None THEN None
                           ELSE [fp |-> records[x].fp, art |-> records[x].art,
                                 first |-> records[x].first]]
Readable == [x \in Rec |-> [c \in Content |-> {Emits[v][c][x] : v \in Version} \cap Fp]]

\* Overlapping runs and a replay, none of which uses a transaction, and which
\* stop anywhere, leave the tables as SourceStore promises: bytes before rows,
\* one row a fetch, a record dated by the artifact it was entered from and
\* never redated, entered twice or lost, and no evidence before its record.
Tables == INSTANCE SourceStore WITH
    Page <- Url, Body <- Content, Item <- Rec, Readings <- Readable,
    clock <- now, bytes <- store, artifacts <- Filed, entries <- Entered, cited <- evidence
TablesAreKept == Tables!Spec

--------------------------------------------------------------------------------
(* What the documents say and the code does not do.                         *)

\* No run failed at anything at all.
AllClean == \A r \in Run : run[r].pc = "ended" => status[r] = "succeeded"

\* docs/data-dictionary.md: source_records is the "current normalized view" of
\* an external record.  When the shortcut is taken on an artifact this parser
\* has parsed, the records in it should carry what it says.
UnchangedMeansCurrent ==
    [][\A r \in Run : UnchangedItem(r) /\ AllClean =>
          \A a \in rawArtifacts :
              IdOf(a) = <<run[r].url, run[r].content>> /\ a.ver = run[r].ver =>
                  \A x \in Accepted(a.ver, a.content) :
                      records[x] # None => records[x].fp = Emits[a.ver][a.content][x]]_vars
================================================================================
