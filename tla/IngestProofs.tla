----------------------------- MODULE IngestProofs -----------------------------
(***************************************************************************)
(* Proofs about the two parts of a source, for every value of their         *)
(* constants.  About SourceRun: types, the artifact-first discipline        *)
(* (BytesBehindRows), the provenance of records (RecordDerivable), the      *)
(* absence of silent loss (SucceededMeansPersisted), what an undisturbed    *)
(* replay repairs (ReplayConverges), and that the tables are kept as        *)
(* SourceStore promises (TablesAreKept).  About Feeds: that nothing falls   *)
(* out of the window of the next run (NothingSkipped).                      *)
(***************************************************************************)
EXTENDS SourceRun, Feeds, FiniteSetTheorems, NaturalsInduction, WellFoundedInduction, TLAPS

AtItem  == {"lookup", "insert", "parse", "persist", "write", "evidence"}
Owned == {"parse", "persist", "write", "evidence"}

\* What the program counter says of a run's own variables: the version was
\* loaded at the start, a fetched item is in the object store, an item that is
\* being parsed has its artifact row, and a record about to be written was
\* accepted and, if a row was read, is still in the database.
Sound(r) ==
    /\ run[r].pc \in InFlight => run[r].ver \in Version
    /\ run[r].pc \in AtItem => /\ run[r].url \in Url
                             /\ run[r].content \in Content
                             /\ run[r].content \in store
    /\ run[r].pc \in Owned => <<run[r].url, run[r].content>> \in Stored
    /\ run[r].pc = "write" =>
          /\ run[r].rec \in Accepted(run[r].ver, run[r].content)
          /\ run[r].found # None => records[run[r].rec] # None
    /\ run[r].pc = "evidence" => run[r].rec \in Permit

RunShape == \A r \in Run : Sound(r)

\* A replay works on rows that are still there: nothing deletes an artifact.
ReplayShape ==
    /\ replay.pc # "idle" => replay.ver \in Version
    /\ replay.todo \subseteq rawArtifacts
    /\ replay.pc \in {"persist", "write", "evidence"} => replay.art \in rawArtifacts
    /\ replay.pc = "write" =>
          /\ replay.rec \in Accepted(replay.ver, replay.art.content)
          /\ replay.found # None => records[replay.rec] # None
    /\ replay.pc \in {"write", "evidence"} => replay.rec \in Permit

Shape == TypeOK /\ RunShape /\ ReplayShape

\* Nothing the steps of this system do takes an artifact, a byte or a record
\* away.
Grows == /\ rawArtifacts \subseteq rawArtifacts'
         /\ store \subseteq store'
         /\ \A x \in Rec : records[x] # None => records'[x] # None

--------------------------------------------------------------------------------
(* Lemmas about the state and the parse.                                    *)

\* Every accepted record is among those handed to the persist loop, and its
\* fingerprint is a fingerprint.
LEMMA AcceptedParsed ==
    ASSUME NEW v \in Version, NEW c \in Content
    PROVE  /\ Accepted(v, c) \subseteq Parsed(v, c)
           /\ \A x \in Accepted(v, c) : Emits[v][c][x] \in Fp
BY SourceRunAssumption DEF Accepted, Parsed

\* A larger table stores what a smaller one stores.
LEMMA StoredGrows ==
    ASSUME rawArtifacts \subseteq rawArtifacts'
    PROVE  Stored \subseteq Stored'
BY DEF Stored, IdOf

\* A record that is left alone, or that is read from a stored artifact, is
\* derivable.
LEMMA DerivableKept ==
    ASSUME RecordDerivable, rawArtifacts \subseteq rawArtifacts',
           \A x \in Rec : records'[x] # None =>
               \/ /\ records[x] # None
                  /\ records'[x].fp = records[x].fp
                  /\ records'[x].art = records[x].art
               \/ /\ \/ records'[x].art \in Stored'
                     \/ records[x] # None /\ records'[x].art = records[x].art
                  /\ \E a \in rawArtifacts', v \in Version :
                        Emits[v][a.content][x] = records'[x].fp
    PROVE  RecordDerivable'
BY StoredGrows DEF RecordDerivable

\* A replay changes no run, fetches nothing and stores no artifact.
LEMMA ReplayStep ==
  ASSUME ReplayProgress \/ ReplayFault \/ \E v \in Version : StartReplay(v)
  PROVE  UNCHANGED <<now, store, rawArtifacts, status, run>>
BY DEF ReplayProgress, ReplayFault, StartReplay, ReplayArtifact, ReplayRead, ReplayWrite, ReplayReject,
       ReplayEvidence, ReplayNext, FinishReplay, ReplayArtifactFails, ReplayItemFails,
       CrashReplay, db

\* A step of a run leaves the replay alone (a replay that is at work only learns
\* of a new run from StartRun).
LEMMA RunStep ==
  ASSUME NEW r \in Run, RunProgress(r) \/ RunFault(r)
  PROVE  UNCHANGED replay
BY DEF RunProgress, RunFault, Discover, FetchItem, UnchangedItem, NewItem, InsertArtifact, Parse,
       ReadRecord, WriteRecord, RejectRecord, InsertEvidence, CheckInvariants, ItemThrows, FinishRun,
       FetchFails, ItemFaults, FailRun, Crash

\* The variables of the runs keep their types.
LEMMA RunTyped ==
  ASSUME TypeOK, RunShape, Next
  PROVE  run' \in [Run -> RunState]
<1> USE DEF TypeOK
<1>1. ASSUME NEW r \in Run, NEW v \in Version, StartRun(r, v)
      PROVE  run' \in [Run -> RunState]
  BY <1>1 DEF StartRun, IdleRun, RunState, InFlight
<1>2. ASSUME NEW r \in Run, RunProgress(r)
      PROVE  run' \in [Run -> RunState]
  <2>0. run[r] \in RunState
    OBVIOUS
  <2>1. CASE Discover(r)
    <3>1. PICK items \in SUBSET Url :
            run' = [run EXCEPT ![r] = [run[r] EXCEPT !.pc = "loop", !.todo = items]]
      BY <2>1 DEF Discover
    <3> QED BY <2>0, <3>1 DEF RunState, InFlight
  <2>2. ASSUME NEW u \in Url, NEW c \in Content, FetchItem(r, u, c)
        PROVE  run' \in [Run -> RunState]
    <3>1. now + 1 \in Nat
      OBVIOUS
    <3>2. run[r].todo \ {u} \in SUBSET Url
      BY <2>0 DEF RunState
    <3> QED BY <2>0, <2>2, <3>1, <3>2 DEF FetchItem, RunState, InFlight
  <2>3. CASE UnchangedItem(r) \/ CheckInvariants(r) \/ ItemThrows(r)
    <3>1. PICK failed \in BOOLEAN : EndItem(r, failed)
      BY <2>3 DEF UnchangedItem, CheckInvariants, ItemThrows
    <3>2. (run[r].errs \/ failed) \in BOOLEAN
      OBVIOUS
    <3> QED BY <2>0, <3>1, <3>2 DEF EndItem, RunState, InFlight
  <2>4. CASE NewItem(r)
    BY <2>0, <2>4 DEF NewItem, RunState, InFlight
  <2>5. CASE InsertArtifact(r)
    BY <2>0, <2>5 DEF InsertArtifact, RunState, InFlight
  <2>6. CASE Parse(r)
    BY <2>0, <2>6 DEF Parse, Parsed, RunState, InFlight
  <2>7. CASE WriteRecord(r)
    <3>0. run[r].rec \in Rec
      BY <2>7 DEF WriteRecord, RunShape, Sound, Accepted
    <3>1. CASE Duplicate(r, run[r].rec)
      BY <2>0, <3>1 DEF Duplicate, RunState, InFlight
    <3>2. CASE AfterWrite(r, run[r].rec)
      <4>1. CASE run[r].rec \in Permit
        <5>1. run' = [run EXCEPT ![r] = [run[r] EXCEPT
                !.parsed = @ \ {run[r].rec}, !.found = None, !.pc = "evidence",
                !.rec = run[r].rec]]
          BY <3>2, <4>1 DEF AfterWrite
        <5> QED BY <2>0, <3>0, <5>1 DEF RunState, InFlight
      <4>2. CASE run[r].rec \notin Permit
        <5>1. run' = [run EXCEPT ![r] = [run[r] EXCEPT
                !.parsed = @ \ {run[r].rec}, !.found = None, !.pc = "persist",
                !.rec = None]]
          BY <3>2, <4>2 DEF AfterWrite
        <5> QED BY <2>0, <5>1 DEF RunState, InFlight
      <4> QED BY <4>1, <4>2
    <3> QED BY <2>7, <3>1, <3>2 DEF WriteRecord, Update, Insert
  <2>11. ASSUME NEW x \in Rec, ReadRecord(r, x)
         PROVE  run' \in [Run -> RunState]
    <3>1. (IF records[x] = None THEN None ELSE records[x].fp) \in Fp \cup {None}
      BY DEF RecRow
    <3> QED BY <2>0, <2>11, <3>1 DEF ReadRecord, RunState, InFlight
  <2>8. ASSUME NEW x \in Rec, RejectRecord(r, x)
        PROVE  run' \in [Run -> RunState]
    BY <2>0, <2>8 DEF RejectRecord, RunState
  <2>9. CASE InsertEvidence(r)
    BY <2>0, <2>9 DEF InsertEvidence, RunState, InFlight
  <2>10. CASE FinishRun(r)
    BY <2>10 DEF FinishRun, EndedRun, IdleRun, RunState
  <2> QED BY <1>2, <2>1, <2>2, <2>3, <2>4, <2>5, <2>6, <2>7, <2>8, <2>9, <2>10,
             <2>11 DEF RunProgress
<1>3. ASSUME NEW r \in Run, RunFault(r)
      PROVE  run' \in [Run -> RunState]
  <2>0. run[r] \in RunState
    OBVIOUS
  <2>1. ASSUME NEW u \in Url, FetchFails(r, u)
        PROVE  run' \in [Run -> RunState]
    BY <2>0, <2>1 DEF FetchFails, RunState
  <2>2. CASE ItemFaults(r)
    BY <2>0, <2>2 DEF ItemFaults, EndItem, RunState, InFlight
  <2>3. CASE FailRun(r) \/ Crash(r)
    <3>1. run' = [run EXCEPT ![r] = EndedRun]
      BY <2>3 DEF FailRun, Crash
    <3> QED BY <3>1 DEF EndedRun, IdleRun, RunState
  <2> QED BY <1>3, <2>1, <2>2, <2>3 DEF RunFault
<1> QED BY <1>1, <1>2, <1>3, ReplayStep DEF Next

\* The variables of the replay keep their types.
LEMMA ReplayTyped ==
  ASSUME TypeOK, ReplayShape, Next
  PROVE  replay' \in ReplayState
<1> USE DEF TypeOK
<1>0. replay \in ReplayState
  OBVIOUS
<1>1. ASSUME NEW v \in Version, StartReplay(v)
      PROVE  replay' \in ReplayState
  BY <1>1 DEF StartReplay, IdleReplay, ReplayState
<1>2. ASSUME NEW r \in Run, NEW v \in Version, StartRun(r, v)
      PROVE  replay' \in ReplayState
  BY <1>0, <1>2 DEF StartRun, ReplayState
<1>3. ASSUME NEW a \in replay.todo, ReplayArtifact(a) \/ ReplayArtifactFails(a)
      PROVE  replay' \in ReplayState
  <2>1. CASE ReplayArtifact(a)
    BY <1>0, <2>1 DEF ReplayArtifact, Parsed, ReplayState
  <2>2. CASE ReplayArtifactFails(a)
    BY <1>0, <2>2 DEF ReplayArtifactFails, ReplayState
  <2> QED BY <1>3, <2>1, <2>2
<1>9. CASE ReplayWrite
  BY <1>0, <1>9 DEF ReplayWrite, ReplayState
<1>4. ASSUME NEW x \in Rec, ReplayRead(x) \/ ReplayReject(x)
      PROVE  replay' \in ReplayState
  <2>1. CASE ReplayRead(x)
    <3>1. (IF records[x] = None THEN None ELSE records[x].fp) \in Fp \cup {None}
      BY DEF RecRow
    <3> QED BY <1>0, <2>1, <3>1 DEF ReplayRead, ReplayState
  <2>2. CASE ReplayReject(x)
    BY <1>0, <2>2 DEF ReplayReject, ReplayState
  <2> QED BY <1>4, <2>1, <2>2
<1>5. CASE ReplayEvidence
  BY <1>0, <1>5 DEF ReplayEvidence, ReplayState
<1>6. CASE ReplayNext
  BY <1>0, <1>6 DEF ReplayNext, ReplayState
<1>7. CASE ReplayItemFails
  BY <1>0, <1>7 DEF ReplayItemFails, ReplayState
<1>8. CASE FinishReplay \/ CrashReplay
  <2>1. replay' = IdleReplay
    BY <1>8 DEF FinishReplay, CrashReplay
  <2> QED BY <2>1 DEF IdleReplay, ReplayState
<1> QED BY <1>0, <1>1, <1>2, <1>3, <1>4, <1>5, <1>6, <1>7, <1>8, <1>9, RunStep
        DEF Next, ReplayProgress, ReplayFault

\* The write of the persist loop, whichever of the three it is, leaves the record
\* it handled in the database and every other record alone.
LEMMA WriteStores ==
  ASSUME TypeOK, RunShape, NEW r \in Run, WriteRecord(r)
  PROVE  /\ run[r].rec \in Accepted(run[r].ver, run[r].content)
         /\ records' \in [Rec -> RecRow \cup {None}]
         /\ records'[run[r].rec] \in RecRow
         /\ \A y \in Rec \ {run[r].rec} : records'[y] = records[y]
<1> USE DEF TypeOK
<1> DEFINE x == run[r].rec
<1>1. /\ x \in Accepted(run[r].ver, run[r].content)
      /\ x \in Rec
      /\ FpOf(r) \in Fp
      /\ <<run[r].url, run[r].content>> \in ArtifactId
      /\ run[r].at \in Nat
      /\ run[r].found # None => records[x] \in RecRow
  BY DEF WriteRecord, RunShape, Sound, InFlight, AtItem, RunState, ArtifactId, Accepted, FpOf
<1>2. CASE Duplicate(r, x)
  <2>1. run[r].found # None
    BY <1>1, <1>2, SourceRunAssumption DEF Duplicate
  <2> QED BY <1>1, <1>2, <2>1 DEF Duplicate, RecRow
<1>3. CASE Update(r, x)
  BY <1>1, <1>3 DEF Update, RecRow
<1>4. CASE Insert(r, x)
  BY <1>1, <1>4 DEF Insert, RecRow
<1> QED BY <1>1, <1>2, <1>3, <1>4 DEF WriteRecord

\* So does the write of a replay.
LEMMA ReplayStores ==
  ASSUME TypeOK, ReplayShape, ReplayWrite
  PROVE  /\ replay.rec \in Permit
         /\ replay.art \in rawArtifacts
         /\ records' \in [Rec -> RecRow \cup {None}]
         /\ records'[replay.rec] \in RecRow
         /\ \A y \in Rec \ {replay.rec} : records'[y] = records[y]
<1> USE DEF TypeOK
<1>1. /\ replay.rec \in Permit
      /\ replay.rec \in Rec
      /\ replay.art \in rawArtifacts
      /\ replay.art \in Artifact
      /\ ReplayFp \in Fp
      /\ replay.found # None => records[replay.rec] \in RecRow
  BY DEF ReplayWrite, ReplayShape, Accepted, ReplayFp, Rec
<1>2. CASE replay.found = ReplayFp
  BY <1>1, <1>2, SourceRunAssumption DEF ReplayWrite
<1>3. CASE replay.found # ReplayFp /\ replay.found # None
  BY <1>1, <1>3 DEF ReplayWrite, RecRow
<1>4. CASE replay.found # ReplayFp /\ replay.found = None
  BY <1>1, <1>4 DEF ReplayWrite, RecRow, Artifact, ArtifactId, IdOf
<1> QED BY <1>1, <1>2, <1>3, <1>4

\* So do the clock, the object store, the artifacts and the ledger ...
LEMMA TablesTyped ==
  ASSUME TypeOK, RunShape, ReplayShape, Next
  PROVE  /\ now' \in Nat
         /\ store' \subseteq Content
         /\ rawArtifacts' \subseteq Artifact
         /\ status' \in [Run -> Status]
<1> USE DEF TypeOK
<1> DEFINE Goal == /\ now' \in Nat
                   /\ store' \subseteq Content
                   /\ rawArtifacts' \subseteq Artifact
                   /\ status' \in [Run -> Status]
<1>1. ASSUME NEW r \in Run, NEW v \in Version, StartRun(r, v)
      PROVE  Goal
  BY <1>1 DEF StartRun, Status, db
<1>2. ASSUME NEW r \in Run, RunProgress(r)
      PROVE  Goal
  <2>1. ASSUME NEW u \in Url, NEW c \in Content, FetchItem(r, u, c)
        PROVE  Goal
    BY <2>1 DEF FetchItem
  <2>2. CASE InsertArtifact(r)
    <3>1. run[r] \in RunState /\ run[r].ver \in Version /\ run[r].url \in Url /\ run[r].content \in Content
      BY <2>2 DEF InsertArtifact, RunShape, Sound, InFlight, AtItem
    <3> QED BY <2>2, <3>1 DEF InsertArtifact, Artifact, RunState
  <2>3. CASE FinishRun(r)
    BY <2>3 DEF FinishRun, Status, db
  <2>4. CASE Discover(r) \/ UnchangedItem(r) \/ NewItem(r) \/ Parse(r)
               \/ (\E x \in Rec : ReadRecord(r, x) \/ RejectRecord(r, x))
               \/ WriteRecord(r) \/ InsertEvidence(r) \/ CheckInvariants(r) \/ ItemThrows(r)
    BY <2>4 DEF Discover, UnchangedItem, NewItem, Parse, ReadRecord, WriteRecord,
                RejectRecord, InsertEvidence, CheckInvariants, ItemThrows, db
  <2> QED BY <1>2, <2>1, <2>2, <2>3, <2>4 DEF RunProgress
<1>3. ASSUME NEW r \in Run, RunFault(r)
      PROVE  Goal
  BY <1>3 DEF RunFault, FetchFails, ItemFaults, FailRun, Crash, Status, db
<1> QED BY <1>1, <1>2, <1>3, ReplayStep DEF Next

\* ... and the records with their evidence: whatever is written was accepted, so
\* it has a fingerprint, and comes from an artifact.
LEMMA RecordsTyped ==
  ASSUME TypeOK, RunShape, ReplayShape, Next
  PROVE  /\ records' \in [Rec -> RecRow \cup {None}]
         /\ evidence' \subseteq (Permit \X ArtifactId)
<1> USE DEF TypeOK
<1> DEFINE Goal == /\ records' \in [Rec -> RecRow \cup {None}]
                   /\ evidence' \subseteq (Permit \X ArtifactId)
<1>1. ASSUME NEW r \in Run, UnchangedItem(r)
      PROVE  Goal
  <2>1. run[r].at \in Nat
    BY DEF RunState
  <2> QED BY <1>1, <2>1 DEF UnchangedItem, RecRow
<1>2. ASSUME NEW r \in Run, WriteRecord(r)
      PROVE  Goal
  BY <1>2, WriteStores DEF WriteRecord
<1>3. ASSUME NEW r \in Run, InsertEvidence(r)
      PROVE  Goal
  BY <1>3 DEF InsertEvidence, RunShape, Sound, AtItem, ArtifactId
<1>4. CASE ReplayWrite
  BY <1>4, ReplayStores DEF ReplayWrite
<1>5. CASE ReplayEvidence
  BY <1>5 DEF ReplayEvidence, ReplayShape, Artifact, ArtifactId, IdOf
<1>6. CASE UNCHANGED <<records, evidence>>
  BY <1>6
<1> QED BY <1>1, <1>2, <1>3, <1>4, <1>5, <1>6 DEF Next, RunProgress, RunFault,
  ReplayProgress, ReplayFault, StartRun, Discover, FetchItem, FetchFails, NewItem, InsertArtifact,
  Parse, ReadRecord, RejectRecord, CheckInvariants, ItemThrows, ItemFaults, FinishRun, FailRun,
  Crash, StartReplay, ReplayArtifact, ReplayArtifactFails, ReplayRead, ReplayReject, ReplayNext, ReplayItemFails,
  FinishReplay, CrashReplay, db

\* No step takes an artifact, a byte or a record away.
LEMMA Growth ==
  ASSUME TypeOK, RunShape, ReplayShape, Next
  PROVE  Grows
<1> USE DEF TypeOK, Grows
<1>1. ASSUME NEW r \in Run, NEW v \in Version, StartRun(r, v)
      PROVE  Grows
  BY <1>1 DEF StartRun, db
<1>2. ASSUME NEW r \in Run, RunProgress(r)
      PROVE  Grows
  <2>1. CASE UnchangedItem(r)
    <3>1. ASSUME NEW x \in Rec, records[x] # None
          PROVE  records'[x] # None
      <4>1. [records[x] EXCEPT !.seen = run[r].at] \in RecRow
        BY <3>1 DEF RecRow, RunState
      <4> QED BY <2>1, <3>1, <4>1, NoneIsNoRecord DEF UnchangedItem
    <3> QED BY <2>1, <3>1 DEF UnchangedItem
  <2>2. CASE WriteRecord(r)
    BY <2>2, WriteStores, NoneIsNoRecord DEF WriteRecord
  <2> QED BY <1>2, <2>1, <2>2
        DEF RunProgress, Discover, FetchItem, NewItem, InsertArtifact, Parse, ReadRecord,
            RejectRecord, InsertEvidence, CheckInvariants, ItemThrows, FinishRun, db
<1>3. ASSUME NEW r \in Run, RunFault(r)
      PROVE  Grows
  BY <1>3 DEF RunFault, FetchFails, ItemFaults, FailRun, Crash, db
<1>4. CASE ReplayProgress \/ ReplayFault \/ \E v \in Version : StartReplay(v)
  <2>1. CASE ReplayWrite
    BY <2>1, ReplayStores, NoneIsNoRecord DEF ReplayWrite
  <2> QED BY <1>4, <2>1 DEF ReplayProgress, ReplayFault, StartReplay, ReplayArtifact, ReplayRead,
       ReplayReject, ReplayEvidence, ReplayNext, FinishReplay, ReplayArtifactFails, ReplayItemFails,
       CrashReplay, db
<1> QED BY <1>1, <1>2, <1>3, <1>4 DEF Next

\* RunShape is kept: the stepping run by its own action, the others because what
\* they refer to is never taken away.
LEMMA RunShapeStep ==
  ASSUME TypeOK, RunShape, ReplayShape, Next
  PROVE  RunShape'
<1> USE DEF Sound
<1>0. store \subseteq store' /\ Stored \subseteq Stored'
  BY Growth, StoredGrows DEF Grows
<1>a. ASSUME NEW s \in Run, run'[s] = run[s]
      PROVE  Sound(s)'
  <2>1. run[s].pc = "write" => run[s].rec \in Rec
    BY DEF RunShape, Accepted
  <2> QED BY <1>0, <1>a, <2>1, Growth DEF RunShape, Grows
<1>b. ASSUME NEW r \in Run, Sound(r)', \A s \in Run : s # r => run'[s] = run[s]
      PROVE  RunShape'
  BY <1>a, <1>b DEF RunShape
<1>1. ASSUME NEW r \in Run, NEW v \in Version, StartRun(r, v)
      PROVE  RunShape'
  <2>1. Sound(r)'
    BY <1>1 DEF StartRun, IdleRun, AtItem, Owned, TypeOK
  <2> QED BY <1>1, <1>b, <2>1 DEF StartRun, TypeOK
<1>2. ASSUME NEW r \in Run, RunProgress(r) \/ RunFault(r)
      PROVE  RunShape'
  <2>0. Sound(r) /\ run[r] \in RunState /\ run \in [Run -> RunState]
    BY DEF RunShape, TypeOK
  <2>1. CASE Discover(r)
    <3>1. \A s \in Run : s # r => run'[s] = run[s]
      BY <2>0, <2>1 DEF Discover
    <3>2. Sound(r)'
      BY <2>0, <2>1, <1>0 DEF Discover, AtItem, Owned, InFlight, RunState
    <3> QED BY <1>b, <3>1, <3>2
  <2>2. ASSUME NEW u \in Url, NEW c \in Content, FetchItem(r, u, c)
        PROVE  RunShape'
    <3>1. \A s \in Run : s # r => run'[s] = run[s]
      BY <2>0, <2>2 DEF FetchItem, FetchItem
    <3>2. Sound(r)'
      BY <2>0, <2>2, <1>0 DEF FetchItem, AtItem, Owned, InFlight, RunState
    <3> QED BY <1>b, <3>1, <3>2
  <2>12. ASSUME NEW u \in Url, FetchFails(r, u)
        PROVE  RunShape'
    <3>1. \A s \in Run : s # r => run'[s] = run[s]
      BY <2>0, <2>12 DEF FetchFails
    <3>2. Sound(r)'
      BY <2>0, <2>12, <1>0 DEF FetchFails, AtItem, Owned, InFlight, RunState
    <3> QED BY <1>b, <3>1, <3>2
  <2>3. ASSUME NEW failed \in BOOLEAN, EndItem(r, failed), run[r].pc \in InFlight
        PROVE  RunShape'
    BY <1>b, <2>0, <2>3 DEF EndItem, AtItem, Owned, InFlight, RunState
  <2>4. CASE NewItem(r)
    <3>1. \A s \in Run : s # r => run'[s] = run[s]
      BY <2>0, <2>4 DEF NewItem
    <3>2. Sound(r)'
      BY <2>0, <2>4, <1>0 DEF NewItem, AtItem, Owned, InFlight, RunState
    <3> QED BY <1>b, <3>1, <3>2
  <2>5. CASE InsertArtifact(r)
    <3>1. <<run[r].url, run[r].content>> \in Stored'
      <4> DEFINE a == [url |-> run[r].url, content |-> run[r].content, at |-> run[r].at,
                       run |-> r, ver |-> run[r].ver]
      <4>1. a \in rawArtifacts' /\ IdOf(a) = <<run[r].url, run[r].content>>
        BY <2>5 DEF InsertArtifact, IdOf
      <4> QED BY <4>1 DEF Stored
    <3> QED BY <1>b, <1>0, <2>0, <2>5, <3>1 DEF InsertArtifact, AtItem, Owned, InFlight, RunState
  <2>6. CASE Parse(r)
    BY <1>b, <1>0, <2>0, <2>6 DEF Parse, AtItem, Owned, InFlight, RunState
  <2>7. CASE WriteRecord(r)
    <3>0. run[r].pc = "write"
      BY <2>7 DEF WriteRecord
    <3>1. CASE Duplicate(r, run[r].rec)
      BY <1>b, <1>0, <2>0, <3>0, <3>1 DEF Duplicate, AtItem, Owned, InFlight, RunState
    <3>2. CASE AfterWrite(r, run[r].rec)
      BY <1>b, <1>0, <2>0, <3>0, <3>2 DEF AfterWrite, AtItem, Owned, InFlight, RunState
    <3> QED BY <2>7, <3>1, <3>2 DEF WriteRecord, Update, Insert
  <2>13. ASSUME NEW x \in Rec, ReadRecord(r, x)
         PROVE  RunShape'
    <3>1. \A s \in Run : s # r => run'[s] = run[s]
      BY <2>0, <2>13 DEF ReadRecord
    <3>2. Sound(r)'
      BY <1>0, <2>0, <2>13 DEF ReadRecord, AtItem, Owned, InFlight, RunState, Accepted, db
    <3> QED BY <1>b, <3>1, <3>2
  <2>8. ASSUME NEW x \in Rec, RejectRecord(r, x)
        PROVE  RunShape'
    BY <1>b, <1>0, <2>0, <2>8 DEF RejectRecord, AtItem, Owned, InFlight, RunState
  <2>9. CASE InsertEvidence(r)
    BY <1>b, <1>0, <2>0, <2>9 DEF InsertEvidence, AtItem, Owned, InFlight, RunState
  <2>10. CASE FinishRun(r) \/ FailRun(r) \/ Crash(r)
    <3>1. run' = [run EXCEPT ![r] = EndedRun]
      BY <2>10 DEF FinishRun, FailRun, Crash
    <3> QED BY <1>b, <2>0, <3>1 DEF EndedRun, IdleRun, AtItem, Owned, InFlight
  <2>11. CASE UnchangedItem(r) \/ CheckInvariants(r) \/ ItemThrows(r) \/ ItemFaults(r)
    <3>1. run[r].pc \in InFlight /\ \E failed \in BOOLEAN : EndItem(r, failed)
      BY <2>11 DEF UnchangedItem, CheckInvariants, ItemThrows, ItemFaults, InFlight
    <3> QED BY <2>3, <3>1
  <2> QED BY <1>2, <2>1, <2>2, <2>4, <2>5, <2>6, <2>7, <2>8, <2>9, <2>10, <2>11, <2>12,
             <2>13 DEF RunProgress, RunFault
<1>3. CASE UNCHANGED run
  BY <1>3, <1>a DEF RunShape
<1> QED BY <1>1, <1>2, <1>3, ReplayStep DEF Next

\* ReplayShape is kept: the rows a replay selected stay in the table.
LEMMA ReplayShapeStep ==
  ASSUME TypeOK, RunShape, ReplayShape, Next
  PROVE  ReplayShape'
<1>0. rawArtifacts \subseteq rawArtifacts'
  BY Growth DEF Grows
<1>1. ASSUME NEW v \in Version, StartReplay(v)
      PROVE  ReplayShape'
  BY <1>1 DEF StartReplay, IdleReplay, ReplayShape, db
<1>2. ASSUME NEW r \in Run, NEW v \in Version, StartRun(r, v)
      PROVE  ReplayShape'
  BY <1>2 DEF StartRun, ReplayShape, ReplayState, TypeOK, db
<1>3. ASSUME NEW r \in Run, RunProgress(r) \/ RunFault(r)
      PROVE  ReplayShape'
  <2>1. replay.pc = "write" => replay.rec \in Rec
    BY DEF ReplayShape, Accepted
  <2> QED BY <1>0, <1>3, <2>1, RunStep, Growth DEF ReplayShape, Grows
<1>4. CASE ReplayProgress \/ ReplayFault
  <2>0. replay \in ReplayState
    BY DEF TypeOK
  <2>1. ASSUME NEW a \in replay.todo, ReplayArtifact(a) \/ ReplayArtifactFails(a)
        PROVE  ReplayShape'
    BY <1>0, <2>0, <2>1 DEF ReplayArtifact, ReplayArtifactFails, ReplayShape, ReplayState
  <2>2. ASSUME NEW x \in Rec, ReplayRead(x) \/ ReplayReject(x)
        PROVE  ReplayShape'
    BY <1>0, <2>0, <2>2 DEF ReplayRead, ReplayReject, ReplayShape, ReplayState, db
  <2>3. CASE ReplayWrite \/ ReplayEvidence \/ ReplayNext \/ ReplayItemFails
    BY <1>0, <2>0, <2>3 DEF ReplayWrite, ReplayEvidence, ReplayNext, ReplayItemFails, ReplayShape, ReplayState
  <2>4. CASE FinishReplay \/ CrashReplay
    BY <2>4 DEF FinishReplay, CrashReplay, IdleReplay, ReplayShape
  <2> QED BY <1>4, <2>1, <2>2, <2>3, <2>4 DEF ReplayProgress, ReplayFault
<1> QED BY <1>1, <1>2, <1>3, <1>4 DEF Next

\* Only InsertArtifact adds artifacts, and only three actions write records.
LEMMA OnlyInsertsArtifacts ==
  ASSUME Next
  PROVE  \/ \E r \in Run : InsertArtifact(r)
         \/ rawArtifacts' = rawArtifacts /\ store \subseteq store'
BY DEF Next, RunProgress, RunFault,
  ReplayProgress, ReplayFault, StartRun, Discover, FetchItem, FetchFails, UnchangedItem, NewItem,
  Parse, ReadRecord, WriteRecord, RejectRecord, InsertEvidence, CheckInvariants, ItemThrows,
  ItemFaults, FinishRun, FailRun, Crash, StartReplay, ReplayArtifact, ReplayArtifactFails,
  ReplayRead, ReplayWrite,
  ReplayReject, ReplayEvidence, ReplayNext, ReplayItemFails, FinishReplay, CrashReplay, db

LEMMA OnlyWritesRecords ==
  ASSUME Next
  PROVE  \/ \E r \in Run : UnchangedItem(r) \/ WriteRecord(r)
         \/ ReplayWrite
         \/ UNCHANGED records
BY DEF Next, RunProgress, RunFault,
  ReplayProgress, ReplayFault, StartRun, Discover, FetchItem, FetchFails, NewItem, InsertArtifact,
  Parse, ReadRecord, RejectRecord, InsertEvidence, CheckInvariants, ItemThrows, ItemFaults, FinishRun, FailRun,
  Crash, StartReplay, ReplayArtifact, ReplayArtifactFails, ReplayRead, ReplayReject, ReplayEvidence, ReplayNext,
  ReplayItemFails, FinishReplay, CrashReplay, db

\* The variables keep their types and the processes their shape, together.
THEOREM ShapeInvariant == Spec => []Shape
<1>1. Init => Shape
  BY DEF Init, Shape, TypeOK, RunShape, Sound, ReplayShape, IdleRun, IdleReplay, AtItem, Owned, InFlight,
         RunState, ReplayState, Status
<1>2. Shape /\ [Next]_vars => Shape'
  <2>1. ASSUME Shape, Next
        PROVE  Shape'
    BY <2>1, RunTyped, ReplayTyped, TablesTyped, RecordsTyped, RunShapeStep, ReplayShapeStep
       DEF Shape, TypeOK
  <2>2. ASSUME Shape, UNCHANGED vars
        PROVE  Shape'
    BY <2>2 DEF Shape, TypeOK, RunShape, Sound, ReplayShape, Stored, vars, db
  <2> QED BY <2>1, <2>2
<1> QED BY <1>1, <1>2, PTL DEF Spec

\* Type correctness.
THEOREM TypeCorrect == Spec => []TypeOK
BY ShapeInvariant, PTL DEF Shape

\* No raw_artifacts row ever points at bytes that were not stored first.
THEOREM BytesFirst == Spec => []BytesBehindRows
<1>1. Init => BytesBehindRows
  BY DEF Init, BytesBehindRows
<1>2. Shape /\ BytesBehindRows /\ [Next]_vars => BytesBehindRows'
  <2> SUFFICES ASSUME Shape, BytesBehindRows, [Next]_vars
               PROVE  BytesBehindRows'
    OBVIOUS
  <2>1. ASSUME NEW r \in Run, InsertArtifact(r)
        PROVE  BytesBehindRows'
    BY <2>1 DEF InsertArtifact, BytesBehindRows, Shape, RunShape, Sound, AtItem
  <2>2. CASE rawArtifacts' = rawArtifacts /\ store \subseteq store'
    BY <2>2 DEF BytesBehindRows
  <2> QED BY <2>1, <2>2, OnlyInsertsArtifacts DEF vars, db
<1> QED BY <1>1, <1>2, ShapeInvariant, PTL DEF Spec

\* Every record is found in the bytes of some stored artifact.
THEOREM Derivable == Spec => []RecordDerivable
<1>1. Init => RecordDerivable
  BY DEF Init, RecordDerivable
<1>2. Shape /\ RecordDerivable /\ [Next]_vars => RecordDerivable'
  <2> SUFFICES ASSUME Shape, RecordDerivable, [Next]_vars
               PROVE  RecordDerivable'
    OBVIOUS
  <2> USE DEF Shape
  <2>0. CASE Next
    <3>0. rawArtifacts \subseteq rawArtifacts'
      BY <2>0, Growth DEF Grows
    <3>1. ASSUME NEW r \in Run, UnchangedItem(r)
          PROVE  RecordDerivable'
      BY <3>0, <3>1, DerivableKept DEF UnchangedItem, TypeOK, RecRow
    <3>2. ASSUME NEW r \in Run, WriteRecord(r)
          PROVE  RecordDerivable'
      <4>1. PICK a \in rawArtifacts : IdOf(a) = <<run[r].url, run[r].content>>
        BY <3>2 DEF WriteRecord, RunShape, Sound, Owned, Stored
      <4>2. a.content = run[r].content /\ run[r].ver \in Version
        BY <3>2, <4>1 DEF IdOf, WriteRecord, RunShape, Sound, InFlight
      <4>3. /\ \A y \in Rec \ {run[r].rec} : records'[y] = records[y]
            /\ run[r].found # None => records[run[r].rec] # None
        BY <3>2, WriteStores DEF WriteRecord, RunShape, Sound
      <4>4. CASE Duplicate(r, run[r].rec)
        <5>1. /\ run[r].found # None
              /\ run[r].rec \in Rec
          <6>1. /\ run[r].rec \in Accepted(run[r].ver, run[r].content)
                /\ run[r].ver \in Version /\ run[r].content \in Content
            BY <3>2 DEF WriteRecord, RunShape, Sound, InFlight, AtItem
          <6>2. FpOf(r) \in Fp
            BY <6>1, AcceptedParsed DEF FpOf
          <6> QED BY <4>4, <6>1, <6>2, SourceRunAssumption DEF Duplicate, Accepted
        <5>2. /\ records[run[r].rec] \in RecRow
              /\ records'[run[r].rec] = [records[run[r].rec] EXCEPT !.seen = run[r].at]
          BY <4>3, <4>4, <5>1 DEF Duplicate, TypeOK
        <5>3. /\ records'[run[r].rec].fp = records[run[r].rec].fp
              /\ records'[run[r].rec].art = records[run[r].rec].art
          BY <5>2 DEF RecRow
        <5> QED BY <3>0, <4>3, <5>1, <5>3, DerivableKept
      <4>5. CASE Update(r, run[r].rec) \/ Insert(r, run[r].rec)
        <5>1. /\ records'[run[r].rec].fp = Emits[run[r].ver][a.content][run[r].rec]
              /\ records'[run[r].rec].art = IdOf(a)
          <6>1. run[r].rec \in Rec
            BY <3>2, WriteStores DEF Accepted
          <6>2. CASE Update(r, run[r].rec)
            <7>1. records[run[r].rec] \in RecRow
              BY <4>3, <6>1, <6>2 DEF Update, TypeOK
            <7> QED BY <4>1, <4>2, <6>1, <6>2, <7>1 DEF Update, FpOf, TypeOK, RecRow
          <6>3. CASE Insert(r, run[r].rec)
            BY <4>1, <4>2, <6>1, <6>3 DEF Insert, FpOf, TypeOK
          <6> QED BY <4>5, <6>2, <6>3
        <5>2. IdOf(a) \in Stored'
          BY <3>0 DEF Stored
        <5> QED BY <3>0, <4>2, <4>3, <5>1, <5>2, DerivableKept
      <4> QED BY <3>2, <4>4, <4>5 DEF WriteRecord
    <3>3. CASE ReplayWrite
      BY <3>0, <3>3, ReplayStores, DerivableKept DEF ReplayWrite, ReplayFp, ReplayShape, TypeOK, RecRow, Stored
    <3>4. CASE UNCHANGED records
      BY <3>0, <3>4, DerivableKept
    <3> QED BY <2>0, <3>1, <3>2, <3>3, <3>4, OnlyWritesRecords
  <2>1. CASE UNCHANGED vars
    BY <2>1 DEF vars, db, RecordDerivable, Stored
  <2> QED BY <2>0, <2>1
<1> QED BY <1>1, <1>2, ShapeInvariant, PTL DEF Spec

--------------------------------------------------------------------------------
(* No silent loss.                                                          *)

Persisted(a) == \A x \in Accepted(a.ver, a.content) : records[x] # None

Current(r) == <<run[r].url, run[r].content>>

\* The records of artifact a, which run r is parsing, are in the database or
\* still in its hands.
InHand(r, a) ==
    /\ IdOf(a) = Current(r)
    /\ \/ run[r].pc = "parse"
       \/ /\ run[r].pc \in {"persist", "write", "evidence"}
          /\ \A x \in Accepted(a.ver, a.content) : records[x] # None \/ x \in run[r].parsed

\* SucceededMeansPersisted says what holds when a run has succeeded; this says
\* what holds on the way.  A run without an error has persisted every artifact
\* it has stored but the one in its hands; all its artifacts carry its version;
\* the ledger and the process agree on what has started.
NoLoss(r) ==
    /\ run[r].pc = "idle" => status[r] = "absent"
    /\ run[r].pc \in InFlight => status[r] = "running"
    /\ \A a \in rawArtifacts : a.run = r =>
          /\ status[r] # "absent"
          /\ status[r] = "succeeded" => Persisted(a)
          /\ run[r].pc \in InFlight => a.ver = run[r].ver
          /\ run[r].pc \in InFlight /\ ~run[r].errs => Persisted(a) \/ InHand(r, a)

LossInv == \A r \in Run : NoLoss(r)

\* An artifact whose records are in the database keeps them there.
LEMMA PersistedKept ==
  ASSUME Shape, Next, NEW a \in rawArtifacts, Persisted(a)
  PROVE  Persisted(a)'
<1>1. Accepted(a.ver, a.content) \subseteq Rec
  BY DEF Accepted
<1> QED BY <1>1, Growth DEF Persisted, Grows, Shape

\* A run that a step leaves alone, and that the step gives no artifact, keeps
\* the invariant.
LEMMA OthersKept ==
  ASSUME Shape, Next, NEW r \in Run, NoLoss(r),
         run'[r] = run[r], status'[r] = status[r],
         \A a \in rawArtifacts' : a.run = r => a \in rawArtifacts
  PROVE  NoLoss(r)'
<1>1. SUFFICES ASSUME NEW a \in rawArtifacts', a.run = r, a \in rawArtifacts,
                      InHand(r, a)
               PROVE  InHand(r, a)'
  BY PersistedKept DEF NoLoss
<1>2. Accepted(a.ver, a.content) \subseteq Rec
  BY DEF Accepted
<1> QED BY <1>1, <1>2, Growth DEF InHand, Current, IdOf, Shape, Grows

\* A step of run r that leaves the ledger, the artifacts and the records alone
\* and neither parses nor persists.
LEMMA EasyStep ==
  ASSUME Shape, Next, NEW r \in Run, NoLoss(r), run[r].pc \in InFlight,
         status'[r] = status[r], rawArtifacts' = rawArtifacts,
         run'[r].pc \in InFlight \cup {"ended"},
         run'[r].pc \in InFlight => run'[r].ver = run[r].ver,
         run'[r].pc \in InFlight /\ run[r].errs => run'[r].errs,
         \A a \in rawArtifacts :
            run'[r].pc \in InFlight /\ ~run'[r].errs /\ InHand(r, a) => Persisted(a)' \/ InHand(r, a)'
  PROVE  NoLoss(r)'
<1>1. status[r] = "running"
  BY DEF NoLoss
<1>2. ASSUME NEW a \in rawArtifacts', a.run = r
      PROVE  /\ run'[r].pc \in InFlight => a.ver = run'[r].ver
             /\ run'[r].pc \in InFlight /\ ~run'[r].errs => Persisted(a)' \/ InHand(r, a)'
  <2>1. /\ a \in rawArtifacts
        /\ a.ver = run[r].ver
        /\ ~run[r].errs => Persisted(a) \/ InHand(r, a)
    BY <1>2 DEF NoLoss
  <2>2. Persisted(a) => Persisted(a)'
    BY <2>1, PersistedKept
  <2>3. ASSUME run'[r].pc \in InFlight, ~run'[r].errs
        PROVE  Persisted(a)' \/ InHand(r, a)'
    <3>1. ~run[r].errs
      BY <2>3
    <3> QED BY <2>1, <2>2, <2>3, <3>1
  <2> QED BY <1>2, <2>1, <2>3
<1> QED BY <1>1, <1>2 DEF NoLoss, InFlight

\* Every step keeps the invariant, for the run that takes it and for the others.
LEMMA LossStep ==
  ASSUME Shape, LossInv, Next
  PROVE  LossInv'
<1>0. /\ run \in [Run -> RunState]
      /\ status \in [Run -> Status]
      /\ \A r \in Run : NoLoss(r)
  BY DEF Shape, TypeOK, LossInv
<1>1. ASSUME NEW r \in Run, NEW v \in Version, StartRun(r, v)
      PROVE  LossInv'
  <2>1. \A a \in rawArtifacts' : a.run # r
    BY <1>0, <1>1 DEF StartRun, NoLoss, db
  <2>2. NoLoss(r)'
    BY <1>0, <1>1, <2>1 DEF StartRun, NoLoss, IdleRun, InFlight
  <2>3. \A s \in Run \ {r} : NoLoss(s)'
    BY <1>0, <1>1, OthersKept DEF StartRun, db
  <2> QED BY <2>2, <2>3 DEF LossInv
<1>2. ASSUME NEW r \in Run, RunProgress(r) \/ RunFault(r), NoLoss(r)'
      PROVE  LossInv'
  <2>1. \A s \in Run \ {r} : run'[s] = run[s] /\ status'[s] = status[s]
    BY <1>0, <1>2 DEF RunProgress, RunFault, Discover, FetchItem, UnchangedItem, NewItem,
       InsertArtifact, Parse, ReadRecord, WriteRecord, Duplicate, Update, Insert, AfterWrite, RejectRecord,
       InsertEvidence, CheckInvariants, ItemThrows, FinishRun, FetchFails, ItemFaults, EndItem,
       FailRun, Crash
  <2>2. \A a \in rawArtifacts' : a.run # r => a \in rawArtifacts
    <3>1. CASE InsertArtifact(r)
      BY <3>1 DEF InsertArtifact
    <3>2. CASE UNCHANGED rawArtifacts
      BY <3>2
    <3> QED BY <1>2, <3>1, <3>2 DEF RunProgress, RunFault, Discover, FetchItem, UnchangedItem,
          NewItem, Parse, ReadRecord, WriteRecord, RejectRecord, InsertEvidence, CheckInvariants,
          ItemThrows, FinishRun, FetchFails, ItemFaults, FailRun, Crash, db
  <2>3. \A s \in Run \ {r} : NoLoss(s)'
    BY <1>0, <2>1, <2>2, OthersKept
  <2> QED BY <1>2, <2>3 DEF LossInv
<1>3. ASSUME NEW r \in Run, RunProgress(r) \/ RunFault(r)
      PROVE  NoLoss(r)'
  <2>0. run[r] \in RunState /\ NoLoss(r)
    BY <1>0
  <2>1. CASE Discover(r)
    BY <1>0, <2>0, <2>1, EasyStep DEF Discover, InHand, InFlight, RunState, db
  <2>2. ASSUME NEW u \in Url, NEW c \in Content, FetchItem(r, u, c)
        PROVE  NoLoss(r)'
    BY <1>0, <2>0, <2>2, EasyStep DEF FetchItem, InHand, InFlight, RunState
  <2>3. ASSUME NEW u \in Url, FetchFails(r, u)
        PROVE  NoLoss(r)'
    BY <1>0, <2>0, <2>3, EasyStep DEF FetchFails, InHand, InFlight, RunState, db
  <2>4. CASE UnchangedItem(r)
    BY <1>0, <2>0, <2>4, EasyStep DEF UnchangedItem, EndItem, InHand, InFlight, RunState
  <2>5. CASE NewItem(r)
    BY <1>0, <2>0, <2>5, EasyStep DEF NewItem, InHand, InFlight, RunState, db
  <2>6. CASE InsertArtifact(r)
    <3>1. /\ status[r] = "running" /\ status' = status /\ run[r].pc = "insert"
          /\ run'[r] = [run[r] EXCEPT !.pc = "parse"]
      BY <1>0, <2>0, <2>6 DEF InsertArtifact, NoLoss, InFlight
    <3>2. /\ run'[r].pc = "parse" /\ run'[r].ver = run[r].ver /\ run'[r].errs = run[r].errs
          /\ Current(r)' = Current(r)
      BY <2>0, <3>1 DEF RunState, Current
    <3>3. ASSUME NEW a \in rawArtifacts', a.run = r
          PROVE  /\ a.ver = run[r].ver
                 /\ ~run[r].errs => Persisted(a)' \/ InHand(r, a)'
      <4>1. CASE a \in rawArtifacts
        <5>1. a.ver = run[r].ver /\ (~run[r].errs => Persisted(a))
          BY <2>0, <3>1, <3>3, <4>1 DEF NoLoss, InHand, InFlight
        <5> QED BY <4>1, <5>1, PersistedKept
      <4>2. CASE a = [url |-> run[r].url, content |-> run[r].content, at |-> run[r].at,
                      run |-> r, ver |-> run[r].ver]
        <5>1. a.ver = run[r].ver /\ IdOf(a) = Current(r)
          BY <4>2 DEF IdOf, Current
        <5> QED BY <3>2, <5>1 DEF InHand, IdOf
      <4> QED BY <2>6, <3>3, <4>1, <4>2 DEF InsertArtifact
    <3> QED BY <3>1, <3>2, <3>3 DEF NoLoss, InFlight
  <2>7. CASE Parse(r)
    <3>1. /\ run'[r] = [run[r] EXCEPT !.pc = "persist",
                                     !.parsed = Parsed(run[r].ver, run[r].content)]
          /\ run[r].pc = "parse" /\ run[r].ver \in Version /\ run[r].content \in Content
      BY <1>0, <2>7 DEF Parse, Shape, RunShape, Sound, InFlight, AtItem
    <3>2. /\ run'[r].pc = "persist" /\ run'[r].ver = run[r].ver /\ run'[r].errs = run[r].errs
          /\ Current(r)' = Current(r)
          /\ run'[r].parsed = Parsed(run[r].ver, run[r].content)
      BY <2>0, <3>1 DEF RunState, Current
    <3>3. ASSUME NEW a \in rawArtifacts, a.run = r
          PROVE  InHand(r, a) => InHand(r, a)'
      <4>1. a.ver = run[r].ver
        BY <2>0, <3>1, <3>3 DEF NoLoss, InFlight
      <4>2. InHand(r, a) => a.content = run[r].content
        BY DEF InHand, IdOf, Current
      <4> QED BY <3>1, <3>2, <4>1, <4>2, AcceptedParsed DEF InHand, IdOf
    <3>4. ASSUME NEW a \in rawArtifacts, a.run = r
          PROVE  /\ status[r] = "running"
                 /\ a.ver = run'[r].ver
                 /\ ~run'[r].errs => Persisted(a)' \/ InHand(r, a)'
      BY <2>0, <3>1, <3>2, <3>3, <3>4, PersistedKept DEF NoLoss, InFlight
    <3> QED BY <2>0, <2>7, <3>1, <3>2, <3>4 DEF Parse, NoLoss, InFlight, db
  <2>15. ASSUME NEW x \in Rec, ReadRecord(r, x)
         PROVE  NoLoss(r)'
    <3>1. /\ run[r].pc = "persist" /\ run'[r].pc = "write"
          /\ run'[r].ver = run[r].ver /\ run'[r].errs = run[r].errs
          /\ Current(r)' = Current(r) /\ run'[r].parsed = run[r].parsed
          /\ status' = status /\ rawArtifacts' = rawArtifacts /\ records' = records
      BY <1>0, <2>0, <2>15 DEF ReadRecord, RunState, Current, db
    <3> QED BY <2>0, <3>1, EasyStep DEF InHand, IdOf, InFlight
  <2>8. CASE WriteRecord(r) \/ \E x \in Rec : RejectRecord(r, x)
    <3>1. PICK x \in Rec :
          /\ run[r].pc \in {"persist", "write"} /\ run'[r].pc \in {"persist", "evidence"}
          /\ run'[r].ver = run[r].ver /\ run'[r].errs = run[r].errs
          /\ Current(r)' = Current(r) /\ run'[r].parsed = run[r].parsed \ {x}
          /\ status' = status /\ rawArtifacts' = rawArtifacts
          /\ records'[x] # None \/ x \notin Accepted(run[r].ver, run[r].content)
      <4>1. ASSUME NEW x \in Rec, RejectRecord(r, x)
            PROVE  /\ run[r].pc = "persist" /\ run'[r].pc = "persist"
                   /\ run'[r].ver = run[r].ver /\ run'[r].errs = run[r].errs
                   /\ Current(r)' = Current(r) /\ run'[r].parsed = run[r].parsed \ {x}
                   /\ status' = status /\ rawArtifacts' = rawArtifacts
                   /\ x \notin Accepted(run[r].ver, run[r].content)
        BY <1>0, <2>0, <4>1 DEF RejectRecord, RunState, Current, db
      <4>2. ASSUME WriteRecord(r)
            PROVE  /\ run[r].pc = "write" /\ run'[r].pc \in {"persist", "evidence"}
                   /\ run'[r].ver = run[r].ver /\ run'[r].errs = run[r].errs
                   /\ Current(r)' = Current(r)
                   /\ run'[r].parsed = run[r].parsed \ {run[r].rec}
                   /\ status' = status /\ rawArtifacts' = rawArtifacts
                   /\ run[r].rec \in Rec /\ records'[run[r].rec] # None
        <5>1. run[r].rec \in Rec /\ records'[run[r].rec] # None
          BY <4>2, WriteStores, NoneIsNoRecord DEF Shape, Accepted
        <5>2. CASE Duplicate(r, run[r].rec)
          BY <1>0, <2>0, <4>2, <5>1, <5>2 DEF WriteRecord, Duplicate, RunState, Current
        <5>3. CASE AfterWrite(r, run[r].rec)
          BY <1>0, <2>0, <4>2, <5>1, <5>3 DEF WriteRecord, AfterWrite, RunState, Current
        <5> QED BY <4>2, <5>2, <5>3 DEF WriteRecord, Update, Insert
      <4> QED BY <2>8, <4>1, <4>2
    <3>2. ASSUME NEW a \in rawArtifacts, a.run = r, InHand(r, a)
          PROVE  InHand(r, a)'
      <4>1. a.ver = run[r].ver /\ a.content = run[r].content
        BY <2>0, <3>1, <3>2 DEF NoLoss, InFlight, InHand, IdOf, Current
      <4>2. \A y \in Rec : records[y] # None => records'[y] # None
        BY Growth DEF Grows, Shape
      <4>3. Accepted(a.ver, a.content) \subseteq Rec
        BY DEF Accepted
      <4> QED BY <3>1, <3>2, <4>1, <4>2, <4>3 DEF InHand, IdOf
    <3> QED BY <2>0, <3>1, <3>2, EasyStep, PersistedKept DEF NoLoss, InFlight
  <2>9. CASE InsertEvidence(r)
    <3>1. /\ run[r].pc = "evidence" /\ run'[r].pc = "persist"
          /\ run'[r].ver = run[r].ver /\ run'[r].errs = run[r].errs
          /\ Current(r)' = Current(r) /\ run'[r].parsed = run[r].parsed
          /\ status' = status /\ rawArtifacts' = rawArtifacts /\ records' = records
      BY <1>0, <2>0, <2>9 DEF InsertEvidence, RunState, Current
    <3> QED BY <2>0, <3>1, EasyStep DEF InHand, IdOf, InFlight
  <2>10. CASE CheckInvariants(r)
    <3>1. /\ run[r].pc = "persist" /\ run[r].parsed = {}
          /\ run'[r].pc = "loop" /\ run'[r].ver = run[r].ver
          /\ run'[r].errs = (run[r].errs \/ FALSE)
          /\ status' = status /\ rawArtifacts' = rawArtifacts /\ records' = records
      BY <1>0, <2>0, <2>10 DEF CheckInvariants, EndItem, RunState, db
    <3>2. \A a \in rawArtifacts : InHand(r, a) => Persisted(a)'
      BY <3>1 DEF InHand, Persisted, Accepted
    <3> QED BY <2>0, <3>1, <3>2, EasyStep DEF InFlight
  <2>11. CASE ItemThrows(r) \/ ItemFaults(r)
    <3>1. /\ run[r].pc \in InFlight
          /\ run'[r].pc = "loop" /\ run'[r].ver = run[r].ver
          /\ run'[r].errs = TRUE
          /\ status' = status /\ rawArtifacts' = rawArtifacts
      <4>1. (run[r].errs \/ TRUE) = TRUE
        OBVIOUS
      <4>2. EndItem(r, TRUE) /\ run[r].pc \in InFlight
        BY <2>11 DEF ItemThrows, ItemFaults, InFlight
      <4>3. /\ run'[r].pc = "loop" /\ run'[r].ver = run[r].ver
            /\ run'[r].errs = (run[r].errs \/ TRUE)
        BY <1>0, <2>0, <4>2 DEF EndItem, RunState
      <4> QED BY <2>11, <4>1, <4>2, <4>3 DEF ItemThrows, ItemFaults, db
    <3> QED BY <2>0, <3>1, EasyStep DEF InFlight
  <2>12. CASE FinishRun(r)
    <3>1. /\ run[r].pc = "loop" /\ run'[r].pc = "ended" /\ rawArtifacts' = rawArtifacts
          /\ status'[r] = IF run[r].errs THEN "completed_with_errors" ELSE "succeeded"
      BY <1>0, <2>12 DEF FinishRun, EndedRun, IdleRun, db
    <3>2. ASSUME NEW a \in rawArtifacts, a.run = r, ~run[r].errs
          PROVE  Persisted(a)'
      BY <2>0, <3>1, <3>2, PersistedKept DEF NoLoss, InHand, InFlight
    <3> QED BY <3>1, <3>2 DEF NoLoss, InFlight
  <2>13. CASE FailRun(r)
    <3>1. run'[r].pc = "ended" /\ status'[r] = "failed"
      BY <1>0, <2>13 DEF FailRun, EndedRun, IdleRun
    <3> QED BY <3>1 DEF NoLoss, InFlight
  <2>14. CASE Crash(r)
    <3>1. run'[r].pc = "ended" /\ status'[r] = "running"
      BY <1>0, <2>0, <2>14 DEF Crash, EndedRun, IdleRun, NoLoss
    <3> QED BY <3>1 DEF NoLoss, InFlight
  <2> QED BY <1>3, <2>1, <2>2, <2>3, <2>4, <2>5, <2>6, <2>7, <2>8, <2>9, <2>10, <2>11, <2>12,
             <2>13, <2>14, <2>15 DEF RunProgress, RunFault
<1>4. CASE ReplayProgress \/ ReplayFault \/ \E v \in Version : StartReplay(v)
  BY <1>0, <1>4, ReplayStep, OthersKept DEF LossInv
<1> QED BY <1>1, <1>2, <1>3, <1>4 DEF Next

\* A run the ledger calls succeeded has persisted every record its parser
\* accepted in every artifact it stored, for any number of overlapping runs,
\* replays, faults and crashes.
THEOREM NoSilentLoss == Spec => []SucceededMeansPersisted
<1>1. Init => LossInv
  BY DEF Init, LossInv, NoLoss, IdleRun, InFlight
<1>2. Shape /\ LossInv /\ [Next]_vars => LossInv'
  <2>1. CASE Next
    BY <2>1, LossStep
  <2>2. CASE UNCHANGED vars
    BY <2>2 DEF vars, db, LossInv, NoLoss, Persisted, InHand, Current
  <2> QED BY <2>1, <2>2
<1>3. LossInv => SucceededMeansPersisted
  BY DEF LossInv, NoLoss, Persisted, SucceededMeansPersisted
<1> QED BY <1>1, <1>2, <1>3, ShapeInvariant, PTL DEF Spec

--------------------------------------------------------------------------------
(* A replay that nothing disturbs repairs.                                  *)

\* No two artifacts were fetched at one time, and what a run has fetched and not yet
\* stored was fetched at another.
Holds(r) == run[r].pc \in {"lookup", "insert"}

Dated ==
    /\ \A a \in rawArtifacts : a.at <= now
    /\ \A a, b \in rawArtifacts : a.at = b.at => a = b
    /\ \A r \in Run : Holds(r) =>
         run[r].at <= now /\ \A a \in rawArtifacts : a.at # run[r].at
    /\ \A r, s \in Run : Holds(r) /\ Holds(s) /\ run[r].at = run[s].at => r = s

AtWork == replay.pc \in {"persist", "write", "evidence"}

\* What the replay has taken up, and the newest of it that mentions x.
Taken        == rawArtifacts \ replay.todo
Newest(x, a) == /\ a \in Taken /\ x \in Accepted(replay.ver, a.content)
                /\ \A b \in Taken : x \in Accepted(replay.ver, b.content) => b.at <= a.at

\* Permit x is as the current parser reads it in a.
Good(x, a) == /\ records[x] # None
              /\ records[x].fp = Emits[replay.ver][a.content][x]
              /\ <<replay.ver, a.content, x>> \in Backed => HasEvidence(x)

\* Permit x is in the artifact the replay is at and not done with.
Pending(x) ==
    /\ AtWork /\ x \in Accepted(replay.ver, replay.art.content)
    /\ x \in replay.parsed \/ (replay.pc \in {"write", "evidence"} /\ x = replay.rec)

\* A replay that nothing has disturbed takes the artifacts up from the oldest to the
\* newest, and all permits but those in its hands are as it reads them in the newest
\* artifact so far.
Repairs ==
    replay.pc # "idle" /\ replay.quiet /\ ~replay.errs =>
        /\ Active = {}
        /\ \A a \in Taken, b \in replay.todo : a.at <= b.at
        /\ AtWork => replay.art \in Taken /\ \A a \in Taken : a.at <= replay.art.at
        /\ replay.pc = "write" =>
             replay.found = IF records[replay.rec] = None THEN None ELSE records[replay.rec].fp
        /\ replay.pc = "evidence" =>
             records[replay.rec] # None /\ records[replay.rec].fp = ReplayFp
        /\ \A x \in Permit : Pending(x) \/ \A a \in Taken : Newest(x, a) => Good(x, a)

RepairInv == Dated /\ Repairs /\ (replay.pc = "idle" => ~replay.quiet)

\* Fetch times stay apart when nothing is fetched and no row is added.
LEMMA DatedKept ==
  ASSUME Dated, now' = now, rawArtifacts' = rawArtifacts,
         \A s \in Run : Holds(s)' => Holds(s) /\ run'[s].at = run[s].at
  PROVE  Dated'
BY DEF Dated

LEMMA DatedStep ==
  ASSUME Shape, Dated, Next
  PROVE  Dated'
<1> USE DEF Shape, TypeOK
<1>0. /\ run \in [Run -> RunState] /\ now \in Nat
      /\ \A s \in Run : run[s] \in RunState /\ run[s].at \in Nat
      /\ \A a \in rawArtifacts : a.at \in Nat
  BY DEF RunState, Artifact
<1>1. ASSUME NEW r \in Run, NEW v \in Version, StartRun(r, v)
      PROVE  Dated'
  BY <1>0, <1>1, DatedKept DEF StartRun, IdleRun, Holds, db
<1>2. ASSUME NEW r \in Run, NEW u \in Url, NEW c \in Content, FetchItem(r, u, c)
      PROVE  Dated'
  <2>1. /\ now' = now + 1 /\ rawArtifacts' = rawArtifacts /\ run'[r].at = now + 1
        /\ \A s \in Run : s # r => run'[s] = run[s]
    BY <1>0, <1>2 DEF FetchItem, RunState
  <2>2. \A s \in Run : Holds(s)' => s = r \/ (Holds(s) /\ run'[s].at = run[s].at)
    BY <2>1 DEF Holds
  <2>3. \A a \in rawArtifacts : a.at < now'
    BY <1>0, <2>1 DEF Dated
  <2>4. \A s \in Run : Holds(s)' /\ s # r => run'[s].at < now'
    BY <1>0, <2>1, <2>2 DEF Dated
  <2> QED BY <1>0, <2>1, <2>2, <2>3, <2>4 DEF Dated
<1>3. ASSUME NEW r \in Run, InsertArtifact(r)
      PROVE  Dated'
  <2> DEFINE new == [url |-> run[r].url, content |-> run[r].content, at |-> run[r].at,
                     run |-> r, ver |-> run[r].ver]
  <2>1. /\ now' = now /\ rawArtifacts' = rawArtifacts \cup {new} /\ new.at = run[r].at
        /\ Holds(r) /\ run'[r].pc = "parse" /\ \A s \in Run : s # r => run'[s] = run[s]
    BY <1>0, <1>3 DEF InsertArtifact, Holds, RunState
  <2> HIDE DEF new
  <2>2. \A s \in Run : Holds(s)' => s # r /\ Holds(s) /\ run'[s].at = run[s].at
    BY <2>1 DEF Holds
  <2> QED BY <1>0, <2>1, <2>2 DEF Dated
<1>4. ASSUME NEW r \in Run, \A s \in Run : s # r => run'[s] = run[s],
             Holds(r)' => Holds(r) /\ run'[r].at = run[r].at,
             now' = now, rawArtifacts' = rawArtifacts
      PROVE  Dated'
  BY <1>4, DatedKept DEF Holds
<1>5. ASSUME NEW r \in Run, NewItem(r)
      PROVE  Dated'
  BY <1>0, <1>4, <1>5 DEF NewItem, Holds, RunState, db
<1>6. ASSUME NEW r \in Run, RunProgress(r) \/ RunFault(r),
             ~InsertArtifact(r), ~NewItem(r), \A u \in Url, c \in Content : ~FetchItem(r, u, c)
      PROVE  Dated'
  <2>0. now' = now /\ rawArtifacts' = rawArtifacts
    BY <1>6 DEF RunProgress, RunFault, Discover, UnchangedItem, Parse, ReadRecord, WriteRecord,
       RejectRecord, InsertEvidence, CheckInvariants, ItemThrows, FinishRun, FetchFails, ItemFaults,
       FailRun, Crash, db
  <2>1. CASE \/ Discover(r) \/ Parse(r) \/ \E x \in Rec : ReadRecord(r, x) \/ RejectRecord(r, x)
             \/ InsertEvidence(r) \/ \E u \in Url : FetchFails(r, u)
    <3>1. run'[r].pc \notin {"lookup", "insert"}
      <4>1. CASE Discover(r)
        BY <1>0, <4>1 DEF Discover, RunState
      <4>5. CASE Parse(r)
        BY <1>0, <4>5 DEF Parse, RunState
      <4>2. CASE \E x \in Rec : ReadRecord(r, x)
        BY <1>0, <4>2 DEF ReadRecord, RunState
      <4>3. CASE \E x \in Rec : RejectRecord(r, x)
        BY <1>0, <4>3 DEF RejectRecord, RunState
      <4>6. CASE \E u \in Url : FetchFails(r, u)
        BY <1>0, <4>6 DEF FetchFails, RunState
      <4>4. CASE InsertEvidence(r)
        BY <1>0, <4>4 DEF InsertEvidence, RunState
      <4> QED BY <2>1, <4>1, <4>2, <4>3, <4>4, <4>5, <4>6
    <3>2. \A s \in Run : s # r => run'[s] = run[s]
      BY <1>0, <2>1 DEF Discover, Parse, ReadRecord, RejectRecord, InsertEvidence, FetchFails
    <3> QED BY <1>4, <2>0, <3>1, <3>2 DEF Holds
  <2>2. CASE UnchangedItem(r) \/ CheckInvariants(r) \/ ItemThrows(r) \/ ItemFaults(r)
    <3>1. PICK failed \in BOOLEAN : EndItem(r, failed)
      BY <2>2 DEF UnchangedItem, CheckInvariants, ItemThrows, ItemFaults
    <3>2. run'[r].pc = "loop" /\ \A s \in Run : s # r => run'[s] = run[s]
      BY <1>0, <3>1 DEF EndItem, RunState
    <3> QED BY <1>4, <2>0, <3>2 DEF Holds
  <2>3. CASE WriteRecord(r)
    <3>1. run'[r].pc \in {"persist", "evidence"} /\ \A s \in Run : s # r => run'[s] = run[s]
      <4>1. CASE Duplicate(r, run[r].rec)
        BY <1>0, <4>1 DEF Duplicate, RunState
      <4>2. CASE AfterWrite(r, run[r].rec)
        BY <1>0, <4>2 DEF AfterWrite, RunState
      <4> QED BY <2>3, <4>1, <4>2 DEF WriteRecord, Update, Insert
    <3> QED BY <1>4, <2>0, <3>1 DEF Holds
  <2>4. CASE FinishRun(r) \/ FailRun(r) \/ Crash(r)
    <3>1. run' = [run EXCEPT ![r] = EndedRun] /\ EndedRun.pc = "ended"
      BY <2>4 DEF FinishRun, FailRun, Crash, EndedRun, IdleRun
    <3> QED BY <1>0, <1>4, <2>0, <3>1 DEF Holds
  <2> QED BY <1>6, <2>1, <2>2, <2>3, <2>4 DEF RunProgress, RunFault
<1>7. CASE ReplayProgress \/ ReplayFault \/ \E v \in Version : StartReplay(v)
  BY <1>7, ReplayStep, DatedKept DEF Holds
<1> QED BY <1>1, <1>2, <1>3, <1>5, <1>6, <1>7 DEF Next, RunProgress

\* Only a run that is at work takes a step.
LEMMA RunIsActive ==
  ASSUME NEW r \in Run, RunProgress(r) \/ RunFault(r)
  PROVE  r \in Active
BY DEF RunProgress, RunFault, Discover, FetchItem, UnchangedItem, NewItem, InsertArtifact, Parse,
   ReadRecord, WriteRecord, RejectRecord, InsertEvidence, CheckInvariants, ItemThrows, FinishRun,
   FetchFails, ItemFaults, FailRun, Crash, Active, InFlight

\* A replay that fails at an artifact, ends or dies promises nothing more.
LEMMA RepairsVoid ==
  ASSUME replay'.pc = "idle" \/ ~replay'.quiet \/ replay'.errs
  PROVE  Repairs'
BY DEF Repairs

\* Evidence that is there stays.
LEMMA EvidenceKept ==
  ASSUME evidence \subseteq evidence', NEW x, HasEvidence(x)
  PROVE  HasEvidence(x)'
BY DEF HasEvidence

\* One artifact is taken up: nothing is said yet of the permits in it.
LEMMA ReplayArtifactRepairs ==
  ASSUME Shape, Dated, Repairs, NEW a \in replay.todo, ReplayArtifact(a)
  PROVE  Repairs'
<1>1. replay \in ReplayState /\ a \in rawArtifacts /\ a \in Artifact
      /\ replay.ver \in Version /\ replay.todo \subseteq rawArtifacts
      /\ \A b \in rawArtifacts : b.at \in Nat
  BY DEF Shape, TypeOK, ReplayShape, ReplayArtifact, Artifact
<1>2. /\ replay'.pc = "persist" /\ replay'.todo = replay.todo \ {a} /\ replay'.art = a
      /\ replay'.parsed = Parsed(replay.ver, a.content) /\ replay'.ver = replay.ver
      /\ replay'.quiet = replay.quiet /\ replay'.errs = replay.errs
      /\ replay.pc = "loop" /\ \A b \in replay.todo : a.at <= b.at
      /\ UNCHANGED <<now, store, rawArtifacts, records, evidence, status, run>>
  BY <1>1 DEF ReplayArtifact, Oldest, ReplayState, db
<1>3. SUFFICES ASSUME replay.quiet, ~replay.errs PROVE Repairs'
  BY <1>2 DEF Repairs
<1>4. Taken' = Taken \cup {a} /\ Active' = Active
  BY <1>1, <1>2 DEF Taken, Active
<1>5. /\ Active = {} /\ \A b \in Taken, c \in replay.todo : b.at <= c.at
      /\ \A x \in Permit : \A b \in Taken : Newest(x, b) => Good(x, b)
  BY <1>2, <1>3 DEF Repairs, Pending, AtWork
<1>6. \A b \in Taken', c \in replay'.todo : b.at <= c.at
  BY <1>2, <1>4, <1>5
<1>7. replay'.art \in Taken' /\ \A b \in Taken' : b.at <= replay'.art.at
  BY <1>1, <1>2, <1>4, <1>5
<1>8. ASSUME NEW x \in Permit PROVE Pending(x)' \/ \A b \in Taken' : Newest(x, b)' => Good(x, b)'
  <2>1. CASE x \in Accepted(replay.ver, a.content)
    <3>1. x \in Parsed(replay.ver, a.content)
      BY <1>1, <2>1, AcceptedParsed DEF Artifact
    <3>2. AtWork' /\ x \in Accepted(replay'.ver, replay'.art.content) /\ x \in replay'.parsed
      BY <1>2, <2>1, <3>1 DEF AtWork
    <3> QED BY <1>2, <3>2 DEF Pending
  <2>2. CASE x \notin Accepted(replay.ver, a.content)
    <3>1. \A b \in Taken' : Newest(x, b)' => b \in Taken /\ Newest(x, b)
      BY <1>2, <1>4, <2>2 DEF Newest
    <3>2. \A b \in Taken : Good(x, b) => Good(x, b)'
      BY <1>2 DEF Good, HasEvidence
    <3> QED BY <1>5, <3>1, <3>2
  <2> QED BY <2>1, <2>2
<1> QED BY <1>2, <1>4, <1>5, <1>6, <1>7, <1>8 DEF Repairs, AtWork

\* The replay moves on in an artifact: the permits that were settled stay settled, and so
\* is now each that it is done with.
LEMMA AtWorkRepairs ==
  ASSUME Repairs, replay.pc # "idle", AtWork, replay.quiet, ~replay.errs,
         UNCHANGED <<rawArtifacts, run>>, evidence \subseteq evidence',
         replay'.ver = replay.ver, replay'.todo = replay.todo,
         replay'.pc = "loop" \/ (AtWork' /\ replay'.art = replay.art),
         replay'.pc = "write" =>
           replay'.found = IF records'[replay'.rec] = None THEN None ELSE records'[replay'.rec].fp,
         replay'.pc = "evidence" =>
           records'[replay'.rec] # None /\ records'[replay'.rec].fp = ReplayFp',
         \A x \in Permit : Pending(x) /\ ~Pending(x)' =>
           \A a \in Taken : Newest(x, a) => Good(x, a)',
         \A x \in Permit : ~Pending(x) => records'[x] = records[x]
  PROVE  Repairs'
<1>1. Taken' = Taken /\ Active' = Active
  BY DEF Taken, Active
<1>2. \A x, a : Newest(x, a)' <=> Newest(x, a)
  BY <1>1 DEF Newest
<1>3. ASSUME NEW x \in Permit PROVE Pending(x)' \/ \A a \in Taken' : Newest(x, a)' => Good(x, a)'
  <2>1. CASE Pending(x)
    BY <1>1, <1>2, <2>1
  <2>2. CASE ~Pending(x)
    <3>1. \A a \in Taken : Newest(x, a) => Good(x, a)
      BY <2>2 DEF Repairs
    <3>2. \A a \in Taken : Good(x, a) => Good(x, a)'
      BY <2>2, EvidenceKept DEF Good
    <3> QED BY <1>1, <1>2, <3>1, <3>2
  <2> QED BY <2>1, <2>2
<1>4. /\ Active = {} /\ \A a \in Taken, b \in replay.todo : a.at <= b.at
      /\ replay.art \in Taken /\ \A a \in Taken : a.at <= replay.art.at
  BY DEF Repairs
<1>5. AtWork' => replay'.art \in Taken' /\ \A a \in Taken' : a.at <= replay'.art.at
  BY <1>1, <1>4 DEF AtWork
<1> QED BY <1>1, <1>3, <1>4, <1>5 DEF Repairs

\* Of the artifacts taken up, the one the replay is at is the newest: a permit in it is
\* settled when it is as the parser reads it there.
LEMMA NewestIsCurrent ==
  ASSUME Shape, Dated, Repairs, replay.pc # "idle", AtWork, replay.quiet, ~replay.errs,
         NEW x \in Permit, x \in Accepted(replay.ver, replay.art.content),
         NEW a \in Taken, Newest(x, a)
  PROVE  a = replay.art
<1>1. replay.art \in Taken /\ a.at <= replay.art.at /\ replay.art.at <= a.at
  BY DEF Repairs, Newest
<1>2. a \in rawArtifacts /\ replay.art \in rawArtifacts /\ a.at \in Nat /\ replay.art.at \in Nat
  BY <1>1 DEF Taken, Shape, TypeOK, Artifact
<1> QED BY <1>1, <1>2 DEF Dated

LEMMA ReplayReadRepairs ==
  ASSUME Shape, Dated, Repairs, NEW x \in Rec, ReplayRead(x) \/ ReplayReject(x)
  PROVE  Repairs'
<1>1. replay \in ReplayState /\ AtWork /\ replay.pc = "persist"
  BY DEF Shape, TypeOK, ReplayRead, ReplayReject, AtWork
<1>2. UNCHANGED <<rawArtifacts, records, evidence, run>>
  BY DEF ReplayRead, ReplayReject, db
<1>3. SUFFICES ASSUME replay.quiet, ~replay.errs PROVE Repairs'
  BY <1>1 DEF Repairs, ReplayRead, ReplayReject, ReplayState
<1>4. CASE ReplayRead(x)
  <2>1. /\ replay'.pc = "write" /\ replay'.parsed = replay.parsed \ {x} /\ replay'.rec = x
        /\ replay'.found = IF records[x] = None THEN None ELSE records[x].fp
        /\ replay'.ver = replay.ver /\ replay'.todo = replay.todo /\ replay'.art = replay.art
    BY <1>1, <1>4 DEF ReplayRead, ReplayState
  <2>2. \A y : Pending(y) => Pending(y)'
    BY <1>1, <2>1 DEF Pending, AtWork
  <2> QED BY <1>1, <1>2, <1>3, <2>1, <2>2, AtWorkRepairs DEF AtWork
<1>5. CASE ReplayReject(x)
  <2>1. /\ replay'.pc = "persist" /\ replay'.parsed = replay.parsed \ {x}
        /\ replay'.ver = replay.ver /\ replay'.todo = replay.todo /\ replay'.art = replay.art
        /\ x \notin Accepted(replay.ver, replay.art.content) \cap Permit
    BY <1>1, <1>5 DEF ReplayReject, ReplayState
  <2>2. \A y \in Permit : Pending(y) => Pending(y)'
    BY <1>1, <2>1 DEF Pending, AtWork
  <2> QED BY <1>1, <1>2, <1>3, <2>1, <2>2, AtWorkRepairs DEF AtWork
<1> QED BY <1>4, <1>5

LEMMA ReplayWriteRepairs ==
  ASSUME Shape, Dated, Repairs, ReplayWrite
  PROVE  Repairs'
<1>1. /\ replay \in ReplayState /\ AtWork /\ replay.pc = "write" /\ replay.rec \in Permit
      /\ replay.rec \in Accepted(replay.ver, replay.art.content)
      /\ records \in [Rec -> RecRow \cup {None}]
  BY DEF Shape, TypeOK, ReplayShape, ReplayWrite, AtWork
<1>2. UNCHANGED <<rawArtifacts, evidence, run>>
  BY DEF ReplayWrite
<1>3. /\ replay'.pc = "evidence" /\ replay'.parsed = replay.parsed /\ replay'.rec = replay.rec
      /\ replay'.ver = replay.ver /\ replay'.todo = replay.todo /\ replay'.art = replay.art
      /\ replay'.quiet = replay.quiet /\ replay'.errs = replay.errs
  BY <1>1 DEF ReplayWrite, ReplayState
<1>4. SUFFICES ASSUME replay.quiet, ~replay.errs PROVE Repairs'
  BY <1>3, RepairsVoid
<1>5. replay.found = IF records[replay.rec] = None THEN None ELSE records[replay.rec].fp
  BY <1>1, <1>4 DEF Repairs
<1>6. \A y \in Rec \ {replay.rec} : records'[y] = records[y]
  BY ReplayStores DEF Shape
<1>7. records'[replay.rec] # None /\ records'[replay.rec].fp = ReplayFp /\ ReplayFp' = ReplayFp
  <2>1. ReplayFp \in Fp /\ ReplayFp # None /\ replay.rec \in Rec
    BY <1>1, SourceRunAssumption DEF ReplayFp, Accepted
  <2>2. records'[replay.rec] # None /\ ReplayFp' = ReplayFp
    BY <1>1, <1>3, ReplayStores, NoneIsNoRecord DEF Shape, ReplayFp
  <2>3. CASE replay.found = ReplayFp
    BY <1>5, <2>1, <2>2, <2>3 DEF ReplayWrite
  <2>4. CASE replay.found # ReplayFp /\ replay.found # None
    <3>1. records[replay.rec] \in RecRow
      BY <1>1, <1>5, <2>1, <2>4
    <3> QED BY <1>1, <2>1, <2>2, <2>4, <3>1 DEF ReplayWrite, RecRow
  <2>5. CASE replay.found # ReplayFp /\ replay.found = None
    BY <1>1, <2>1, <2>2, <2>5 DEF ReplayWrite
  <2> QED BY <2>3, <2>4, <2>5
<1>8. \A y \in Permit : Pending(y) => Pending(y)'
  BY <1>1, <1>3 DEF Pending, AtWork
<1>9. \A y \in Permit : ~Pending(y) => records'[y] = records[y]
  BY <1>1, <1>6 DEF Pending, Rec
<1> QED BY <1>1, <1>2, <1>3, <1>4, <1>7, <1>8, <1>9, AtWorkRepairs DEF AtWork

\* The record in hand is settled with its evidence.
LEMMA ReplayEvidenceRepairs ==
  ASSUME Shape, Dated, Repairs, ReplayEvidence
  PROVE  Repairs'
<1>1. /\ replay \in ReplayState /\ AtWork /\ replay.pc = "evidence" /\ replay.rec \in Permit
      /\ replay.art \in Artifact
  BY DEF Shape, TypeOK, ReplayShape, ReplayEvidence, AtWork
<1>2. UNCHANGED <<rawArtifacts, records, run>> /\ evidence \subseteq evidence'
  BY DEF ReplayEvidence
<1>3. /\ replay'.pc = "persist" /\ replay'.parsed = replay.parsed
      /\ replay'.ver = replay.ver /\ replay'.todo = replay.todo /\ replay'.art = replay.art
      /\ replay'.quiet = replay.quiet /\ replay'.errs = replay.errs
  BY <1>1 DEF ReplayEvidence, ReplayState
<1>4. SUFFICES ASSUME replay.quiet, ~replay.errs PROVE Repairs'
  BY <1>3, RepairsVoid
<1>5. ASSUME NEW x, x = replay.rec, <<replay.ver, replay.art.content, x>> \in Backed
      PROVE  HasEvidence(x)'
  <2>1. IdOf(replay.art) \in ArtifactId
    BY <1>1 DEF Artifact, IdOf, ArtifactId
  <2>2. HasEvidence(x) \/ <<x, IdOf(replay.art)>> \in evidence'
    BY <1>5 DEF ReplayEvidence
  <2> QED BY <1>2, <2>1, <2>2 DEF HasEvidence
<1>6. records[replay.rec] # None /\ records[replay.rec].fp = ReplayFp
  BY <1>1, <1>4 DEF Repairs
<1>7. ASSUME NEW x \in Permit, Pending(x), ~Pending(x)', NEW a \in Taken, Newest(x, a)
      PROVE  Good(x, a)'
  <2>1. x = replay.rec /\ x \in Accepted(replay.ver, replay.art.content)
    BY <1>3, <1>7 DEF Pending, AtWork
  <2>2. a = replay.art
    BY <1>1, <1>4, <1>7, <2>1, NewestIsCurrent
  <2> QED BY <1>2, <1>3, <1>5, <1>6, <2>1, <2>2 DEF Good, ReplayFp
<1> QED BY <1>1, <1>2, <1>3, <1>4, <1>7, AtWorkRepairs DEF AtWork

\* The artifact is done: no permit is in hand.
LEMMA ReplayNextRepairs ==
  ASSUME Shape, Dated, Repairs, ReplayNext
  PROVE  Repairs'
<1>1. replay \in ReplayState /\ AtWork /\ replay.pc = "persist" /\ replay.parsed = {}
  BY DEF Shape, TypeOK, ReplayNext, AtWork
<1>2. UNCHANGED <<rawArtifacts, records, evidence, run>>
  BY DEF ReplayNext, db
<1>3. /\ replay'.pc = "loop" /\ replay'.ver = replay.ver /\ replay'.todo = replay.todo
      /\ replay'.quiet = replay.quiet /\ replay'.errs = replay.errs
  BY <1>1 DEF ReplayNext, ReplayState
<1>4. SUFFICES ASSUME replay.quiet, ~replay.errs PROVE Repairs'
  BY <1>3, RepairsVoid
<1>5. \A x : ~Pending(x)
  BY <1>1 DEF Pending
<1> QED BY <1>1, <1>2, <1>3, <1>4, <1>5, AtWorkRepairs

LEMMA RepairStep ==
  ASSUME Shape, RepairInv, Next
  PROVE  RepairInv'
<1> USE DEF RepairInv
<1>0. replay \in ReplayState /\ Dated'
  BY DatedStep DEF Shape, TypeOK
<1>1. ASSUME NEW r \in Run, NEW v \in Version, StartRun(r, v)
      PROVE  RepairInv'
  <2>1. replay'.quiet = FALSE
    BY <1>0, <1>1 DEF StartRun, ReplayState
  <2> QED BY <1>0, <2>1, RepairsVoid
<1>2. ASSUME NEW r \in Run, RunProgress(r) \/ RunFault(r)
      PROVE  RepairInv'
  <2>1. Active # {} /\ replay' = replay
    BY <1>2, RunIsActive, RunStep
  <2>2. ~(replay.pc # "idle" /\ replay.quiet /\ ~replay.errs)
    BY <2>1 DEF Repairs
  <2> QED BY <1>0, <2>1, <2>2, RepairsVoid
<1>3. ASSUME NEW v \in Version, StartReplay(v)
      PROVE  RepairInv'
  <2>1. /\ replay'.pc = "loop" /\ replay'.todo = rawArtifacts /\ replay'.quiet = (Active = {})
        /\ rawArtifacts' = rawArtifacts /\ run' = run
    BY <1>3 DEF StartReplay, IdleReplay, db
  <2>2. Taken' = {} /\ Active' = Active
    BY <2>1 DEF Taken, Active
  <2> QED BY <1>0, <2>1, <2>2 DEF Repairs, AtWork
<1>4. ASSUME NEW a \in replay.todo, ReplayArtifact(a)
      PROVE  RepairInv'
  <2>1. replay'.pc = "persist"
    BY <1>0, <1>4 DEF ReplayArtifact, ReplayState
  <2> QED BY <1>0, <1>4, <2>1, ReplayArtifactRepairs
<1>5. ASSUME NEW x \in Rec, ReplayRead(x) \/ ReplayReject(x)
      PROVE  RepairInv'
  <2>1. replay'.pc \in {"persist", "write"}
    BY <1>0, <1>5 DEF ReplayRead, ReplayReject, ReplayState
  <2> QED BY <1>0, <1>5, <2>1, ReplayReadRepairs
<1>6. CASE ReplayWrite
  <2>1. replay'.pc = "evidence"
    BY <1>0, <1>6 DEF ReplayWrite, ReplayState
  <2> QED BY <1>0, <1>6, <2>1, ReplayWriteRepairs
<1>7. CASE ReplayEvidence
  <2>1. replay'.pc = "persist"
    BY <1>0, <1>7 DEF ReplayEvidence, ReplayState
  <2> QED BY <1>0, <1>7, <2>1, ReplayEvidenceRepairs
<1>8. CASE ReplayNext
  <2>1. replay'.pc = "loop"
    BY <1>0, <1>8 DEF ReplayNext, ReplayState
  <2> QED BY <1>0, <1>8, <2>1, ReplayNextRepairs
<1>9. CASE FinishReplay \/ CrashReplay
  <2>1. replay'.pc = "idle" /\ replay'.quiet = FALSE
    BY <1>9 DEF FinishReplay, CrashReplay, IdleReplay
  <2> QED BY <1>0, <2>1, RepairsVoid
<1>10. CASE ReplayItemFails \/ \E a \in replay.todo : ReplayArtifactFails(a)
  <2>1. replay'.pc = "loop" /\ replay'.errs = TRUE
    BY <1>0, <1>10 DEF ReplayItemFails, ReplayArtifactFails, ReplayState
  <2> QED BY <1>0, <2>1, RepairsVoid
<1> QED BY <1>1, <1>2, <1>3, <1>4, <1>5, <1>6, <1>7, <1>8, <1>9, <1>10
        DEF Next, ReplayProgress, ReplayFault

\* A replay that no run disturbs and no artifact fails has settled, at every moment, all
\* the permits of the artifacts it has taken up but those in its hands.
THEOREM RepairInvariant == Spec => []RepairInv
<1>1. Init => RepairInv
  BY DEF Init, RepairInv, Dated, Repairs, IdleReplay, IdleRun, Holds
<1>2. Shape /\ RepairInv /\ [Next]_vars => RepairInv'
  <2>1. CASE Next
    BY <2>1, RepairStep
  <2>2. ASSUME RepairInv, UNCHANGED vars PROVE RepairInv'
    BY <2>2 DEF vars, db, RepairInv, Dated, Holds, Repairs, AtWork, Taken, Newest, Good, Pending,
       Active, HasEvidence, ReplayFp
  <2> QED BY <2>1, <2>2
<1> QED BY <1>1, <1>2, ShapeInvariant, PTL DEF Spec

\* When such a replay is through, every permit is as the current parser reads it in the
\* newest artifact that mentions it, and has evidence where that artifact gives any.
THEOREM ReplaysConverge == Spec => []ReplayConverges
<1>1. RepairInv => ReplayConverges
  <2> SUFFICES ASSUME RepairInv, replay.pc = "loop", replay.todo = {}, replay.quiet, ~replay.errs,
                      NEW x \in Permit, NEW a \in Mentions(replay.ver, x),
                      \A b \in Mentions(replay.ver, x) : b.at <= a.at
               PROVE  Good(x, a)
    BY DEF ReplayConverges, Good
  <2>1. Taken = rawArtifacts /\ ~Pending(x)
    BY DEF Taken, Pending, AtWork
  <2>2. a \in Taken /\ Newest(x, a)
    BY <2>1 DEF Newest, Mentions
  <2> QED BY <2>1, <2>2 DEF RepairInv, Repairs
<1> QED BY <1>1, RepairInvariant, PTL

--------------------------------------------------------------------------------
(* The tables are kept as SourceStore promises.                             *)

\* What a run or a replay has in its hands can be traced to an artifact: a
\* fetch has its number, an item that is parsed was filed by this very fetch,
\* and evidence is about to be written for a record that is there and was
\* accepted.
Rooted(r) ==
    /\ Holds(r) => run[r].at >= 1
    /\ run[r].pc \in Owned =>
         \E a \in rawArtifacts : IdOf(a) = Current(r) /\ a.at = run[r].at
    /\ run[r].pc = "evidence" => /\ run[r].rec \in Accepted(run[r].ver, run[r].content)
                                 /\ records[run[r].rec] # None

ReplayRooted ==
    replay.pc = "evidence" => /\ replay.rec \in Accepted(replay.ver, replay.art.content)
                              /\ records[replay.rec] # None

TraceInv == (\A r \in Run : Rooted(r)) /\ ReplayRooted

\* A run whose item stays the one it is, or is given up, stays rooted unless it
\* comes to write evidence.
LEMMA RootedKept ==
  ASSUME Shape, Next, NEW r \in Run, Rooted(r),
         Holds(r)' => run'[r].at = run[r].at /\ Holds(r),
         run'[r].pc \in Owned =>
           /\ run[r].pc \in Owned
           /\ run'[r].url = run[r].url /\ run'[r].content = run[r].content
           /\ run'[r].at = run[r].at /\ run'[r].ver = run[r].ver,
         run'[r].pc = "evidence" => run[r].pc = "evidence" /\ run'[r].rec = run[r].rec
  PROVE  Rooted(r)'
<1>1. rawArtifacts \subseteq rawArtifacts' /\ \A x \in Rec : records[x] # None => records'[x] # None
  BY Growth DEF Shape, Grows
<1>2. Accepted(run[r].ver, run[r].content) \subseteq Rec
  BY DEF Accepted
<1> QED BY <1>1, <1>2 DEF Rooted, Holds, Current, IdOf, Owned

\* The runs stay rooted, the one that steps and the others.
LEMMA RootedStep ==
  ASSUME Shape, Dated, \A r \in Run : Rooted(r), Next
  PROVE  \A r \in Run : Rooted(r)'
<1>0. /\ run \in [Run -> RunState] /\ now \in Nat
      /\ \A s \in Run : run[s] \in RunState
  BY DEF Shape, TypeOK
<1>a. ASSUME NEW s \in Run, run'[s] = run[s] PROVE Rooted(s)'
  BY <1>a, RootedKept DEF Holds
<1>1. ASSUME NEW r \in Run, NEW v \in Version, StartRun(r, v)
      PROVE  \A s \in Run : Rooted(s)'
  <2>1. Rooted(r)'
    BY <1>0, <1>1 DEF StartRun, IdleRun, Rooted, Holds, Owned
  <2> QED BY <1>0, <1>1, <1>a, <2>1 DEF StartRun
<1>2. ASSUME NEW r \in Run, NEW u \in Url, NEW c \in Content, FetchItem(r, u, c)
      PROVE  \A s \in Run : Rooted(s)'
  <2>1. /\ run'[r].pc = "lookup" /\ run'[r].at = now + 1
        /\ \A s \in Run : s # r => run'[s] = run[s]
    BY <1>0, <1>2 DEF FetchItem, RunState
  <2>2. Rooted(r)'
    BY <1>0, <2>1 DEF Rooted, Holds, Owned
  <2> QED BY <1>a, <2>1, <2>2
<1>3. ASSUME NEW r \in Run, InsertArtifact(r)
      PROVE  \A s \in Run : Rooted(s)'
  <2> DEFINE new == [url |-> run[r].url, content |-> run[r].content, at |-> run[r].at,
                     run |-> r, ver |-> run[r].ver]
  <2>1. /\ new \in rawArtifacts' /\ IdOf(new) = Current(r) /\ new.at = run[r].at
        /\ run'[r] = [run[r] EXCEPT !.pc = "parse"]
        /\ \A s \in Run : s # r => run'[s] = run[s]
    BY <1>0, <1>3 DEF InsertArtifact, IdOf, Current
  <2> HIDE DEF new
  <2>2. /\ run'[r].pc = "parse" /\ run'[r].at = run[r].at
        /\ Current(r)' = Current(r)
    BY <1>0, <2>1 DEF RunState, Current
  <2>3. Rooted(r)'
    BY <2>1, <2>2 DEF Rooted, Holds, Owned, IdOf
  <2> QED BY <1>a, <2>1, <2>3
<1>4. ASSUME NEW r \in Run, WriteRecord(r)
      PROVE  \A s \in Run : Rooted(s)'
  <2> DEFINE x == run[r].rec
  <2>0. /\ run[r].pc = "write" /\ x \in Accepted(run[r].ver, run[r].content)
        /\ records'[x] \in RecRow
    BY <1>4, WriteStores DEF Shape, WriteRecord
  <2>1. CASE Duplicate(r, x)
    <3>1. /\ run'[r].pc = "persist" /\ run'[r].url = run[r].url /\ run'[r].content = run[r].content
          /\ run'[r].at = run[r].at /\ run'[r].ver = run[r].ver
          /\ \A s \in Run : s # r => run'[s] = run[s]
      BY <1>0, <2>1 DEF Duplicate, RunState
    <3>2. Rooted(r)'
      BY <2>0, <3>1, RootedKept DEF Holds, Owned
    <3> QED BY <1>a, <3>1, <3>2
  <2>2. CASE AfterWrite(r, x)
    <3>1. /\ run'[r].pc \in {"persist", "evidence"}
          /\ run'[r].url = run[r].url /\ run'[r].content = run[r].content
          /\ run'[r].at = run[r].at /\ run'[r].ver = run[r].ver
          /\ run'[r].pc = "evidence" => run'[r].rec = x
          /\ \A s \in Run : s # r => run'[s] = run[s]
      BY <1>0, <2>2 DEF AfterWrite, RunState
    <3>2. /\ rawArtifacts' = rawArtifacts
          /\ records'[x] # None
      BY <1>4, <2>0, NoneIsNoRecord DEF WriteRecord
    <3>3. Current(r)' = Current(r)
      BY <3>1 DEF Current
    <3>4. \E a \in rawArtifacts : IdOf(a) = Current(r) /\ a.at = run[r].at
      BY <2>0 DEF Rooted, Owned
    <3>5. Accepted(run[r].ver, run[r].content)' = Accepted(run[r].ver, run[r].content)
      BY <3>1 DEF Accepted
    <3>6. Rooted(r)'
      BY <2>0, <3>1, <3>2, <3>3, <3>4, <3>5 DEF Rooted, Holds, IdOf
    <3> QED BY <1>a, <3>1, <3>6
  <2> QED BY <1>4, <2>1, <2>2 DEF WriteRecord, Update, Insert
<1>5. ASSUME NEW r \in Run,
             \/ Discover(r) \/ NewItem(r) \/ Parse(r) \/ InsertEvidence(r)
             \/ \E x \in Rec : ReadRecord(r, x) \/ RejectRecord(r, x)
             \/ \E u \in Url : FetchFails(r, u)
      PROVE  \A s \in Run : Rooted(s)'
  <2>0. run[r] \in RunState
    BY <1>0
  <2>1. /\ Holds(r)' => run'[r].at = run[r].at /\ Holds(r)
        /\ run'[r].pc \in Owned =>
             /\ run[r].pc \in Owned
             /\ run'[r].url = run[r].url /\ run'[r].content = run[r].content
             /\ run'[r].at = run[r].at /\ run'[r].ver = run[r].ver
        /\ run'[r].pc # "evidence"
        /\ \A s \in Run : s # r => run'[s] = run[s]
    <3>1. CASE Discover(r)
      BY <1>0, <2>0, <3>1 DEF Discover, RunState, Holds, Owned
    <3>2. CASE NewItem(r)
      BY <1>0, <2>0, <3>2 DEF NewItem, RunState, Holds, Owned
    <3>3. CASE Parse(r)
      BY <1>0, <2>0, <3>3 DEF Parse, RunState, Holds, Owned
    <3>4. CASE InsertEvidence(r)
      BY <1>0, <2>0, <3>4 DEF InsertEvidence, RunState, Holds, Owned
    <3>5. CASE \E x \in Rec : ReadRecord(r, x)
      BY <1>0, <2>0, <3>5 DEF ReadRecord, RunState, Holds, Owned
    <3>6. CASE \E x \in Rec : RejectRecord(r, x)
      BY <1>0, <2>0, <3>6 DEF RejectRecord, RunState, Holds, Owned
    <3>7. CASE \E u \in Url : FetchFails(r, u)
      BY <1>0, <2>0, <3>7 DEF FetchFails, RunState, Holds, Owned
    <3> QED BY <1>5, <3>1, <3>2, <3>3, <3>4, <3>5, <3>6, <3>7
  <2>2. Rooted(r)'
    BY <2>1, RootedKept
  <2> QED BY <1>a, <2>1, <2>2
<1>6. ASSUME NEW r \in Run,
             \/ UnchangedItem(r) \/ CheckInvariants(r) \/ ItemThrows(r) \/ ItemFaults(r)
             \/ FinishRun(r) \/ FailRun(r) \/ Crash(r)
      PROVE  \A s \in Run : Rooted(s)'
  <2>1. run'[r].pc \in {"loop", "ended"} /\ \A s \in Run : s # r => run'[s] = run[s]
    <3>1. ASSUME NEW failed \in BOOLEAN, EndItem(r, failed)
          PROVE  run'[r].pc \in {"loop", "ended"} /\ \A s \in Run : s # r => run'[s] = run[s]
      BY <1>0, <3>1 DEF EndItem, RunState
    <3>2. ASSUME run' = [run EXCEPT ![r] = EndedRun]
          PROVE  run'[r].pc \in {"loop", "ended"} /\ \A s \in Run : s # r => run'[s] = run[s]
      BY <1>0, <3>2 DEF EndedRun, IdleRun
    <3> QED BY <1>6, <3>1, <3>2 DEF UnchangedItem, CheckInvariants, ItemThrows, ItemFaults,
               FinishRun, FailRun, Crash
  <2>2. Rooted(r)'
    BY <2>1 DEF Rooted, Holds, Owned
  <2> QED BY <1>a, <2>1, <2>2
<1>7. CASE ReplayProgress \/ ReplayFault \/ \E v \in Version : StartReplay(v)
  BY <1>7, <1>a, ReplayStep
<1> QED BY <1>1, <1>2, <1>3, <1>4, <1>5, <1>6, <1>7 DEF Next, RunProgress, RunFault

\* So does the replay.
LEMMA ReplayRootedStep ==
  ASSUME Shape, ReplayRooted, Next
  PROVE  ReplayRooted'
<1>0. /\ replay \in ReplayState
      /\ \A x \in Rec : records[x] # None => records'[x] # None
  BY Growth DEF Shape, TypeOK, Grows
<1>1. CASE ReplayWrite
  <2>1. /\ replay.rec \in Accepted(replay.ver, replay.art.content)
        /\ records'[replay.rec] \in RecRow
    BY <1>1, ReplayStores DEF Shape, ReplayShape, ReplayWrite
  <2>2. /\ replay'.rec = replay.rec /\ replay'.ver = replay.ver /\ replay'.art = replay.art
    BY <1>0, <1>1 DEF ReplayWrite, ReplayState
  <2> QED BY <2>1, <2>2, NoneIsNoRecord DEF ReplayRooted, Accepted
<1>2. ASSUME NEW v \in Version, StartReplay(v) PROVE ReplayRooted'
  BY <1>2 DEF StartReplay, IdleReplay, ReplayRooted
<1>3. ASSUME NEW a \in replay.todo, ReplayArtifact(a) \/ ReplayArtifactFails(a) PROVE ReplayRooted'
  BY <1>0, <1>3 DEF ReplayArtifact, ReplayArtifactFails, ReplayState, ReplayRooted
<1>4. ASSUME NEW x \in Rec, ReplayRead(x) \/ ReplayReject(x) PROVE ReplayRooted'
  BY <1>0, <1>4 DEF ReplayRead, ReplayReject, ReplayState, ReplayRooted
<1>5. CASE ReplayEvidence \/ ReplayNext \/ ReplayItemFails \/ FinishReplay \/ CrashReplay
  <2>1. replay'.pc \in {"persist", "loop", "idle"}
    <3>1. CASE ReplayEvidence
      BY <1>0, <3>1 DEF ReplayEvidence, ReplayState
    <3>2. CASE ReplayNext \/ ReplayItemFails
      BY <1>0, <3>2 DEF ReplayNext, ReplayItemFails, ReplayState
    <3>3. CASE FinishReplay \/ CrashReplay
      BY <3>3 DEF FinishReplay, CrashReplay, IdleReplay
    <3> QED BY <1>5, <3>1, <3>2, <3>3
  <2> QED BY <2>1 DEF ReplayRooted
<1>6. ASSUME replay'.pc = replay.pc, replay'.rec = replay.rec, replay'.ver = replay.ver,
             replay'.art = replay.art
      PROVE  ReplayRooted'
  BY <1>0, <1>6 DEF ReplayRooted, Accepted
<1>7. ASSUME NEW r \in Run, NEW v \in Version, StartRun(r, v) PROVE ReplayRooted'
  BY <1>0, <1>6, <1>7 DEF StartRun, ReplayState
<1>8. ASSUME NEW r \in Run, RunProgress(r) \/ RunFault(r) PROVE ReplayRooted'
  BY <1>6, <1>8, RunStep
<1> QED BY <1>1, <1>2, <1>3, <1>4, <1>5, <1>7, <1>8 DEF Next, ReplayProgress, ReplayFault

\* Everything in hand can be traced to an artifact, at every moment.
THEOREM TraceInvariant == Spec => []TraceInv
<1>1. Init => TraceInv
  BY DEF Init, TraceInv, Rooted, ReplayRooted, Holds, Owned, IdleRun, IdleReplay
<1>2. Shape /\ RepairInv /\ TraceInv /\ [Next]_vars => TraceInv'
  <2>1. ASSUME Shape, RepairInv, TraceInv, Next PROVE TraceInv'
    BY <2>1, RootedStep, ReplayRootedStep DEF TraceInv, RepairInv
  <2>2. ASSUME TraceInv, UNCHANGED vars PROVE TraceInv'
    BY <2>2 DEF vars, db, TraceInv, Rooted, ReplayRooted, Holds, Current, IdOf, Accepted
  <2> QED BY <2>1, <2>2
<1> QED BY <1>1, <1>2, ShapeInvariant, RepairInvariant, PTL DEF Spec

\* What the readers of a row see of it is a value of its own.
LEMMA RowsShow ==
  ASSUME NEW row \in RecRow
  PROVE  row # None /\ [fp |-> row.fp, art |-> row.art, first |-> row.first] # None
<1>1. [fp |-> row.fp, art |-> row.art, first |-> row.first] \in ReadersRow
  BY DEF RecRow, ReadersRow
<1> QED BY <1>1, NoneIsNoRecord

\* A step that changes one record changes one entry.
LEMMA OneEntry ==
  ASSUME NEW x \in Rec, \A y \in Rec \ {x} : records'[y] = records[y], NEW e, Entered'[x] = e
  PROVE  Entered' = [Entered EXCEPT ![x] = e]
<1>1. /\ Entered' = [y \in Rec |-> Entered'[y]]
      /\ \A y \in Rec \ {x} : Entered'[y] = Entered[y]
      /\ Entered = [y \in Rec |-> Entered[y]]
  BY DEF Entered
<1> QED BY <1>1

\* What a parser version accepts in a body can be read there.
LEMMA AcceptedReadable ==
  ASSUME NEW v \in Version, NEW c \in Content, NEW x \in Accepted(v, c)
  PROVE  x \in Rec /\ Emits[v][c][x] \in Readable[x][c]
BY DEF Accepted, Readable

\* An artifact row is filed, under its id and fetch.
LEMMA FiledRow ==
  ASSUME NEW a \in rawArtifacts
  PROVE  \E b \in Filed : Tables!Id(b) = IdOf(a) /\ b.at = a.at /\ b.content = a.content
<1> DEFINE b == [url |-> a.url, content |-> a.content, at |-> a.at]
<1>1. b \in Filed
  BY DEF Filed
<1>2. Tables!Id(b) = IdOf(a) /\ b.at = a.at /\ b.content = a.content
  BY DEF Tables!Id, IdOf
<1> QED BY <1>1, <1>2

Mapped == <<now, store, Filed, Entered, evidence>>

\* The bytes of an item are kept, and then filed.
LEMMA KeepStep ==
  ASSUME NEW r \in Run, NEW u \in Url, NEW c \in Content, FetchItem(r, u, c)
  PROVE  Tables!Next
<1>1. Tables!Keep(c)
  BY DEF FetchItem, Tables!Keep, Filed, Entered
<1> QED BY <1>1 DEF Tables!Next

LEMMA FileStep ==
  ASSUME Shape, Dated, NEW r \in Run, Rooted(r), InsertArtifact(r)
  PROVE  Tables!Next
<1> DEFINE u == run[r].url
           c == run[r].content
           t == run[r].at
           new == [url |-> u, content |-> c, at |-> t, run |-> r, ver |-> run[r].ver]
<1>1. /\ u \in Url /\ c \in Content /\ c \in store
      /\ run[r] \in RunState /\ now \in Nat
  BY DEF InsertArtifact, Shape, TypeOK, RunShape, Sound, AtItem
<1>2. t \in 1..now
  <2>1. t \in Nat /\ t >= 1 /\ t <= now
    BY <1>1 DEF InsertArtifact, Rooted, Dated, Holds, RunState
  <2> QED BY <1>1, <2>1
<1>3. Filed' = Filed \cup {[url |-> u, content |-> c, at |-> t]}
  <2>1. rawArtifacts' = rawArtifacts \cup {new}
    BY DEF InsertArtifact
  <2>2. [url |-> new.url, content |-> new.content, at |-> new.at] = [url |-> u, content |-> c, at |-> t]
    OBVIOUS
  <2> HIDE DEF new, u, c, t
  <2>3. \A b : b \in Filed' <=> b \in Filed \cup {[url |-> u, content |-> c, at |-> t]}
    BY <2>1, <2>2 DEF Filed
  <2> QED BY <2>3
<1>4. \A b \in Filed : b.at # t /\ Tables!Id(b) # <<u, c>>
  <2> SUFFICES ASSUME NEW b \in Filed PROVE b.at # t /\ Tables!Id(b) # <<u, c>>
    OBVIOUS
  <2>1. PICK a \in rawArtifacts : b = [url |-> a.url, content |-> a.content, at |-> a.at]
    BY DEF Filed
  <2>2. a.at # t
    BY DEF InsertArtifact, Dated, Holds
  <2>3. IdOf(a) # <<u, c>>
    BY DEF InsertArtifact, Stored
  <2>4. Tables!Id(b) = IdOf(a) /\ b.at = a.at
    BY <2>1 DEF Tables!Id, IdOf
  <2> QED BY <2>2, <2>3, <2>4
<1>5. UNCHANGED <<now, store, Entered, evidence>>
  BY DEF InsertArtifact, Entered
<1> HIDE DEF u, c, t
<1>6. Tables!File(u, c, t)
  BY <1>1, <1>3, <1>4, <1>5 DEF Tables!File
<1> QED BY <1>1, <1>2, <1>6 DEF Tables!Next

\* The unchanged shortcut changes nothing a reader goes by.
LEMMA TouchStep ==
  ASSUME Shape, NEW r \in Run, UnchangedItem(r)
  PROVE  UNCHANGED Mapped
<1>1. ASSUME NEW x \in Rec PROVE Entered'[x] = Entered[x]
  <2>1. CASE records'[x] = records[x]
    BY <2>1 DEF Entered
  <2>2. CASE records[x] # None /\ records'[x] = [records[x] EXCEPT !.seen = run[r].at]
    <3>1. records[x] \in RecRow /\ run[r].at \in Nat
      BY <2>2 DEF Shape, TypeOK, RunState
    <3>2. /\ records'[x] \in RecRow /\ records'[x].fp = records[x].fp
          /\ records'[x].art = records[x].art /\ records'[x].first = records[x].first
      BY <2>2, <3>1 DEF RecRow
    <3> QED BY <2>2, <3>2, RowsShow DEF Entered
  <2> QED BY <2>1, <2>2 DEF UnchangedItem
<1>2. Entered' = Entered
  BY <1>1 DEF Entered
<1> QED BY <1>2 DEF UnchangedItem, Mapped, Filed

\* What a run or a replay writes is written from an artifact in which it can be read.
LEMMA WriteStep ==
  ASSUME NEW x \in Rec, NEW a \in rawArtifacts, NEW fp \in Readable[x][a.content],
         \A y \in Rec \ {x} : records'[y] = records[y],
         records[x] \in RecRow \cup {None}, records'[x] \in RecRow,
         records'[x].fp = fp,
         \/ /\ records[x] = None
            /\ records'[x].art = IdOf(a) /\ records'[x].first = a.at
         \/ /\ records[x] # None
            /\ records'[x].art \in {records[x].art, IdOf(a)}
            /\ records'[x].first = records[x].first,
         UNCHANGED <<now, store, rawArtifacts, evidence>>
  PROVE  Tables!Next
<1>1. PICK b \in Filed : Tables!Id(b) = IdOf(a) /\ b.at = a.at /\ b.content = a.content
  BY FiledRow
<1>2. Entered'[x] = [fp |-> fp, art |-> records'[x].art, first |-> records'[x].first]
  BY RowsShow DEF Entered
<1>3. UNCHANGED <<now, store, Filed, evidence>>
  BY DEF Filed
<1>4. CASE records[x] = None
  <2>1. Entered[x] = None
    BY <1>4 DEF Entered
  <2>2. Entered'[x] = [fp |-> fp, art |-> Tables!Id(b), first |-> b.at]
    BY <1>1, <1>2, <1>4
  <2>3. Entered' = [Entered EXCEPT ![x] = [fp |-> fp, art |-> Tables!Id(b), first |-> b.at]]
    BY <2>2, OneEntry
  <2> QED BY <1>1, <1>3, <2>1, <2>3 DEF Tables!Next, Tables!Write, Tables!Enter
<1>5. CASE records[x] # None
  <2>1. /\ Entered[x] = [fp |-> records[x].fp, art |-> records[x].art, first |-> records[x].first]
        /\ Entered[x] # None
    BY <1>5, RowsShow DEF Entered
  <2>2. CASE records'[x].art = IdOf(a)
    <3>1. Entered'[x] = [fp |-> fp, art |-> Tables!Id(b), first |-> Entered[x].first]
      BY <1>1, <1>2, <1>5, <2>1, <2>2
    <3>2. Entered' = [Entered EXCEPT ![x] =
                        [fp |-> fp, art |-> Tables!Id(b), first |-> Entered[x].first]]
      BY <3>1, OneEntry
    <3> QED BY <1>1, <1>3, <2>1, <3>2 DEF Tables!Next, Tables!Write, Tables!Amend
  <2>3. CASE records'[x].art = records[x].art
    <3>1. Entered'[x] = [Entered[x] EXCEPT !.fp = fp]
      BY <1>2, <1>5, <2>1, <2>3
    <3>2. Entered' = [Entered EXCEPT ![x] = [Entered[x] EXCEPT !.fp = fp]]
      BY <3>1, OneEntry
    <3> QED BY <1>1, <1>3, <2>1, <3>2 DEF Tables!Next, Tables!Write, Tables!Correct
  <2> QED BY <1>5, <2>2, <2>3
<1> QED BY <1>4, <1>5

\* A write that leaves what a reader goes by.
LEMMA SameStep ==
  ASSUME NEW x \in Rec, \A y \in Rec \ {x} : records'[y] = records[y],
         records[x] \in RecRow, records'[x] \in RecRow,
         records'[x].fp = records[x].fp, records'[x].art = records[x].art,
         records'[x].first = records[x].first,
         UNCHANGED <<now, store, rawArtifacts, evidence>>
  PROVE  UNCHANGED Mapped
<1>1. Entered'[x] = Entered[x]
  BY RowsShow DEF Entered
<1>2. \A y \in Rec : Entered'[y] = Entered[y]
  BY <1>1 DEF Entered
<1>3. Entered' = Entered
  BY <1>2 DEF Entered
<1> QED BY <1>3 DEF Mapped, Filed

\* Evidence is written of a record that is entered and accepted.
LEMMA CiteStep ==
  ASSUME NEW a \in rawArtifacts, NEW x \in Rec, records[x] \in RecRow,
         Readable[x][a.content] # {},
         evidence' = evidence \cup {<<x, IdOf(a)>>},
         UNCHANGED <<now, store, rawArtifacts, records>>
  PROVE  Tables!Next
<1>1. PICK b \in Filed : Tables!Id(b) = IdOf(a) /\ b.content = a.content
  BY FiledRow
<1>2. Entered[x] # None
  BY RowsShow DEF Entered
<1>3. UNCHANGED <<now, store, Filed, Entered>>
  BY DEF Filed, Entered
<1> QED BY <1>1, <1>2, <1>3 DEF Tables!Next, Tables!Cite

\* A write of the persist loop.
LEMMA RunWriteStep ==
  ASSUME Shape, NEW r \in Run, Rooted(r), WriteRecord(r)
  PROVE  Tables!Next \/ UNCHANGED Mapped
<1> DEFINE x  == run[r].rec
           fp == FpOf(r)
<1>1. /\ x \in Accepted(run[r].ver, run[r].content) /\ x \in Rec
      /\ run[r].ver \in Version /\ run[r].content \in Content
      /\ records'[x] \in RecRow /\ \A y \in Rec \ {x} : records'[y] = records[y]
      /\ UNCHANGED <<now, store, rawArtifacts, evidence>>
      /\ records \in [Rec -> RecRow \cup {None}]
      /\ run[r].found # None => records[x] \in RecRow
    BY WriteStores DEF Shape, TypeOK, RunShape, Sound, InFlight, AtItem, WriteRecord, Accepted
<1>2. PICK a \in rawArtifacts : IdOf(a) = Current(r) /\ a.at = run[r].at
  BY DEF WriteRecord, Rooted, Owned
<1>3. a.content = run[r].content /\ fp \in Readable[x][a.content] /\ fp \in Fp
  <2>1. a.content = run[r].content
    BY <1>2 DEF IdOf, Current
  <2> QED BY <1>1, <2>1, AcceptedReadable DEF FpOf, Accepted
<1>4. CASE Duplicate(r, x)
  <2>1. records[x] \in RecRow
    BY <1>1, <1>3, <1>4, SourceRunAssumption DEF Duplicate
  <2>2. records'[x] = [records[x] EXCEPT !.seen = run[r].at]
    BY <1>1, <1>4 DEF Duplicate
  <2>3. /\ records'[x].fp = records[x].fp /\ records'[x].art = records[x].art
        /\ records'[x].first = records[x].first
    BY <2>1, <2>2 DEF RecRow
  <2> QED BY <1>1, <2>1, <2>3, SameStep
<1>5. CASE Update(r, x)
  <2>1. records[x] \in RecRow /\ records[x] # None
    BY <1>1, <1>5, NoneIsNoRecord DEF Update
  <2>2. records'[x] = [records[x] EXCEPT !.fp = fp, !.art = Current(r), !.seen = run[r].at]
    BY <1>1, <1>5 DEF Update, Current
  <2>3. /\ records'[x].fp = fp /\ records'[x].art = IdOf(a)
        /\ records'[x].first = records[x].first
    BY <1>2, <2>1, <2>2 DEF RecRow
  <2> QED BY <1>1, <1>3, <2>1, <2>3, WriteStep
<1>6. CASE Insert(r, x)
  <2>1. records[x] = None
    BY <1>6 DEF Insert
  <2>2. records'[x] = [fp |-> fp, art |-> Current(r), first |-> run[r].at, seen |-> run[r].at]
    BY <1>1, <1>6 DEF Insert, Current
  <2>3. /\ records'[x].fp = fp /\ records'[x].art = IdOf(a) /\ records'[x].first = a.at
    BY <1>2, <2>2
  <2> QED BY <1>1, <1>3, <2>1, <2>3, WriteStep
<1> QED BY <1>4, <1>5, <1>6 DEF WriteRecord

\* The write of a replay.
LEMMA ReplayWriteStep ==
  ASSUME Shape, ReplayWrite
  PROVE  Tables!Next \/ UNCHANGED Mapped
<1> DEFINE x  == replay.rec
           fp == ReplayFp
           a  == replay.art
<1>1. /\ x \in Accepted(replay.ver, a.content) /\ x \in Rec
      /\ replay.ver \in Version /\ a \in rawArtifacts /\ a.content \in Content
      /\ records'[x] \in RecRow /\ \A y \in Rec \ {x} : records'[y] = records[y]
      /\ UNCHANGED <<now, store, rawArtifacts, evidence>>
      /\ records \in [Rec -> RecRow \cup {None}]
      /\ replay.found # None => records[x] \in RecRow
  BY ReplayStores DEF Shape, TypeOK, ReplayShape, ReplayWrite, Accepted, Artifact
<1>2. fp \in Readable[x][a.content] /\ fp \in Fp
  BY <1>1, AcceptedReadable DEF ReplayFp, Accepted
<1>3. CASE replay.found = fp
  BY <1>1, <1>3 DEF ReplayWrite, Mapped, Filed, Entered
<1>4. CASE replay.found # fp /\ replay.found # None
  <2>1. records[x] \in RecRow /\ records[x] # None
    BY <1>1, <1>4, NoneIsNoRecord
  <2>2. records'[x] = [records[x] EXCEPT !.fp = fp]
    BY <1>1, <1>4 DEF ReplayWrite
  <2>3. /\ records'[x].fp = fp /\ records'[x].art = records[x].art
        /\ records'[x].first = records[x].first
    BY <2>1, <2>2 DEF RecRow
  <2> QED BY <1>1, <1>2, <2>1, <2>3, WriteStep
<1>5. CASE replay.found # fp /\ replay.found = None
  <2>1. records[x] = None
    BY <1>5 DEF ReplayWrite
  <2>2. records'[x] = [fp |-> fp, art |-> IdOf(a), first |-> a.at, seen |-> a.at]
    BY <1>1, <1>5 DEF ReplayWrite
  <2>3. /\ records'[x].fp = fp /\ records'[x].art = IdOf(a) /\ records'[x].first = a.at
    BY <2>2
  <2> QED BY <1>1, <1>2, <2>1, <2>3, WriteStep
<1> QED BY <1>3, <1>4, <1>5

\* The evidence a run writes, and the evidence a replay writes.
LEMMA RunCiteStep ==
  ASSUME Shape, NEW r \in Run, Rooted(r), InsertEvidence(r)
  PROVE  Tables!Next \/ UNCHANGED Mapped
<1>1. PICK a \in rawArtifacts : IdOf(a) = Current(r)
  BY DEF InsertEvidence, Rooted, Owned
<1>2. PICK x : x = run[r].rec
  OBVIOUS
<1>3. /\ x \in Accepted(run[r].ver, run[r].content) /\ x \in Rec
      /\ records[x] \in RecRow
      /\ run[r].ver \in Version /\ run[r].content \in Content
  BY <1>2 DEF InsertEvidence, Rooted, Accepted, Shape, TypeOK, RunShape, Sound, InFlight, AtItem
<1>4. Readable[x][a.content] # {}
  <2>1. a.content = run[r].content
    BY <1>1 DEF IdOf, Current
  <2> QED BY <1>3, <2>1, AcceptedReadable
<1>5. UNCHANGED <<now, store, rawArtifacts, records>>
  BY DEF InsertEvidence
<1>6. CASE evidence' = evidence
  BY <1>5, <1>6 DEF Mapped, Filed, Entered
<1>7. CASE evidence' = evidence \cup {<<x, IdOf(a)>>}
  BY <1>3, <1>4, <1>5, <1>7, CiteStep
<1> QED BY <1>1, <1>2, <1>6, <1>7 DEF InsertEvidence, Current

LEMMA ReplayCiteStep ==
  ASSUME Shape, ReplayRooted, ReplayEvidence
  PROVE  Tables!Next \/ UNCHANGED Mapped
<1>1. PICK x, a : x = replay.rec /\ a = replay.art
  OBVIOUS
<1>2. /\ x \in Accepted(replay.ver, a.content) /\ x \in Rec
      /\ records[x] \in RecRow
      /\ a \in rawArtifacts /\ replay.ver \in Version /\ a.content \in Content
  BY <1>1 DEF ReplayEvidence, ReplayRooted, Accepted, Shape, TypeOK, ReplayShape, Artifact
<1>3. Readable[x][a.content] # {}
  BY <1>2, AcceptedReadable
<1>4. UNCHANGED <<now, store, rawArtifacts, records>>
  BY DEF ReplayEvidence
<1>5. CASE evidence' = evidence
  BY <1>4, <1>5 DEF Mapped, Filed, Entered
<1>6. CASE evidence' = evidence \cup {<<x, IdOf(a)>>}
  BY <1>2, <1>3, <1>4, <1>6, CiteStep
<1> QED BY <1>1, <1>5, <1>6 DEF ReplayEvidence

\* Every step of a run or a replay is a step of the tables, or none.
LEMMA TablesStep ==
  ASSUME Shape, Dated, TraceInv, Next
  PROVE  Tables!Next \/ UNCHANGED Mapped
<1>1. ASSUME NEW r \in Run, NEW u \in Url, NEW c \in Content, FetchItem(r, u, c)
      PROVE  Tables!Next
  BY <1>1, KeepStep
<1>2. ASSUME NEW r \in Run, InsertArtifact(r) \/ InsertEvidence(r)
      PROVE  Tables!Next \/ UNCHANGED Mapped
  BY <1>2, FileStep, RunCiteStep DEF TraceInv
<1>3. ASSUME NEW r \in Run, UnchangedItem(r) \/ WriteRecord(r)
      PROVE  Tables!Next \/ UNCHANGED Mapped
  BY <1>3, TouchStep, RunWriteStep DEF TraceInv
<1>4. CASE ReplayWrite \/ ReplayEvidence
  BY <1>4, ReplayWriteStep, ReplayCiteStep DEF TraceInv
<1>5. CASE UNCHANGED <<now, store, rawArtifacts, records, evidence>>
  BY <1>5 DEF Mapped, Filed, Entered
<1> QED BY <1>1, <1>2, <1>3, <1>4, <1>5 DEF Next, RunProgress, RunFault,
  ReplayProgress, ReplayFault, StartRun, Discover, FetchFails, NewItem, Parse, ReadRecord,
  RejectRecord, CheckInvariants, ItemThrows, ItemFaults, FinishRun, FailRun, Crash,
  StartReplay, ReplayArtifact, ReplayArtifactFails, ReplayRead, ReplayReject, ReplayNext,
  ReplayItemFails, FinishReplay, CrashReplay, db

\* Overlapping runs and a replay that share no transaction and stop anywhere leave the
\* tables as SourceStore promises: bytes before rows, one row a fetch, a record dated
\* by the artifact it was entered from and never redated, entered twice or lost, no
\* evidence before its record.
THEOREM TablesImplement == Spec => TablesAreKept
<1>1. Init => Tables!Init
  BY DEF Init, Tables!Init, Filed, Entered
<1>2. Shape /\ RepairInv /\ TraceInv /\ [Next]_vars => [Tables!Next]_(Tables!tables)
  <2>1. CASE UNCHANGED vars
    BY <2>1 DEF vars, db, Tables!tables, Filed, Entered
  <2> QED BY <2>1, TablesStep DEF RepairInv, Mapped, Tables!tables
<1> QED BY <1>1, <1>2, ShapeInvariant, RepairInvariant, TraceInvariant, PTL
        DEF Spec, TablesAreKept, Tables!Spec

--------------------------------------------------------------------------------
(* Feeds.                                                                   *)

\* A checkpoint claims no more than the publisher has shown.
Modest(cp) == cp # Unset => /\ cp.mark <= NewestDate
                            /\ \A i \in Item : cp.seen[i] <= listing[i].version

\* A checkpoint from which a run asks for everything that is not accounted for.
Honest(cp) == Modest(cp) /\ \A i \in Published : Settled(i) \/ Due(cp, i)

\* What a run has still to fetch fits its kind, and is no newer than the publisher.
Fit(j) == \A k \in DOMAIN j.todo :
    LET entry == j.todo[k]
    IN  IF feed = "rows" THEN entry.url \in Page
        ELSE entry.url \in Item /\ entry.closing <= listing[entry.url].version

\* So recent that whatever the run leaves as its checkpoint asks for it again.
Recent(j, i) == IF feed = "rows" THEN listing[i].date >= NewestDate - Lag
                ELSE Due(Held(j), i)

\* Still to be fetched by the run.
Waits(j, i) == \E k \in DOMAIN j.todo : i \in Behind(j.todo[k].url)

Covered(j, i) ==
    \/ Settled(i)
    \/ <<i, listing[i].version>> \in j.missed
    \/ Recent(j, i)
    \/ feed # "board" /\ Waits(j, i)

Fetching(j) == Modest(Held(j)) /\ Fit(j) /\ \A i \in Published : Covered(j, i)

\* A run in progress gets by with its checkpoint until it has looked at the publisher,
\* and then covers what it has not fetched.
Minding(j) == /\ j.pc \in {"open", "discover"} => Honest(j.from)
              /\ j.pc = "items" => Fetching(j)

FeedInv == FeedTypeOK /\ Honest(checkpoint) /\ \A w \in Worker : Minding(job[w])

--------------------------------------------------------------------------------
(* Numbers.                                                                 *)

LEMMA LeastNumber ==
    ASSUME NEW S \in SUBSET Nat, S # {} PROVE \E n \in S : \A m \in S : n <= m
<1>1. IsWellFoundedOn(OpToRel(<, Nat), Nat)
  BY NatLessThanWellFounded
<1>2. PICK n \in S : \A m \in S : ~(<<m, n>> \in OpToRel(<, Nat))
  BY <1>1, WFMin
<1>3. ASSUME NEW m \in S PROVE n <= m
  <2>1. ~(m < n)
    BY <1>2 DEF OpToRel
  <2> QED BY <2>1
<1> QED BY <1>3

\* A non-empty set of numbers up to top has a largest one, which Max chooses.
LEMMA LargestNumber ==
    ASSUME NEW top \in Nat, NEW S \in SUBSET (0..top), S # {}
    PROVE  Max(S) \in S /\ \A m \in S : m <= Max(S)
<1> DEFINE Gap == {n \in Nat : top - n \in S}
<1>1. PICK x \in S : TRUE
  OBVIOUS
<1>2. top - x \in Gap
  <2>1. top - x \in Nat /\ top - (top - x) = x
    BY <1>1
  <2> QED BY <2>1
<1>3. PICK n \in Gap : \A m \in Gap : n <= m
  BY <1>2, LeastNumber
<1>4. ASSUME NEW m \in S PROVE top - n >= m
  <2>1. top - m \in Gap
    <3>1. top - m \in Nat /\ top - (top - m) = m
      OBVIOUS
    <3> QED BY <3>1
  <2>2. n <= top - m /\ n \in Nat /\ m \in Nat
    BY <1>3, <2>1
  <2> HIDE DEF Gap
  <2> QED BY <2>2
<1>5. \E y \in S : \A m \in S : y >= m
  BY <1>3, <1>4
<1>6. Max(S) \in S /\ \A m \in S : Max(S) >= m
  BY <1>5, Zenon DEF Max
<1> QED BY <1>6

LEMMA MaxOfTwo ==
    ASSUME NEW m \in Int, NEW n \in Int PROVE Max({m, n}) = IF m >= n THEN m ELSE n
<1> DEFINE top == IF m >= n THEN m ELSE n
<1>1. top \in {m, n} /\ \A y \in {m, n} : top >= y
  OBVIOUS
<1>2. \A x \in {m, n} : (\A y \in {m, n} : x >= y) => x = top
  OBVIOUS
<1> HIDE DEF top
<1>3. (CHOOSE x \in {m, n} : \A y \in {m, n} : x >= y) = top
  BY <1>1, <1>2
<1> QED BY <1>3 DEF Max, top

LEMMA MinOfTwo ==
    ASSUME NEW m \in Int, NEW n \in Int PROVE Min({m, n}) = IF m <= n THEN m ELSE n
<1> DEFINE least == IF m <= n THEN m ELSE n
<1>1. least \in {m, n} /\ \A y \in {m, n} : least <= y
  OBVIOUS
<1>2. \A x \in {m, n} : (\A y \in {m, n} : x <= y) => x = least
  OBVIOUS
<1> HIDE DEF least
<1>3. (CHOOSE x \in {m, n} : \A y \in {m, n} : x <= y) = least
  BY <1>1, <1>2
<1> QED BY <1>3 DEF Min, least

\* The newest of some dates.
LEMMA NewestOf ==
    ASSUME NEW D \in SUBSET (0..MaxDate)
    PROVE  /\ Max({0} \cup D) \in 0..MaxDate
           /\ \A d \in D : d <= Max({0} \cup D)
           /\ Max({0} \cup D) = 0 \/ Max({0} \cup D) \in D
<1>1. MaxDate \in Nat /\ ({0} \cup D) \in SUBSET (0..MaxDate) /\ ({0} \cup D) # {}
  BY FeedsAssumption
<1>2. Max({0} \cup D) \in {0} \cup D /\ \A m \in {0} \cup D : m <= Max({0} \cup D)
  BY <1>1, LargestNumber
<1> QED BY <1>1, <1>2

\* A row in place p is on one of the pages there are.
LEMMA EveryPlaceHasItsPage ==
    ASSUME NEW n \in Nat, NEW p \in 1..n
    PROVE  \E k \in 1..Pages(n) : p \in ((k - 1) * PageSize + 1)..(k * PageSize)
<1> DEFINE q == (p - 1) \div PageSize
           e == (n + PageSize - 1) \div PageSize
<1>1. PageSize \in Nat /\ PageSize >= 1
  BY FeedsAssumption
<1>2. q \in Int /\ PageSize * q <= p - 1 /\ p - 1 < PageSize * q + PageSize
  BY <1>1
<1>3. e \in Int /\ n + PageSize - 1 < PageSize * e + PageSize
  BY <1>1
<1>4. Pages(n) \in Int /\ Pages(n) >= e
  BY <1>3, MaxOfTwo DEF Pages
<1> HIDE DEF q, e
<1>5. q >= 0
  <2> SUFFICES ASSUME q <= -1 PROVE FALSE
    BY <1>2
  <2>1. PageSize * q <= PageSize * (-1)
    BY <1>1, <1>2
  <2> QED BY <1>1, <1>2, <2>1
<1>6. q + 1 <= e
  <2> SUFFICES ASSUME e <= q PROVE FALSE
    BY <1>2, <1>3
  <2>1. PageSize * e <= PageSize * q
    BY <1>1, <1>2, <1>3
  <2> QED BY <1>1, <1>2, <1>3, <2>1
<1>7. q + 1 \in 1..Pages(n)
  BY <1>2, <1>3, <1>4, <1>5, <1>6
<1>8. ((q + 1) - 1) * PageSize = PageSize * q /\ (q + 1) * PageSize = PageSize * q + PageSize
  BY <1>1, <1>2
<1>9. p \in (((q + 1) - 1) * PageSize + 1)..((q + 1) * PageSize)
  <2>1. PageSize * q \in Int
    BY <1>1, <1>2
  <2> QED BY <1>1, <1>2, <1>8, <2>1
<1> QED BY <1>7, <1>9

--------------------------------------------------------------------------------
(* The order of a page.                                                     *)

\* Two different items stand one before the other.
LEMMA BeforeIsTotal ==
    ASSUME FeedTypeOK
    PROVE  /\ \A i \in Item : ~Before(i, i)
           /\ \A i, j \in Item : i # j => Before(i, j) \/ Before(j, i)
           /\ \A i, j, k \in Item : Before(i, j) /\ Before(j, k) => Before(i, k)
<1>1. /\ \A i \in Item : listing[i].date \in Nat /\ Order[i] \in Nat
      /\ \A i, j \in Item : i # j => Order[i] # Order[j]
  BY FeedsAssumption DEF FeedTypeOK, IsInjective
<1> QED BY <1>1 DEF Before

LEMMA PlaceInRange ==
    ASSUME FeedTypeOK, NEW S \in SUBSET Item
    PROVE  /\ IsFiniteSet(S) /\ Cardinality(S) \in Nat
           /\ \A i \in S : Place(i, S) \in 1..Cardinality(S)
<1>1. IsFiniteSet(S) /\ Cardinality(S) \in Nat
  BY FeedsAssumption, FS_Subset, FS_CardinalityType
<1>2. ASSUME NEW i \in S PROVE Place(i, S) \in 1..Cardinality(S)
  <2> DEFINE R == {j \in S : Before(j, i)}
  <2>1. R \in SUBSET (S \ {i})
    BY BeforeIsTotal
  <2>2. IsFiniteSet(S \ {i}) /\ Cardinality(S \ {i}) = Cardinality(S) - 1
    BY <1>1, FS_RemoveElement
  <2> HIDE DEF R
  <2>3. IsFiniteSet(R) /\ Cardinality(R) <= Cardinality(S \ {i})
    BY <2>1, <2>2, FS_Subset
  <2>4. Cardinality(R) \in Nat
    BY <2>3, FS_CardinalityType
  <2> QED BY <1>1, <2>2, <2>3, <2>4 DEF Place, R
<1> QED BY <1>1, <1>2

LEMMA EarlierPlace ==
    ASSUME FeedTypeOK, NEW S \in SUBSET Item, NEW i \in S, NEW j \in S, Before(i, j)
    PROVE  Place(i, S) < Place(j, S)
<1> DEFINE R(x) == {k \in S : Before(k, x)}
<1>1. i \notin R(i) /\ (R(i) \cup {i}) \in SUBSET R(j)
  BY BeforeIsTotal
<1>2. IsFiniteSet(S) /\ R(i) \in SUBSET S /\ R(j) \in SUBSET S
  BY PlaceInRange
<1> HIDE DEF R
<1>3. IsFiniteSet(R(i)) /\ IsFiniteSet(R(j))
  BY <1>2, FS_Subset
<1>4. Cardinality(R(i)) \in Nat /\ Cardinality(R(j)) \in Nat
  BY <1>3, FS_CardinalityType
<1>5. Cardinality(R(i) \cup {i}) = Cardinality(R(i)) + 1
  BY <1>1, <1>3, FS_AddElement
<1>6. Cardinality(R(i) \cup {i}) <= Cardinality(R(j))
  BY <1>1, <1>3, FS_Subset
<1> QED BY <1>4, <1>5, <1>6 DEF Place, R

LEMMA PlacesDiffer ==
    ASSUME FeedTypeOK, NEW S \in SUBSET Item, NEW i \in S, NEW j \in S, i # j
    PROVE  Place(i, S) # Place(j, S)
<1>1. Before(i, j) \/ Before(j, i)
  <2>1. \A x, y \in Item : x # y => Before(x, y) \/ Before(y, x)
    BY BeforeIsTotal
  <2>2. i \in Item /\ j \in Item
    OBVIOUS
  <2> QED BY <2>1, <2>2
<1>2. Place(i, S) < Place(j, S) \/ Place(j, S) < Place(i, S)
  BY <1>1, EarlierPlace
<1>3. Place(i, S) \in Int /\ Place(j, S) \in Int
  BY PlaceInRange
<1> QED BY <1>2, <1>3

\* Every place is somebody's.
LEMMA PlacesAreTaken ==
    ASSUME FeedTypeOK, NEW S \in SUBSET Item
    PROVE  \A k \in 1..Cardinality(S) : \E i \in S : Place(i, S) = k
<1> DEFINE n == Cardinality(S)
           f == [i \in S |-> Place(i, S)]
<1>1. /\ IsFiniteSet(S) /\ n \in Nat
      /\ \A i \in S : Place(i, S) \in 1..n
  BY PlaceInRange
<1>2. \A i, j \in S : i # j => Place(i, S) # Place(j, S)
  BY PlacesDiffer
<1>3. f \in [S -> 1..n]
  BY <1>1
<1>4. f \in Injection(S, 1..n)
  BY <1>2, <1>3 DEF Injection, IsInjective
<1>5. IsFiniteSet(1..n) /\ Cardinality(1..n) = n
  BY <1>1, FS_Interval
<1> HIDE DEF f
<1>6. f \in Surjection(S, 1..n)
  BY <1>4, <1>5, FS_Injection
<1>7. \A k \in 1..n : \E i \in S : f[i] = k
  BY <1>6 DEF Surjection
<1> QED BY <1>7 DEF f

--------------------------------------------------------------------------------
(* Checkpoints and their windows.                                           *)

LEMMA NewestIs ==
    ASSUME FeedTypeOK
    PROVE  /\ NewestDate \in 0..MaxDate
           /\ \A i \in Published : listing[i].date <= NewestDate
           /\ NewestDate = 0 \/ \E i \in Published : listing[i].date = NewestDate
<1> DEFINE D == {listing[i].date : i \in Published}
<1>1. D \in SUBSET (0..MaxDate)
  BY DEF FeedTypeOK, Published
<1>2. NewestDate = Max({0} \cup D)
  BY DEF NewestDate
<1> QED BY <1>1, <1>2, NewestOf

LEMMA FloorIs ==
    ASSUME NEW cp \in Checkpoint \cup {Unset}
    PROVE  /\ Floor(cp) \in 0..MaxDate
           /\ cp = Unset => Floor(cp) = 0
           /\ cp # Unset => Floor(cp) = 0 \/ Floor(cp) = cp.mark - Overlap
<1>1. Unset \notin Checkpoint /\ Overlap \in Nat /\ MaxDate \in Nat
  BY FeedsAssumption
<1>2. CASE cp = Unset
  BY <1>1, <1>2 DEF Floor
<1>3. CASE cp \in Checkpoint
  <2>1. cp.mark \in 0..MaxDate
    BY <1>3 DEF Checkpoint
  <2>2. Floor(cp) = Max({0, cp.mark - Overlap})
    BY <1>1, <1>3 DEF Floor
  <2>3. Max({0, cp.mark - Overlap}) = IF 0 >= cp.mark - Overlap THEN 0 ELSE cp.mark - Overlap
    BY <1>1, <2>1, MaxOfTwo
  <2> QED BY <1>1, <1>3, <2>1, <2>2, <2>3
<1> QED BY <1>2, <1>3

LEMMA SeenIs ==
    ASSUME NEW cp \in Checkpoint \cup {Unset}
    PROVE  /\ Seen(cp) \in [Item -> Versions]
           /\ \A i \in Item : cp = Unset => Seen(cp)[i] = 0
           /\ cp # Unset => Seen(cp) = cp.seen
BY FeedsAssumption DEF Seen, Checkpoint, Versions

\* What is written at most Lag below the newest date is in the window of every
\* checkpoint that claims no more than the publisher has shown.
LEMMA WrittenIsDue ==
    ASSUME FeedTypeOK, NEW cp \in Checkpoint \cup {Unset}, Modest(cp), NEW d \in 0..MaxDate,
           d >= NewestDate - Lag
    PROVE  d >= Floor(cp)
<1>1. Overlap \in Nat /\ Lag \in Nat /\ Lag <= Overlap /\ MaxDate \in Nat /\ Unset \notin Checkpoint
  BY FeedsAssumption
<1>2. NewestDate \in 0..MaxDate
  BY NewestIs
<1>3. CASE cp = Unset
  BY <1>1, <1>3, FloorIs
<1>4. CASE cp \in Checkpoint
  <2>1. cp.mark \in 0..MaxDate /\ cp.mark <= NewestDate
    BY <1>1, <1>4 DEF Checkpoint, Modest
  <2>2. Floor(cp) = 0 \/ Floor(cp) = cp.mark - Overlap
    BY <1>1, <1>4, FloorIs
  <2> QED BY <1>1, <1>2, <2>1, <2>2
<1> QED BY <1>3, <1>4

--------------------------------------------------------------------------------
(* The publisher's step.                                                    *)

\* One item changes, and nothing but what the publisher shows.
LEMMA ChangeIs ==
    ASSUME FeedTypeOK, NEW i \in Item, NEW d \in 0..MaxDate, Change(i, d)
    PROVE  /\ listing'[i].date = d /\ listing'[i].version = listing[i].version + 1
           /\ \A x \in Item : x # i => listing'[x] = listing[x]
           /\ \A x \in Item : listing[x].date \in 0..MaxDate /\ listing[x].version \in Nat
           /\ \A x \in Item : listing'[x].date \in 0..MaxDate /\ listing'[x].version \in Nat
           /\ \A x \in Item : listing[x].version <= listing'[x].version
           /\ \A x \in Published : listing[x].date <= listing'[x].date
           /\ Published' = Published \cup {i}
           /\ listing' \in [Item -> [date : 0..MaxDate, version : Versions]]
<1>1. MaxRevision \in Nat /\ MaxDate \in Nat
  BY FeedsAssumption
<1>2. listing \in [Item -> [date : 0..MaxDate, version : 0..MaxRevision]]
  BY DEF FeedTypeOK, Versions
<1>3. /\ listing[i].version < MaxRevision
      /\ listing[i].version > 0 => d >= listing[i].date
      /\ listing' = [listing EXCEPT ![i] = [date |-> d, version |-> listing[i].version + 1]]
  BY DEF Change
<1>4. \A x \in Item : listing[x].date \in 0..MaxDate /\ listing[x].version \in 0..MaxRevision
  BY <1>2
<1>5. listing'[i] = [date |-> d, version |-> listing[i].version + 1]
  BY <1>2, <1>3
<1>6. \A x \in Item : x # i => listing'[x] = listing[x]
  BY <1>2, <1>3
<1>7. listing[i].version + 1 \in 0..MaxRevision
  BY <1>1, <1>3, <1>4
<1>8. listing' \in [Item -> [date : 0..MaxDate, version : 0..MaxRevision]]
  BY <1>2, <1>3, <1>7
<1>9. Published' = Published \cup {i}
  BY <1>1, <1>4, <1>5, <1>6 DEF Published
<1> QED BY <1>1, <1>3, <1>4, <1>5, <1>6, <1>7, <1>8, <1>9 DEF Published, Versions

\* The newest date moves up, and only with a date above it.
LEMMA NewestMovesUp ==
    ASSUME FeedTypeOK, NEW i \in Item, NEW d \in 0..MaxDate, Change(i, d)
    PROVE  /\ NewestDate' \in 0..MaxDate /\ NewestDate <= NewestDate'
           /\ d <= NewestDate => NewestDate' = NewestDate
<1>1. /\ listing'[i].date = d
      /\ \A x \in Item : x # i => listing'[x] = listing[x]
      /\ \A x \in Item : listing'[x].date \in 0..MaxDate
      /\ \A x \in Published : listing[x].date <= listing'[x].date
      /\ Published' = Published \cup {i} /\ Published \subseteq Item
  BY ChangeIs DEF Published
<1>2. PICK D : D = {listing'[x].date : x \in Published'}
  OBVIOUS
<1>3. D \in SUBSET (0..MaxDate)
  BY <1>1, <1>2
<1>4. NewestDate' = Max({0} \cup D)
  BY <1>2 DEF NewestDate
<1>5. /\ NewestDate' \in 0..MaxDate
      /\ \A x \in D : x <= NewestDate'
      /\ NewestDate' = 0 \/ NewestDate' \in D
  BY <1>3, <1>4, NewestOf
<1>6. /\ NewestDate \in 0..MaxDate
      /\ \A x \in Published : listing[x].date <= NewestDate
      /\ NewestDate = 0 \/ \E x \in Published : listing[x].date = NewestDate
  BY NewestIs
<1>7. MaxDate \in Nat
  BY FeedsAssumption
<1>8. NewestDate <= NewestDate'
  <2>1. CASE NewestDate = 0
    BY <1>5, <1>7, <2>1
  <2>2. CASE \E x \in Published : listing[x].date = NewestDate
    <3>1. PICK x \in Published : listing[x].date = NewestDate
      BY <2>2
    <3>2. listing'[x].date \in D
      BY <1>1, <1>2
    <3>3. listing'[x].date \in 0..MaxDate
      BY <1>1
    <3> QED BY <1>1, <1>5, <1>6, <1>7, <3>1, <3>2, <3>3
  <2> QED BY <1>6, <2>1, <2>2
<1>9. ASSUME d <= NewestDate PROVE NewestDate' <= NewestDate
  <2>1. \A x \in Published' : listing'[x].date <= NewestDate
    BY <1>1, <1>6, <1>9
  <2> QED BY <1>2, <1>5, <1>6, <1>7, <2>1
<1> QED BY <1>5, <1>6, <1>7, <1>8, <1>9

\* A checkpoint the publisher has been shown to stays so, and asks for what has changed.
LEMMA ChangeIsDue ==
    ASSUME FeedTypeOK, NEW i \in Item, NEW d \in 0..MaxDate, Change(i, d),
           NEW cp \in Checkpoint \cup {Unset}, Modest(cp)
    PROVE  /\ Modest(cp)' /\ Due(cp, i)'
           /\ \A x \in Item : x # i /\ Due(cp, x) => Due(cp, x)'
<1>1. /\ listing'[i].date = d /\ listing'[i].version = listing[i].version + 1
      /\ \A x \in Item : x # i => listing'[x] = listing[x]
      /\ \A x \in Item : listing[x].version \in Nat /\ listing'[x].version \in Nat
      /\ \A x \in Item : listing[x].version <= listing'[x].version
  BY ChangeIs
<1>2. NewestDate \in 0..MaxDate /\ NewestDate' \in 0..MaxDate /\ NewestDate <= NewestDate'
  BY NewestIs, NewestMovesUp
<1>3. feed' = feed /\ MaxDate \in Nat /\ Unset \notin Checkpoint /\ MaxRevision \in Nat
  BY FeedsAssumption DEF Change
<1>4. Modest(cp)'
  <2> SUFFICES ASSUME cp # Unset
               PROVE  cp.mark <= NewestDate' /\ \A x \in Item : cp.seen[x] <= listing'[x].version
    BY DEF Modest
  <2>1. cp.mark \in 0..MaxDate /\ \A x \in Item : cp.seen[x] \in 0..MaxRevision
    BY DEF Checkpoint, Versions
  <2>2. cp.mark <= NewestDate /\ \A x \in Item : cp.seen[x] <= listing[x].version
    BY DEF Modest
  <2> QED BY <1>1, <1>2, <1>3, <2>1, <2>2
<1>5. feed # "board" => d >= Floor(cp)
  BY WrittenIsDue DEF Change
<1>6. Seen(cp)[i] # listing[i].version + 1
  <2>1. CASE cp = Unset
    BY <1>1, <2>1, SeenIs
  <2>2. CASE cp # Unset
    <3>1. Seen(cp)[i] = cp.seen[i] /\ cp.seen[i] <= listing[i].version /\ cp.seen[i] \in 0..MaxRevision
      BY <2>2, SeenIs DEF Modest, Checkpoint, Versions
    <3> QED BY <1>1, <1>3, <3>1
  <2> QED BY <2>1, <2>2
<1>7. Due(cp, i)'
  BY <1>1, <1>3, <1>5, <1>6 DEF Due, Floor, Seen
<1>8. \A x \in Item : x # i /\ Due(cp, x) => Due(cp, x)'
  BY <1>1, <1>3 DEF Due, Floor, Seen
<1> QED BY <1>4, <1>7, <1>8

LEMMA ChangeKeepsHonest ==
    ASSUME FeedTypeOK, NEW i \in Item, NEW d \in 0..MaxDate, Change(i, d),
           NEW cp \in Checkpoint \cup {Unset}, Honest(cp)
    PROVE  Honest(cp)'
<1>1. Modest(cp)' /\ Due(cp, i)' /\ \A x \in Item : x # i /\ Due(cp, x) => Due(cp, x)'
  BY ChangeIsDue DEF Honest
<1>2. Published' = Published \cup {i} /\ \A x \in Item : x # i => listing'[x] = listing[x]
  BY ChangeIs
<1>3. \A x \in Published : x # i /\ Settled(x) => Settled(x)'
  BY <1>2 DEF Settled, Change, Published
<1>4. ASSUME NEW x \in Published' PROVE Settled(x)' \/ Due(cp, x)'
  BY <1>1, <1>2, <1>3 DEF Honest, Published
<1> QED BY <1>1, <1>4 DEF Honest

\* A row that is not recent keeps its place, and so its page.
LEMMA RowsKeepTheirPage ==
    ASSUME FeedTypeOK, feed = "rows", NEW i \in Item, NEW d \in 0..MaxDate, Change(i, d),
           NEW x \in Item, x # i, listing[x].date < NewestDate - Lag, NEW url \in Page,
           x \in Behind(url)
    PROVE  x \in Behind(url)'
<1>1. /\ listing'[i].date = d /\ listing'[i].version = listing[i].version + 1
      /\ \A y \in Item : y # i => listing'[y] = listing[y]
      /\ \A y \in Item : listing[y].date \in 0..MaxDate /\ listing[y].version \in Nat
  BY ChangeIs
<1>2. /\ feed' = feed /\ d >= NewestDate - Lag
      /\ listing[i].version > 0 => d = listing[i].date
  BY DEF Change
<1>3. NewestDate \in Nat /\ Lag \in Nat /\ MaxDate \in Nat
  BY FeedsAssumption, NewestIs
<1>4. d > listing[x].date
  BY <1>1, <1>2, <1>3
<1>5. PICK floor \in 0..MaxDate : floor = url.floor
  BY DEF Page
<1>6. x \in InWindow(floor) /\ x \in InWindow(floor)'
  BY <1>1, <1>5 DEF Behind, InWindow, Published
<1>7. \A y \in Item : y \in InWindow(floor) /\ Before(y, x) <=> y \in InWindow(floor)' /\ Before(y, x)'
  <2> SUFFICES ASSUME NEW y \in Item
               PROVE  y \in InWindow(floor) /\ Before(y, x) <=> y \in InWindow(floor)' /\ Before(y, x)'
    OBVIOUS
  <2>1. CASE y = i
    <3>1. ~Before(y, x)'
      BY <1>1, <1>2, <1>4, <2>1 DEF Before
    <3>2. ~(y \in InWindow(floor) /\ Before(y, x))
      BY <1>1, <1>2, <1>4, <2>1 DEF Before, InWindow, Published
    <3> QED BY <3>1, <3>2
  <2>2. CASE y # i
    BY <1>1, <1>2, <2>2 DEF Before, InWindow, Published
  <2> QED BY <2>1, <2>2
<1>8. {y \in InWindow(floor) : Before(y, x)} = {y \in InWindow(floor)' : Before(y, x)'}
  BY <1>7 DEF InWindow, Published
<1>9. Place(x, InWindow(floor))' = Place(x, InWindow(floor))
  BY <1>8 DEF Place
<1> QED BY <1>2, <1>5, <1>6, <1>9 DEF Behind

\* What a run has not fetched it will, or its checkpoint asks for it again.
LEMMA ChangeKeepsFetching ==
    ASSUME FeedTypeOK, NEW i \in Item, NEW d \in 0..MaxDate, Change(i, d),
           NEW j \in Job, feed = "rows" => d <= NewestDate, Fetching(j)
    PROVE  Fetching(j)'
<1>1. PICK cp \in Checkpoint \cup {Unset} : cp = Held(j)
  BY DEF Job, Held
<1>2. Modest(cp)' /\ Due(cp, i)' /\ \A x \in Item : x # i /\ Due(cp, x) => Due(cp, x)'
  BY <1>1, ChangeIsDue DEF Fetching
<1>3. /\ listing'[i].date = d
      /\ Published' = Published \cup {i}
      /\ \A x \in Item : x # i => listing'[x] = listing[x]
      /\ \A x \in Item : listing[x].version \in Nat /\ listing'[x].version \in Nat
      /\ \A x \in Item : listing[x].version <= listing'[x].version
  BY ChangeIs
<1>4. feed' = feed /\ d >= NewestDate - Lag
  BY DEF Change
<1>5. feed = "rows" => NewestDate' = NewestDate
  BY NewestMovesUp
<1>6. Fit(j)'
  <2>1. ASSUME NEW k \in DOMAIN j.todo
        PROVE  IF feed = "rows" THEN j.todo[k].url \in Page
               ELSE j.todo[k].url \in Item /\ j.todo[k].closing <= listing'[j.todo[k].url].version
    <3>1. IF feed = "rows" THEN j.todo[k].url \in Page
          ELSE j.todo[k].url \in Item /\ j.todo[k].closing <= listing[j.todo[k].url].version
      BY DEF Fetching, Fit
    <3>2. j.todo[k].closing \in Nat
      <4>1. PICK todo \in Seq(Entry) : todo = j.todo
        BY DEF Job
      <4>2. todo[k] \in Entry
        BY <4>1
      <4> QED BY <4>1, <4>2, FeedsAssumption DEF Entry, Versions
    <3> QED BY <1>3, <3>1, <3>2
  <2> QED BY <1>4, <2>1 DEF Fit
<1>7. \A x \in Published : x # i /\ Settled(x) => Settled(x)'
  BY <1>3 DEF Settled, Change, Published
<1>8. ASSUME NEW x \in Published' PROVE Covered(j, x)'
  <2>1. CASE x = i
    <3>1. Recent(j, i)'
      BY <1>1, <1>2, <1>3, <1>4, <1>5 DEF Recent
    <3> QED BY <2>1, <3>1 DEF Covered
  <2>2. CASE x # i
    <3>1. x \in Published /\ x \in Item /\ Covered(j, x)
      BY <1>3, <2>2 DEF Fetching, Published
    <3>2. CASE Settled(x)
      BY <1>7, <2>2, <3>1, <3>2 DEF Covered
    <3>3. CASE <<x, listing[x].version>> \in j.missed
      BY <1>3, <2>2, <3>1, <3>3 DEF Covered
    <3>4. Recent(j, x) => Recent(j, x)'
      BY <1>1, <1>2, <1>3, <1>4, <1>5, <2>2, <3>1 DEF Recent
    <3>5. CASE feed # "board" /\ Waits(j, x) /\ ~Recent(j, x)
      <4>1. PICK k \in DOMAIN j.todo : x \in Behind(j.todo[k].url)
        BY <3>5 DEF Waits
      <4>2. CASE feed = "rows"
        <5>1. PICK url \in Page : url = j.todo[k].url
          BY <4>2 DEF Fetching, Fit
        <5>2. listing[x].date \in Nat /\ NewestDate \in Nat /\ Lag \in Nat
          BY <3>1, FeedsAssumption, NewestIs DEF FeedTypeOK
        <5>3. listing[x].date < NewestDate - Lag
          BY <3>5, <4>2, <5>2 DEF Recent
        <5>4. x \in Behind(url)'
          BY <2>2, <3>1, <4>1, <4>2, <5>1, <5>3, RowsKeepTheirPage
        <5> QED BY <1>4, <3>5, <5>1, <5>4 DEF Covered, Waits
      <4>3. CASE feed # "rows"
        <5>1. x \in Behind(j.todo[k].url)'
          BY <1>4, <4>1, <4>3 DEF Behind
        <5> QED BY <1>4, <3>5, <5>1 DEF Covered, Waits
      <4> QED BY <4>2, <4>3
    <3> QED BY <3>1, <3>2, <3>3, <3>4, <3>5 DEF Covered
  <2> QED BY <2>1, <2>2
<1> QED BY <1>1, <1>2, <1>6, <1>8 DEF Fetching

--------------------------------------------------------------------------------
(* A step of the program: the publisher stands still, and what is accounted for *)
(* stays so.                                                                *)

Quiet ==
    /\ feed' = feed /\ listing' = listing
    /\ artifacts \subseteq artifacts' /\ letters \subseteq letters'
    /\ \A i \in Item : stored'[i] = stored[i] \/ stored'[i] = listing[i].version

LEMMA QuietSettled ==
    ASSUME Quiet, NEW i \in Item, Settled(i) PROVE Settled(i)'
BY DEF Quiet, Settled

LEMMA QuietHonest ==
    ASSUME Quiet, NEW cp, Honest(cp) PROVE Honest(cp)'
<1>1. Modest(cp)'
  BY DEF Quiet, Modest, Honest, NewestDate, Published
<1>2. Published' = Published /\ Published \subseteq Item
  BY DEF Quiet, Published
<1>3. \A i \in Published : Due(cp, i) => Due(cp, i)'
  BY DEF Quiet, Due, Seen, Floor
<1>4. \A i \in Published : Settled(i) => Settled(i)'
  BY <1>2, QuietSettled
<1> QED BY <1>1, <1>2, <1>3, <1>4 DEF Honest

LEMMA QuietBehind ==
    ASSUME Quiet, NEW url PROVE Behind(url)' = Behind(url)
<1>1. \A S : \A i \in Item : Place(i, S)' = Place(i, S)
  BY DEF Quiet, Place, Before
<1>2. \A f : InWindow(f)' = InWindow(f) /\ InWindow(f) \subseteq Item
  BY DEF Quiet, InWindow, Published
<1> QED BY <1>1, <1>2 DEF Quiet, Behind

LEMMA QuietFetching ==
    ASSUME Quiet, NEW j, Fetching(j) PROVE Fetching(j)'
<1>1. Modest(Held(j))' /\ Fit(j)'
  BY DEF Quiet, Fetching, Modest, Fit, Held, NewestDate, Published
<1>2. Published' = Published /\ Published \subseteq Item
  BY DEF Quiet, Published
<1>3. ASSUME NEW i \in Published PROVE Covered(j, i)'
  <2>1. Settled(i) => Settled(i)'
    BY <1>2, QuietSettled
  <2>2. Recent(j, i) => Recent(j, i)'
    BY DEF Quiet, Recent, Due, Seen, Floor, NewestDate, Published
  <2>3. Waits(j, i) => Waits(j, i)'
    <3>1. \A k \in DOMAIN j.todo : Behind(j.todo[k].url)' = Behind(j.todo[k].url)
      BY QuietBehind
    <3> QED BY <3>1 DEF Waits
  <2> QED BY <2>1, <2>2, <2>3 DEF Fetching, Covered, Quiet
<1> QED BY <1>1, <1>2, <1>3 DEF Fetching

\* A run whose record differs in its place among the others only minds the same.
LEMMA QuietMinding ==
    ASSUME Quiet, NEW j, NEW h, Minding(j),
           h.pc = j.pc, h.from = j.from, h.todo = j.todo, h.next = j.next, h.missed = j.missed
    PROVE  Minding(h)'
<1>1. j.pc \in {"open", "discover"} => Honest(j.from)'
  BY QuietHonest DEF Minding
<1>2. j.pc = "items" => Fetching(j)'
  BY QuietFetching DEF Minding
<1>3. Fetching(j)' => Fetching(h)'
  BY DEF Fetching, Held, Fit, Covered, Recent, Waits
<1> QED BY <1>1, <1>2, <1>3 DEF Minding

--------------------------------------------------------------------------------
(* What discover() finds.                                                   *)

\* The entries for the first n of the wanted items: each is a wanted item, and all the
\* wanted items are there when n counts them.
LEMMA EntriesAre ==
    ASSUME FeedTypeOK, NEW cp \in Checkpoint \cup {Unset}, NEW n \in 0..Cardinality(Wanted(cp))
    PROVE  /\ Entries(cp, n) \in Seq(Entry) /\ DOMAIN Entries(cp, n) = 1..n
           /\ \A k \in 1..n : /\ Entries(cp, n)[k].url \in Item
                              /\ Entries(cp, n)[k].closing = listing[Entries(cp, n)[k].url].version
           /\ n = Cardinality(Wanted(cp)) =>
                \A i \in Wanted(cp) : \E k \in 1..n : Entries(cp, n)[k].url = i
<1> DEFINE W == Wanted(cp)
           N == Cardinality(W)
           at(k) == CHOOSE i \in W : Place(i, W) = k
<1>1. W \in SUBSET Item
  BY DEF Wanted
<1>2. N \in Nat /\ \A i \in W : Place(i, W) \in 1..N
  BY <1>1, PlaceInRange
<1>3. \A k \in 1..N : \E i \in W : Place(i, W) = k
  BY <1>1, PlacesAreTaken
<1>4. \A k \in 1..N : at(k) \in W /\ Place(at(k), W) = k
  BY <1>3, Zenon
<1>5. \A i, h \in W : i # h => Place(i, W) # Place(h, W)
  BY <1>1, PlacesDiffer
<1>6. Entries(cp, n) = [k \in 1..n |-> [url |-> at(k), closing |-> listing[at(k)].version]]
  BY DEF Entries
<1>7. \A i \in W : at(Place(i, W)) = i
  BY <1>2, <1>4, <1>5
<1> HIDE DEF at, W, N
<1>8. n \in Nat /\ 1..n \subseteq 1..N
  BY <1>2 DEF N, W
<1>9. \A k \in 1..n : at(k) \in Item /\ listing[at(k)].version \in Versions
  BY <1>1, <1>4, <1>8 DEF FeedTypeOK
<1>10. \A k \in 1..n : [url |-> at(k), closing |-> listing[at(k)].version] \in Entry
  BY <1>9 DEF Entry
<1>11. Entries(cp, n) \in [1..n -> Entry]
  BY <1>6, <1>10
<1>12. \A k \in 1..n : /\ Entries(cp, n)[k].url = at(k)
                       /\ Entries(cp, n)[k].closing = listing[at(k)].version
  BY <1>6
<1>13. n = N => \A i \in W : \E k \in 1..n : at(k) = i
  BY <1>2, <1>7
<1>14. Entries(cp, n) \in Seq(Entry) /\ DOMAIN Entries(cp, n) = 1..n
  BY <1>8, <1>11
<1> QED BY <1>9, <1>12, <1>13, <1>14 DEF W, N

LEMMA KindsAre == ASSUME FeedTypeOK PROVE feed \in {"reports", "rows", "board"}
BY FeedsAssumption DEF FeedTypeOK

\* What discover() hands over fits the kind; but for the board, whose runs take a capped
\* number, it is all that the checkpoint asks for.
LEMMA DiscoveredIs ==
    ASSUME FeedTypeOK, NEW cp \in Checkpoint \cup {Unset}
    PROVE  /\ Discovered(cp) \in Seq(Entry)
           /\ \A k \in DOMAIN Discovered(cp) :
                LET entry == Discovered(cp)[k]
                IN  IF feed = "rows" THEN entry.url \in Page
                    ELSE entry.url \in Item /\ entry.closing = listing[entry.url].version
           /\ feed # "board" => \A i \in Wanted(cp) : \E k \in DOMAIN Discovered(cp) :
                                    i \in Behind(Discovered(cp)[k].url)
<1> DEFINE n == Cardinality(Wanted(cp))
<1>1. Wanted(cp) \in SUBSET Item
  BY DEF Wanted
<1>2. n \in Nat
  BY <1>1, PlaceInRange
<1>3. CASE feed = "reports"
  <2>1. Discovered(cp) = Entries(cp, n)
    BY <1>3, Zenon DEF Discovered
  <2>2. n \in 0..Cardinality(Wanted(cp))
    BY <1>2
  <2>3. \A i : Behind(i) = {i}
    BY <1>3 DEF Behind
  <2> HIDE DEF n
  <2>4. /\ Entries(cp, n) \in Seq(Entry) /\ DOMAIN Entries(cp, n) = 1..n
        /\ \A k \in 1..n : /\ Entries(cp, n)[k].url \in Item
                           /\ Entries(cp, n)[k].closing = listing[Entries(cp, n)[k].url].version
    BY <2>2, EntriesAre
  <2>5. \A i \in Wanted(cp) : \E k \in 1..n : Entries(cp, n)[k].url = i
    BY <2>2, EntriesAre DEF n
  <2>6. \A i \in Wanted(cp) : \E k \in 1..n : i \in Behind(Entries(cp, n)[k].url)
    BY <2>3, <2>5
  <2> QED BY <1>3, <2>1, <2>4, <2>6
<1>4. CASE feed = "board"
  <2>1. Discovered(cp) = Entries(cp, Min({Cap, n}))
    BY <1>4, Zenon DEF Discovered
  <2>2. Min({Cap, n}) \in 0..n
    <3>1. Cap \in Nat
      BY FeedsAssumption
    <3> QED BY <1>2, <3>1, MinOfTwo
  <2>3. PICK m \in 0..n : m = Min({Cap, n})
    BY <2>2
  <2>4. /\ Entries(cp, m) \in Seq(Entry) /\ DOMAIN Entries(cp, m) = 1..m
        /\ \A k \in 1..m : /\ Entries(cp, m)[k].url \in Item
                           /\ Entries(cp, m)[k].closing = listing[Entries(cp, m)[k].url].version
    BY EntriesAre
  <2> QED BY <1>4, <2>1, <2>3, <2>4
<1>5. CASE feed = "rows"
  <2> DEFINE e(k) == [url |-> [floor |-> Floor(cp), page |-> k], closing |-> 0]
  <2>1. Discovered(cp) = [k \in 1..Pages(n) |-> e(k)]
    BY <1>5, Zenon DEF Discovered
  <2>2. Pages(n) \in Nat \ {0}
    <3>1. PageSize \in Nat \ {0}
      BY FeedsAssumption
    <3>2. (n + PageSize - 1) \div PageSize \in Int
      BY <1>2, <3>1
    <3> QED BY <3>2, MaxOfTwo DEF Pages
  <2>3. Floor(cp) \in 0..MaxDate /\ MaxRevision \in Nat
    BY FloorIs, FeedsAssumption
  <2>4. \A k \in 1..Pages(n) : [floor |-> Floor(cp), page |-> k] \in Page /\ e(k) \in Entry
    BY <2>2, <2>3 DEF Page, Entry, Versions
  <2>5. ASSUME NEW i \in Wanted(cp)
        PROVE  \E k \in 1..Pages(n) : i \in Behind([floor |-> Floor(cp), page |-> k])
    <3> DEFINE W == InWindow(Floor(cp))
    <3>1. W = Wanted(cp)
      BY <1>5 DEF Wanted, InWindow, Due, Published
    <3>2. Place(i, W) \in 1..n
      BY <1>1, <3>1, PlaceInRange
    <3>3. PICK k \in 1..Pages(n) : Place(i, W) \in ((k - 1) * PageSize + 1)..(k * PageSize)
      BY <1>2, <3>2, EveryPlaceHasItsPage
    <3> QED BY <1>5, <3>1, <3>3 DEF Behind
  <2> HIDE DEF n
  <2>6. Discovered(cp) \in Seq(Entry)
    BY <2>1, <2>2, <2>4
  <2>7. DOMAIN Discovered(cp) = 1..Pages(n)
    BY <2>1
  <2>8. \A k \in 1..Pages(n) : Discovered(cp)[k].url = [floor |-> Floor(cp), page |-> k]
    BY <2>1
  <2>9. \A k \in DOMAIN Discovered(cp) : Discovered(cp)[k].url \in Page
    BY <2>4, <2>7, <2>8
  <2>10. \A i \in Wanted(cp) : \E k \in DOMAIN Discovered(cp) : i \in Behind(Discovered(cp)[k].url)
    BY <2>5, <2>7, <2>8
  <2> QED BY <1>5, <2>6, <2>9, <2>10
<1> QED BY <1>3, <1>4, <1>5, KindsAre

\* The checkpoint set at discovery claims what the index shows.
LEMMA NextAtDiscoveryIs ==
    ASSUME FeedTypeOK, NEW cp \in Checkpoint \cup {Unset}, Modest(cp)
    PROVE  /\ NextAtDiscovery(cp) \in Checkpoint \cup {Unset} /\ Modest(NextAtDiscovery(cp))
           /\ feed # "reports" => NextAtDiscovery(cp) = Unset
<1>1. CASE feed = "reports" /\ Published # {}
  <2>1. NextAtDiscovery(cp) = [mark |-> NewestDate, seen |-> Seen(cp)]
    BY <1>1 DEF NextAtDiscovery
  <2>2. NewestDate \in 0..MaxDate /\ Seen(cp) \in [Item -> Versions] /\ NewestDate <= NewestDate
    BY NewestIs, SeenIs
  <2>3. \A i \in Item : Seen(cp)[i] <= listing[i].version
    <3>1. \A i \in Item : listing[i].version \in Nat
      BY FeedsAssumption DEF FeedTypeOK, Versions
    <3> QED BY <3>1, SeenIs DEF Modest
  <2> QED BY <1>1, <2>1, <2>2, <2>3 DEF Checkpoint, Modest
<1>2. CASE ~(feed = "reports" /\ Published # {})
  BY <1>2 DEF NextAtDiscovery, Modest
<1> QED BY <1>1, <1>2

--------------------------------------------------------------------------------
(* One item of a run.                                                       *)

\* Only what the publisher shows is behind the URL of a fitting entry.
LEMMA BodyTyped ==
    ASSUME FeedTypeOK, NEW url, IF feed = "rows" THEN url \in Page ELSE url \in Item
    PROVE  /\ Behind(url) \in SUBSET Item /\ Body(url) \in SUBSET (Item \X Versions)
           /\ \A i \in Behind(url) : <<i, listing[i].version>> \in Body(url)
           /\ \A i, v : <<i, v>> \in Body(url) => i \in Behind(url) /\ v = listing[i].version
           /\ feed # "rows" => Behind(url) = {url}
<1>1. Behind(url) \in SUBSET Item
  BY DEF Behind, InWindow, Published
<1>2. \A i \in Item : listing[i].version \in Versions
  BY DEF FeedTypeOK
<1>3. Body(url) \in SUBSET (Item \X Versions)
  BY <1>1, <1>2 DEF Body
<1> QED BY <1>1, <1>3 DEF Body, Behind

\* What the parse of the next item leaves as the run's checkpoint.
LEMMA NextAfterParseIs ==
    ASSUME FeedTypeOK, NEW j \in Job, j.todo # <<>>, Fit(j), Modest(Held(j)), NEW next,
           next = NextAfterParse(j)
    PROVE  /\ next \in Checkpoint \cup {Unset}
           /\ Modest(IF next # Unset THEN next ELSE j.from)
           /\ feed = "reports" => next = j.next
           /\ feed = "board" => /\ next # Unset
                                /\ \A i \in Item : i # Head(j.todo).url => Seen(next)[i] = Seen(Held(j))[i]
<1> DEFINE entry == Head(j.todo)
           mark  == IF Held(j) = Unset THEN 0 ELSE Held(j).mark
<1>1. PICK todo \in Seq(Entry) : todo = j.todo
  BY DEF Job
<1>2. entry \in Entry /\ 1 \in DOMAIN j.todo /\ entry = j.todo[1]
  BY <1>1
<1>3. IF feed = "rows" THEN entry.url \in Page
      ELSE entry.url \in Item /\ entry.closing <= listing[entry.url].version
  BY <1>2 DEF Fit
<1>4. PICK cp \in Checkpoint \cup {Unset} : cp = Held(j)
  BY DEF Job, Held
<1>5. /\ Unset \notin Checkpoint /\ MaxDate \in Nat /\ MaxRevision \in Nat
      /\ \A i \in Item : listing[i].date \in 0..MaxDate /\ listing[i].version \in 0..MaxRevision
  BY FeedsAssumption DEF FeedTypeOK, Versions
<1>6. mark \in 0..MaxDate /\ mark <= NewestDate
  <2>1. NewestDate \in 0..MaxDate
    BY NewestIs
  <2> QED BY <1>4, <1>5, <2>1 DEF Modest, Checkpoint
<1>7. CASE feed = "reports"
  <2>1. next = j.next
    BY <1>7, Zenon DEF NextAfterParse
  <2> QED BY <1>7, <2>1 DEF Held, Job
<1>8. CASE feed = "rows"
  <2> DEFINE dates == {listing[i].date : i \in Behind(entry.url)} \cup {mark}
  <2>1. next = IF Held(j) = Unset /\ Behind(entry.url) = {} THEN j.next
               ELSE [mark |-> Max(dates), seen |-> Seen(Unset)]
    BY <1>8, Zenon DEF NextAfterParse
  <2>2. CASE Held(j) = Unset /\ Behind(entry.url) = {}
    BY <1>8, <2>1, <2>2 DEF Held, Job
  <2>3. CASE ~(Held(j) = Unset /\ Behind(entry.url) = {})
    <3>1. Behind(entry.url) \in SUBSET Published
      BY <1>8 DEF Behind, InWindow
    <3>2. dates \in SUBSET (0..MaxDate) /\ dates # {}
      BY <1>5, <1>6, <3>1 DEF Published
    <3>3. \A x \in dates : x <= NewestDate
      BY <1>6, <3>1, NewestIs
    <3> HIDE DEF dates
    <3>4. Max(dates) \in dates
      BY <1>5, <3>2, LargestNumber
    <3>5. Max(dates) \in 0..MaxDate /\ Max(dates) <= NewestDate
      BY <3>2, <3>3, <3>4
    <3>6. Seen(Unset) \in [Item -> Versions] /\ \A i \in Item : Seen(Unset)[i] = 0
      BY SeenIs
    <3>7. next = [mark |-> Max(dates), seen |-> Seen(Unset)]
      BY <2>1, <2>3 DEF dates
    <3>8. next \in Checkpoint
      BY <3>5, <3>6, <3>7 DEF Checkpoint
    <3>9. Modest(next)
      BY <1>5, <3>5, <3>6, <3>7 DEF Modest
    <3> QED BY <1>5, <1>8, <3>8, <3>9
  <2> QED BY <2>2, <2>3
<1>9. CASE feed = "board"
  <2> DEFINE seen == [Seen(cp) EXCEPT ![entry.url] = entry.closing]
  <2>1. next = [mark |-> 0, seen |-> seen]
    BY <1>4, <1>9, Zenon DEF NextAfterParse
  <2>2. /\ Seen(cp) \in [Item -> Versions]
        /\ \A i \in Item : Seen(cp)[i] <= listing[i].version
    <3>1. Seen(cp) \in [Item -> Versions] /\ (\A i \in Item : cp = Unset => Seen(cp)[i] = 0)
          /\ (cp # Unset => Seen(cp) = cp.seen)
      BY SeenIs
    <3> QED BY <1>4, <1>5, <3>1 DEF Modest
  <2>3. entry.closing \in Versions /\ entry.url \in Item /\ entry.closing <= listing[entry.url].version
    BY <1>2, <1>3, <1>9 DEF Entry
  <2>4. seen \in [Item -> Versions] /\ \A i \in Item : seen[i] <= listing[i].version
    BY <2>2, <2>3
  <2>5. \A i \in Item : i # entry.url => seen[i] = Seen(cp)[i]
    BY <2>2
  <2> HIDE DEF seen, entry
  <2>6. next.mark = 0 /\ next.seen = seen
    BY <2>1
  <2>7. next \in Checkpoint
    BY <1>5, <2>1, <2>4 DEF Checkpoint
  <2>8. Modest(next)
    <3>1. 0 <= NewestDate
      BY NewestIs, <1>5
    <3> QED BY <2>4, <2>6, <3>1 DEF Modest
  <2>9. next # Unset /\ Seen(next) = seen
    BY <1>5, <2>6, <2>7 DEF Seen
  <2> QED BY <1>4, <1>9, <2>5, <2>7, <2>8, <2>9 DEF entry
<1> QED BY <1>7, <1>8, <1>9, KindsAre

\* When what is behind the next entry has been settled or noted as missed, the run still
\* covers everything.
LEMMA ItemDone ==
    ASSUME FeedTypeOK, Quiet, NEW j \in Job, j.todo # <<>>, Fetching(j), NEW h,
           h.from = j.from, h.todo = Tail(j.todo), j.missed \subseteq h.missed,
           h.next = j.next \/ h.next = NextAfterParse(j),
           \A i \in Behind(Head(j.todo).url) : Settled(i)' \/ <<i, listing[i].version>> \in h.missed
    PROVE  Fetching(h)'
<1> DEFINE url == Head(j.todo).url
<1>1. PICK todo \in Seq(Entry) : todo = j.todo
  BY DEF Job
<1>2. PICK next : next = NextAfterParse(j)
  OBVIOUS
<1>3. Fit(j) /\ Modest(Held(j)) /\ \A i \in Published : Covered(j, i)
  BY DEF Fetching
<1>4. /\ Modest(IF next # Unset THEN next ELSE j.from)
      /\ feed = "reports" => next = j.next
      /\ feed = "board" => /\ next # Unset
                           /\ \A i \in Item : i # url => Seen(next)[i] = Seen(Held(j))[i]
  BY <1>2, <1>3, NextAfterParseIs
<1>5. /\ todo[1] = Head(todo) /\ 1 \in DOMAIN todo /\ DOMAIN todo = 1..Len(todo) /\ Len(todo) \in Nat
      /\ DOMAIN Tail(todo) = 1..(Len(todo) - 1)
      /\ \A k \in 1..(Len(todo) - 1) : Tail(todo)[k] = todo[k + 1]
  BY <1>1
<1>6. Modest(Held(h))
  BY <1>2, <1>3, <1>4 DEF Held
<1>7. Fit(h)
  <2>1. \A k \in DOMAIN Tail(todo) : k + 1 \in DOMAIN todo /\ Tail(todo)[k] = todo[k + 1]
    BY <1>5
  <2> QED BY <1>1, <1>3, <2>1 DEF Fit
<1>8. ASSUME NEW i \in Published
      PROVE  \/ Settled(i)' \/ <<i, listing[i].version>> \in h.missed
             \/ Recent(h, i) \/ (feed # "board" /\ Waits(h, i))
  <2>1. CASE Settled(i)
    BY <2>1, QuietSettled DEF Published
  <2>2. CASE <<i, listing[i].version>> \in j.missed
    BY <2>2
  <2>3. CASE i \in Behind(url)
    BY <2>3
  <2>4. CASE Recent(j, i) /\ i \notin Behind(url)
    <3>1. CASE feed = "rows"
      BY <2>4, <3>1 DEF Recent
    <3>2. CASE feed = "reports"
      <4>1. Held(h) = Held(j)
        BY <1>2, <1>4, <3>2 DEF Held
      <4> QED BY <2>4, <4>1 DEF Recent
    <3>3. CASE feed = "board"
      <4>1. i # url /\ i \in Item
        BY <2>4, <3>3 DEF Behind, Published
      <4>2. CASE h.next = j.next
        <5>1. Held(h) = Held(j)
          BY <4>2 DEF Held
        <5> QED BY <2>4, <5>1 DEF Recent
      <4>3. CASE h.next = next
        <5>1. Held(h) = next
          BY <1>4, <3>3, <4>3 DEF Held
        <5>2. Seen(Held(h))[i] = Seen(Held(j))[i]
          BY <1>4, <3>3, <4>1, <5>1
        <5> QED BY <2>4, <3>3, <5>2 DEF Recent, Due
      <4> QED BY <1>2, <4>2, <4>3
    <3> QED BY <3>1, <3>2, <3>3, KindsAre
  <2>5. CASE feed # "board" /\ Waits(j, i) /\ i \notin Behind(url)
    <3>1. PICK k \in DOMAIN todo : i \in Behind(todo[k].url)
      BY <1>1, <2>5 DEF Waits
    <3>2. k # 1
      BY <1>1, <1>5, <2>5, <3>1
    <3>3. k - 1 \in 1..(Len(todo) - 1) /\ (k - 1) + 1 = k
      BY <1>5, <3>2
    <3>4. i \in Behind(Tail(todo)[k - 1].url)
      BY <1>5, <3>1, <3>3
    <3> QED BY <1>1, <1>5, <2>5, <3>3, <3>4 DEF Waits
  <2> QED BY <1>3, <2>1, <2>2, <2>3, <2>4, <2>5 DEF Covered
<1> HIDE DEF url
<1>9. Published' = Published
  BY DEF Quiet, Published
<1>10. Modest(Held(h))' /\ Fit(h)'
  BY <1>6, <1>7 DEF Quiet, Modest, Fit, Held, NewestDate, Published
<1>11. ASSUME NEW i \in Published PROVE Covered(h, i)'
  <2>1. Recent(h, i) => Recent(h, i)'
    BY DEF Quiet, Recent, Due, Seen, Floor, NewestDate, Published
  <2>2. Waits(h, i) => Waits(h, i)'
    <3>1. \A k \in DOMAIN h.todo : Behind(h.todo[k].url)' = Behind(h.todo[k].url)
      BY QuietBehind
    <3> QED BY <3>1 DEF Waits
  <2> QED BY <1>8, <2>1, <2>2 DEF Covered, Quiet
<1> QED BY <1>9, <1>10, <1>11 DEF Fetching

--------------------------------------------------------------------------------
(* The steps.                                                               *)

LEMMA SetIs ==
    ASSUME FeedTypeOK, NEW w \in Worker, NEW new \in Job, Set(w, new)
    PROVE  /\ job' \in [Worker -> Job] /\ job'[w] = new
           /\ \A x \in Worker : x # w => job'[x] = job[x]
BY DEF FeedTypeOK, Set

LEMMA IdleTyped == IdleWorker \in Job
BY DEF IdleWorker, Job

LEMMA EndIs ==
    ASSUME FeedTypeOK, NEW w \in Worker, NEW behind, End(w, behind)
    PROVE  /\ job' \in [Worker -> Job] /\ job'[w] = IdleWorker
           /\ \A x \in Worker : x # w => /\ job'[x].pc = job[x].pc /\ job'[x].from = job[x].from
                                         /\ job'[x].todo = job[x].todo /\ job'[x].next = job[x].next
                                         /\ job'[x].missed = job[x].missed
<1> DEFINE n(x) == [job[x] EXCEPT !.older = @ \ {w}, !.stale = @ \/ x \in behind]
<1>1. job' = [x \in Worker |-> IF x = w THEN IdleWorker ELSE n(x)]
  BY DEF End
<1>2. ASSUME NEW x \in Worker
      PROVE  /\ n(x) \in Job
             /\ n(x).pc = job[x].pc /\ n(x).from = job[x].from /\ n(x).todo = job[x].todo
             /\ n(x).next = job[x].next /\ n(x).missed = job[x].missed
  <2>1. job[x] \in Job
    BY DEF FeedTypeOK
  <2>2. (job[x].older \ {w}) \in SUBSET Worker
    BY <2>1 DEF Job
  <2>3. (job[x].stale \/ x \in behind) \in BOOLEAN
    OBVIOUS
  <2>4. PICK o \in SUBSET Worker, s \in BOOLEAN :
             n(x) = [job[x] EXCEPT !.older = o, !.stale = s]
    BY <2>2, <2>3
  <2> HIDE DEF n
  <2> QED BY <2>1, <2>4 DEF Job
<1> HIDE DEF n
<1>3. job'[w] = IdleWorker /\ \A x \in Worker : x # w => job'[x] = n(x)
  BY <1>1
<1>4. job' \in [Worker -> Job]
  BY <1>1, <1>2, IdleTyped
<1> QED BY <1>2, <1>3, <1>4

LEMMA IdleMinds == ASSUME NEW j, j.pc = "idle" PROVE Minding(j)'
BY DEF Minding

\* When one run ends and the publisher stands still, the others mind what they did.
LEMMA EndStep ==
    ASSUME FeedInv, Quiet, NEW w \in Worker, NEW behind, End(w, behind)
    PROVE  job' \in [Worker -> Job] /\ \A x \in Worker : Minding(job[x])'
<1>1. /\ job' \in [Worker -> Job] /\ job'[w] = IdleWorker
      /\ \A x \in Worker : x # w => /\ job'[x].pc = job[x].pc /\ job'[x].from = job[x].from
                                    /\ job'[x].todo = job[x].todo /\ job'[x].next = job[x].next
                                    /\ job'[x].missed = job[x].missed
  BY EndIs DEF FeedInv
<1>2. ASSUME NEW x \in Worker PROVE Minding(job[x])'
  <2>1. PICK j, h : j = job[x] /\ h = job'[x]
    OBVIOUS
  <2>2. CASE x = w
    <3>1. h.pc = "idle"
      BY <1>1, <2>1, <2>2 DEF IdleWorker
    <3>2. Minding(h)'
      BY <3>1, IdleMinds
    <3> QED BY <2>1, <3>2
  <2>3. CASE x # w
    <3>1. Minding(j)
      BY <2>1 DEF FeedInv
    <3>2. Minding(h)'
      BY <1>1, <2>1, <2>3, <3>1, QuietMinding
    <3> QED BY <2>1, <3>2
  <2> QED BY <2>2, <2>3
<1> QED BY <1>1, <1>2

\* When one run moves on, it is only that run's own obligation that is new.
LEMMA SetStep ==
    ASSUME FeedInv, Quiet, NEW w \in Worker, NEW new \in Job, Set(w, new), Minding(new)'
    PROVE  job' \in [Worker -> Job] /\ \A x \in Worker : Minding(job[x])'
<1>1. /\ job' \in [Worker -> Job] /\ job'[w] = new
      /\ \A x \in Worker : x # w => job'[x] = job[x]
  BY SetIs DEF FeedInv
<1>2. ASSUME NEW x \in Worker PROVE Minding(job[x])'
  <2>1. PICK j, h : j = job[x] /\ h = job'[x]
    OBVIOUS
  <2>2. CASE x = w
    BY <1>1, <2>1, <2>2
  <2>3. CASE x # w
    <3>1. Minding(j) /\ h = j
      BY <1>1, <2>1, <2>3 DEF FeedInv
    <3>2. Minding(h)'
      BY <3>1, QuietMinding
    <3> QED BY <2>1, <3>2
  <2> QED BY <2>2, <2>3
<1> QED BY <1>1, <1>2

LEMMA HonestCheckpointKept ==
    ASSUME FeedInv, Quiet, checkpoint' = checkpoint PROVE Honest(checkpoint)'
<1>1. PICK cp : cp = checkpoint
  OBVIOUS
<1>2. Honest(cp)'
  BY <1>1, QuietHonest DEF FeedInv
<1> QED BY <1>1, <1>2

LEMMA ChangeStep ==
    ASSUME FeedInv, NEW i \in Item, NEW d \in 0..MaxDate, Change(i, d)
    PROVE  FeedInv'
<1>1. FeedTypeOK
  BY DEF FeedInv
<1>2. listing' \in [Item -> [date : 0..MaxDate, version : Versions]]
  BY <1>1, ChangeIs
<1>3. /\ feed' = feed /\ stored' = stored /\ artifacts' = artifacts /\ checkpoint' = checkpoint
      /\ job' = job /\ letters' = letters /\ feedFaults' = feedFaults
  BY DEF Change
<1>4. FeedTypeOK'
  BY <1>1, <1>2, <1>3 DEF FeedTypeOK
<1>5. Honest(checkpoint)'
  <2>1. PICK cp \in Checkpoint \cup {Unset} : cp = checkpoint
    BY <1>1 DEF FeedTypeOK
  <2>2. Honest(cp)'
    BY <1>1, <2>1, ChangeKeepsHonest DEF FeedInv
  <2> QED BY <1>3, <2>1, <2>2
<1>6. ASSUME NEW w \in Worker PROVE Minding(job[w])'
  <2>1. PICK j \in Job : j = job[w]
    BY <1>1 DEF FeedTypeOK
  <2>2. Minding(j)
    BY <2>1 DEF FeedInv
  <2>3. ASSUME j.pc \in {"open", "discover"} PROVE Honest(j.from)'
    <3>1. PICK cp \in Checkpoint \cup {Unset} : cp = j.from
      BY DEF Job
    <3>2. Honest(cp)
      BY <2>2, <2>3, <3>1 DEF Minding
    <3>3. Honest(cp)'
      BY <1>1, <3>2, ChangeKeepsHonest
    <3> QED BY <3>1, <3>3
  <2>4. ASSUME j.pc = "items" PROVE Fetching(j)'
    <3>1. feed = "rows" => d <= NewestDate
      BY <2>1, <2>4 DEF Change
    <3>2. Fetching(j)
      BY <2>2, <2>4 DEF Minding
    <3> QED BY <1>1, <3>1, <3>2, ChangeKeepsFetching
  <2>5. Minding(j)'
    BY <2>3, <2>4 DEF Minding
  <2> QED BY <1>3, <2>1, <2>5
<1> QED BY <1>4, <1>5, <1>6 DEF FeedInv

LEMMA LoadStep == ASSUME FeedInv, NEW w \in Worker, Load(w) PROVE FeedInv'
<1>1. PICK j \in Job, cp \in Checkpoint \cup {Unset} : j = job[w] /\ cp = checkpoint
  BY DEF FeedInv, FeedTypeOK
<1>2. PICK new : new = [j EXCEPT !.pc = "open", !.from = cp]
  OBVIOUS
<1>3. new \in Job /\ new.pc = "open" /\ new.from = cp
  BY <1>2 DEF Job
<1>4. Set(w, new) /\ Quiet /\ UNCHANGED <<feed, listing, stored, artifacts, checkpoint, letters, feedFaults>>
  BY <1>1, <1>2 DEF Load, Quiet
<1>5. Honest(cp)'
  BY <1>1, <1>4, QuietHonest DEF FeedInv
<1>6. Minding(new)'
  BY <1>3, <1>5 DEF Minding
<1>7. job' \in [Worker -> Job] /\ \A x \in Worker : Minding(job[x])'
  BY <1>3, <1>4, <1>6, SetStep
<1>8. Honest(checkpoint)'
  BY <1>4, HonestCheckpointKept
<1> QED BY <1>4, <1>7, <1>8 DEF FeedInv, FeedTypeOK

LEMMA OpenStep == ASSUME FeedInv, NEW w \in Worker, Open(w) PROVE FeedInv'
<1>1. PICK j \in Job : j = job[w]
  BY DEF FeedInv, FeedTypeOK
<1>2. PICK o \in SUBSET Worker : o = {x \in Worker : job[x].pc \in {"discover", "items"}}
  OBVIOUS
<1>3. PICK new : new = [j EXCEPT !.pc = "discover", !.older = o]
  OBVIOUS
<1>4. new \in Job /\ new.pc = "discover" /\ new.from = j.from
  BY <1>3 DEF Job
<1>5. /\ Set(w, new) /\ Quiet /\ j.pc = "open"
      /\ UNCHANGED <<feed, listing, stored, artifacts, checkpoint, letters, feedFaults>>
  BY <1>1, <1>2, <1>3 DEF Open, Quiet
<1>6. Honest(j.from)
  BY <1>1, <1>5 DEF FeedInv, Minding
<1>7. Honest(j.from)'
  BY <1>5, <1>6, QuietHonest
<1>8. Minding(new)'
  BY <1>4, <1>7 DEF Minding
<1>9. job' \in [Worker -> Job] /\ \A x \in Worker : Minding(job[x])'
  BY <1>4, <1>5, <1>8, SetStep
<1>10. Honest(checkpoint)'
  BY <1>5, HonestCheckpointKept
<1> QED BY <1>5, <1>9, <1>10 DEF FeedInv, FeedTypeOK

\* What discover() hands over, or the checkpoint it leaves, covers what the checkpoint it
\* was given asks for.
LEMMA DiscoverFeedStep == ASSUME FeedInv, NEW w \in Worker, DiscoverFeed(w) PROVE FeedInv'
<1> USE DEF FeedInv
<1>1. PICK j \in Job : j = job[w]
  BY DEF FeedTypeOK
<1>2. PICK cp \in Checkpoint \cup {Unset} : cp = j.from
  BY DEF Job
<1>3. Honest(cp)
  BY <1>1, <1>2 DEF DiscoverFeed, Minding
<1>4. PICK todo \in Seq(Entry) :
         /\ todo = Discovered(cp)
         /\ \A k \in DOMAIN todo : IF feed = "rows" THEN todo[k].url \in Page
                ELSE todo[k].url \in Item /\ todo[k].closing = listing[todo[k].url].version
         /\ feed # "board" => \A i \in Wanted(cp) : \E k \in DOMAIN todo : i \in Behind(todo[k].url)
  BY DiscoveredIs
<1>5. PICK next \in Checkpoint \cup {Unset} :
         next = NextAtDiscovery(cp) /\ Modest(next) /\ (feed # "reports" => next = Unset)
  BY <1>3, NextAtDiscoveryIs DEF Honest
<1>6. PICK new : new = [j EXCEPT !.pc = "items", !.todo = todo, !.next = next]
  OBVIOUS
<1>7. /\ new \in Job /\ new.pc = "items" /\ new.from = cp /\ new.todo = todo /\ new.next = next
  BY <1>2, <1>6 DEF Job
<1>8. /\ Set(w, new) /\ Quiet
      /\ UNCHANGED <<feed, listing, stored, artifacts, checkpoint, letters, feedFaults>>
  BY <1>1, <1>2, <1>4, <1>5, <1>6 DEF DiscoverFeed, Quiet
<1>9. Modest(Held(new))
  BY <1>3, <1>5, <1>7 DEF Held, Honest
<1>10. Fit(new)
  <2>1. \A i \in Item : listing[i].version <= listing[i].version
    BY FeedsAssumption DEF FeedTypeOK, Versions
  <2> QED BY <1>4, <1>7, <2>1 DEF Fit
<1>11. ASSUME NEW i \in Published PROVE Covered(new, i)
  <2>1. CASE Settled(i)
    BY <2>1 DEF Covered
  <2>2. CASE Due(cp, i) /\ feed # "board"
    <3>1. i \in Wanted(cp)
      BY <2>2 DEF Wanted, Published
    <3> QED BY <1>4, <1>7, <2>2, <3>1 DEF Covered, Waits
  <2>3. CASE Due(cp, i) /\ feed = "board"
    <3>1. Held(new) = cp
      BY <1>5, <1>7, <2>3 DEF Held
    <3> QED BY <2>3, <3>1 DEF Covered, Recent
  <2> QED BY <1>3, <2>1, <2>2, <2>3 DEF Honest
<1>12. Minding(new)
  BY <1>7, <1>9, <1>10, <1>11 DEF Minding, Fetching
<1>13. Minding(new)'
  BY <1>8, <1>12, QuietMinding
<1>14. job' \in [Worker -> Job] /\ \A x \in Worker : Minding(job[x])'
  BY <1>7, <1>8, <1>13, SetStep
<1>15. Honest(checkpoint)'
  BY <1>8, HonestCheckpointKept
<1> QED BY <1>8, <1>14, <1>15 DEF FeedTypeOK

LEMMA NextEntryFits ==
    ASSUME FeedInv, NEW w \in Worker, job[w].pc = "items", job[w].todo # <<>>
    PROVE  LET url == Head(job[w].todo).url IN IF feed = "rows" THEN url \in Page ELSE url \in Item
<1>1. PICK j \in Job, todo \in Seq(Entry) : j = job[w] /\ todo = j.todo
  BY DEF FeedInv, FeedTypeOK, Job
<1>2. Fit(j)
  BY <1>1 DEF FeedInv, Minding, Fetching
<1>3. 1 \in DOMAIN todo /\ todo[1] = Head(todo)
  BY <1>1
<1> QED BY <1>1, <1>2, <1>3 DEF Fit

\* A run is through with an item: what was behind it is settled, or noted as missed.
LEMMA SettleStep ==
    ASSUME FeedInv, Quiet, NEW w \in Worker, job[w].pc = "items", job[w].todo # <<>>,
           NEW missed \in SUBSET (Item \X Versions), NEW next,
           next = job[w].next \/ next = NextAfterParse(job[w]), Settle(w, missed, next),
           \A i \in Behind(Head(job[w].todo).url) :
              Settled(i)' \/ <<i, listing[i].version>> \in missed
    PROVE  job' \in [Worker -> Job] /\ \A x \in Worker : Minding(job[x])'
<1>1. PICK j \in Job, todo \in Seq(Entry) : j = job[w] /\ todo = j.todo
  BY DEF FeedInv, FeedTypeOK, Job
<1>2. Fetching(j) /\ Fit(j) /\ Modest(Held(j))
  BY <1>1 DEF FeedInv, Minding, Fetching
<1>3. next \in Checkpoint \cup {Unset}
  <2>1. NextAfterParse(j) \in Checkpoint \cup {Unset}
    BY <1>1, <1>2, NextAfterParseIs DEF FeedInv
  <2> QED BY <1>1, <2>1 DEF Job
<1>4. PICK h : h = [j EXCEPT !.todo = Tail(todo), !.missed = j.missed \cup missed, !.next = next]
  OBVIOUS
<1>5. Tail(todo) \in Seq(Entry) /\ (j.missed \cup missed) \in SUBSET (Item \X Versions)
  BY <1>1 DEF Job
<1>6. /\ h \in Job /\ h.pc = "items" /\ h.from = j.from /\ h.todo = Tail(todo) /\ h.next = next
      /\ h.missed = j.missed \cup missed
  BY <1>1, <1>3, <1>4, <1>5 DEF Job
<1>7. Fetching(h)'
  <2>1. \A i \in Behind(Head(j.todo).url) : Settled(i)' \/ <<i, listing[i].version>> \in h.missed
    BY <1>1, <1>6
  <2> QED BY <1>1, <1>2, <1>6, <2>1, ItemDone DEF FeedInv
<1>8. Minding(h)'
  BY <1>6, <1>7 DEF Minding
<1>9. Set(w, h)
  BY <1>1, <1>4 DEF Settle
<1> QED BY <1>6, <1>8, <1>9, SetStep

\* The records of a body that is new are written.
LEMMA KeepIs ==
    ASSUME FeedTypeOK, NEW url, IF feed = "rows" THEN url \in Page ELSE url \in Item,
           NEW body, body = Body(url), Keep(body)
    PROVE  /\ stored' \in [Item -> Versions]
           /\ \A i \in Item : stored'[i] = stored[i] \/ stored'[i] = listing[i].version
<1>1. /\ body \in SUBSET (Item \X Versions)
      /\ \A i, v : <<i, v>> \in body => v = listing[i].version
  BY BodyTyped
<1> DEFINE s(i) == IF \E v \in Versions : <<i, v>> \in body THEN CHOOSE v \in Versions : <<i, v>> \in body
                   ELSE stored[i]
<1>2. stored' = [i \in Item |-> s(i)]
  BY DEF Keep
<1>3. ASSUME NEW i \in Item PROVE s(i) \in Versions /\ (s(i) = stored[i] \/ s(i) = listing[i].version)
  <2>1. CASE \E v \in Versions : <<i, v>> \in body
    <3>1. s(i) \in Versions /\ <<i, s(i)>> \in body
      BY <2>1, Zenon
    <3> QED BY <1>1, <3>1
  <2>2. CASE ~\E v \in Versions : <<i, v>> \in body
    <3>1. s(i) = stored[i]
      BY <2>2, Zenon
    <3> QED BY <3>1 DEF FeedTypeOK
  <2> QED BY <2>1, <2>2
<1> HIDE DEF s
<1> QED BY <1>2, <1>3

LEMMA FetchEntryStep == ASSUME FeedInv, NEW w \in Worker, FetchEntry(w) PROVE FeedInv'
<1>0. FeedTypeOK /\ job[w].pc = "items" /\ job[w].todo # <<>>
  BY DEF FeedInv, FetchEntry
<1>1. PICK url : url = Head(job[w].todo).url
  OBVIOUS
<1>2. PICK body : body = Body(url)
  OBVIOUS
<1>3. PICK row : row = [url |-> url, body |-> body]
  OBVIOUS
<1>4. IF feed = "rows" THEN url \in Page ELSE url \in Item
  BY <1>0, <1>1, NextEntryFits
<1>5. /\ Behind(url) \in SUBSET Item /\ body \in SUBSET (Item \X Versions)
      /\ \A i \in Behind(url) : <<i, listing[i].version>> \in body
  BY <1>0, <1>2, <1>4, BodyTyped
<1>6. UNCHANGED <<feed, listing, checkpoint, letters, feedFaults>>
  BY DEF FetchEntry
<1>7. /\ Quiet /\ stored' \in [Item -> Versions]
      /\ row \in artifacts' /\ \A x \in artifacts' : x \in artifacts \/ x = row
      /\ \E next : /\ next = job[w].next \/ next = NextAfterParse(job[w])
                   /\ Settle(w, {}, next)
  <2>1. CASE row \in artifacts
    <3>1. Settle(w, {}, job[w].next) /\ UNCHANGED <<stored, artifacts>>
      BY <1>1, <1>2, <1>3, <2>1 DEF FetchEntry
    <3> QED BY <1>0, <1>6, <2>1, <3>1 DEF Quiet, FeedTypeOK
  <2>2. CASE row \notin artifacts
    <3>1. /\ artifacts' = artifacts \cup {row} /\ Keep(body)
          /\ Settle(w, {}, NextAfterParse(job[w]))
      BY <1>1, <1>2, <1>3, <2>2 DEF FetchEntry
    <3>2. /\ stored' \in [Item -> Versions]
          /\ \A i \in Item : stored'[i] = stored[i] \/ stored'[i] = listing[i].version
      BY <1>0, <1>2, <1>4, <3>1, KeepIs
    <3>3. Quiet
      BY <1>6, <3>1, <3>2 DEF Quiet
    <3> QED BY <3>1, <3>2, <3>3
  <2> QED BY <2>1, <2>2
<1>8. PICK next : /\ next = job[w].next \/ next = NextAfterParse(job[w])
                  /\ Settle(w, {}, next)
  BY <1>7
<1>9. \A i \in Behind(url) : Settled(i)'
  BY <1>3, <1>5, <1>6, <1>7 DEF Settled
<1>10. job' \in [Worker -> Job] /\ \A x \in Worker : Minding(job[x])'
  BY <1>0, <1>1, <1>7, <1>8, <1>9, SettleStep
<1>11. Honest(checkpoint)'
  BY <1>6, <1>7, HonestCheckpointKept
<1>12. \A x \in artifacts' : x.body \subseteq Item \X Versions
  BY <1>0, <1>3, <1>5, <1>7 DEF FeedTypeOK
<1> QED BY <1>0, <1>6, <1>7, <1>10, <1>11, <1>12 DEF FeedInv, FeedTypeOK

LEMMA FaultTyped == ASSUME FeedTypeOK, FeedFault PROVE feedFaults' \in 0..MaxFeedFault
BY FeedsAssumption DEF FeedTypeOK, FeedFault

\* What was behind the item that threw is noted as missed.
LEMMA EntryThrowsStep == ASSUME FeedInv, NEW w \in Worker, EntryThrows(w) PROVE FeedInv'
<1>0. FeedTypeOK /\ job[w].pc = "items" /\ job[w].todo # <<>> /\ feedFaults' \in 0..MaxFeedFault
  BY FaultTyped DEF FeedInv, EntryThrows
<1>1. PICK url : url = Head(job[w].todo).url
  OBVIOUS
<1>2. PICK body : body = Body(url)
  OBVIOUS
<1>3. PICK row : row = [url |-> url, body |-> body]
  OBVIOUS
<1>4. IF feed = "rows" THEN url \in Page ELSE url \in Item
  BY <1>0, <1>1, NextEntryFits
<1>5. /\ body \in SUBSET (Item \X Versions)
      /\ \A i \in Behind(url) : <<i, listing[i].version>> \in body
  BY <1>0, <1>2, <1>4, BodyTyped
<1>6. UNCHANGED <<feed, listing, stored, checkpoint, letters>>
  BY DEF EntryThrows
<1>7. /\ artifacts \subseteq artifacts' /\ \A x \in artifacts' : x \in artifacts \/ x = row
      /\ \E next : /\ next = job[w].next \/ next = NextAfterParse(job[w])
                   /\ Settle(w, body, next)
  BY <1>1, <1>2, <1>3 DEF EntryThrows
<1>8. PICK next : /\ next = job[w].next \/ next = NextAfterParse(job[w])
                  /\ Settle(w, body, next)
  BY <1>7
<1>9. Quiet
  BY <1>6, <1>7 DEF Quiet
<1>10. job' \in [Worker -> Job] /\ \A x \in Worker : Minding(job[x])'
  BY <1>0, <1>1, <1>5, <1>8, <1>9, SettleStep
<1>11. Honest(checkpoint)'
  BY <1>6, <1>9, HonestCheckpointKept
<1>12. \A x \in artifacts' : x.body \subseteq Item \X Versions
  BY <1>0, <1>3, <1>5, <1>7 DEF FeedTypeOK
<1> QED BY <1>0, <1>6, <1>10, <1>11, <1>12 DEF FeedInv, FeedTypeOK

\* A run that is through with everything leaves a checkpoint that asks for what is not
\* accounted for, now that the ledger holds what the run has missed.
LEMMA CloseIsHonest ==
    ASSUME FeedTypeOK, Quiet, NEW j \in Job, Fetching(j), j.todo = <<>>, NEW cp, cp = Held(j),
           j.missed \subseteq letters'
    PROVE  Honest(cp)'
<1>1. Modest(cp) /\ cp \in Checkpoint \cup {Unset}
  BY DEF Fetching, Held, Job
<1>2. Published' = Published /\ Modest(cp)'
  BY <1>1 DEF Quiet, Published, Modest, NewestDate
<1>3. ASSUME NEW i \in Published PROVE Settled(i)' \/ Due(cp, i)'
  <2>1. Covered(j, i) /\ i \in Item
    BY DEF Fetching, Published
  <2>2. CASE Settled(i)
    BY <2>1, <2>2, QuietSettled
  <2>3. CASE <<i, listing[i].version>> \in j.missed
    BY <2>3 DEF Settled, Quiet
  <2>4. CASE Recent(j, i)
    <3>1. Due(cp, i)
      <4>1. CASE feed = "rows"
        <5>1. listing[i].date \in 0..MaxDate /\ listing[i].date >= NewestDate - Lag
          BY <2>1, <2>4, <4>1 DEF FeedTypeOK, Recent
        <5>2. PICK d \in 0..MaxDate : d = listing[i].date /\ d >= NewestDate - Lag
          BY <5>1
        <5>3. d >= Floor(cp)
          BY <1>1, <5>2, WrittenIsDue
        <5> QED BY <4>1, <5>2, <5>3 DEF Due, Published
      <4>2. CASE feed # "rows"
        BY <2>4, <4>2 DEF Recent
      <4> QED BY <4>1, <4>2
    <3> QED BY <3>1 DEF Quiet, Due, Seen, Floor
  <2>5. CASE Waits(j, i)
    <3>1. DOMAIN j.todo = {}
      OBVIOUS
    <3> QED BY <2>5, <3>1 DEF Waits
  <2> QED BY <2>1, <2>2, <2>3, <2>4, <2>5 DEF Covered
<1> QED BY <1>2, <1>3 DEF Honest

LEMMA CloseStep == ASSUME FeedInv, NEW w \in Worker, Close(w) PROVE FeedInv'
<1>1. PICK j \in Job : j = job[w]
  BY DEF FeedInv, FeedTypeOK
<1>2. /\ j.pc = "items" /\ j.todo = <<>> /\ letters' = letters \cup j.missed
      /\ UNCHANGED <<feed, listing, stored, artifacts, feedFaults>>
  BY <1>1 DEF Close
<1>3. Quiet
  BY <1>2 DEF Quiet
<1>4. Fetching(j)
  BY <1>1, <1>2 DEF FeedInv, Minding
<1>5. PICK cp \in Checkpoint \cup {Unset} : cp = Held(j)
  BY DEF Held, Job
<1>6. \E behind : End(w, behind)
  BY DEF Close
<1>7. job' \in [Worker -> Job] /\ \A x \in Worker : Minding(job[x])'
  BY <1>3, <1>6, EndStep
<1>8. checkpoint' \in Checkpoint \cup {Unset} /\ Honest(checkpoint)'
  <2>1. CASE checkpoint' = checkpoint
    BY <1>3, <2>1, HonestCheckpointKept DEF FeedInv, FeedTypeOK
  <2>2. CASE checkpoint' = cp
    <3>1. Honest(cp)'
      BY <1>2, <1>3, <1>4, <1>5, CloseIsHonest DEF FeedInv
    <3> QED BY <2>2, <3>1
  <2> QED BY <1>1, <1>5, <2>1, <2>2 DEF Close
<1>9. letters' \subseteq Item \X Versions
  BY <1>2 DEF FeedInv, FeedTypeOK, Job
<1> QED BY <1>2, <1>7, <1>8, <1>9 DEF FeedInv, FeedTypeOK

\* A run that fails or dies leaves the checkpoint of those before it.
LEMMA LostStep == ASSUME FeedInv, NEW w \in Worker, Fail(w) \/ Die(w) PROVE FeedInv'
<1>1. PICK j \in Job : j = job[w]
  BY DEF FeedInv, FeedTypeOK
<1>2. /\ letters' = letters \cup j.missed \/ letters' = letters
      /\ End(w, {}) /\ UNCHANGED <<feed, listing, stored, artifacts, checkpoint>>
      /\ feedFaults' \in 0..MaxFeedFault
  BY <1>1, FaultTyped DEF Fail, Die, FeedInv
<1>3. Quiet
  BY <1>2 DEF Quiet
<1>4. job' \in [Worker -> Job] /\ \A x \in Worker : Minding(job[x])'
  BY <1>2, <1>3, EndStep
<1>5. Honest(checkpoint)'
  BY <1>2, <1>3, HonestCheckpointKept
<1>6. letters' \subseteq Item \X Versions
  BY <1>2 DEF FeedInv, FeedTypeOK, Job
<1> QED BY <1>2, <1>4, <1>5, <1>6 DEF FeedInv, FeedTypeOK

LEMMA FeedStep == ASSUME FeedInv, [FeedNext]_feedVars PROVE FeedInv'
<1>1. CASE FeedNext
  BY <1>1, ChangeStep, LoadStep, OpenStep, DiscoverFeedStep, FetchEntryStep, EntryThrowsStep,
     CloseStep, LostStep DEF FeedNext, Work
<1>2. CASE UNCHANGED feedVars
  <2>1. Quiet /\ checkpoint' = checkpoint /\ job' = job
    BY <1>2 DEF feedVars, Quiet
  <2>2. Honest(checkpoint)'
    BY <2>1, HonestCheckpointKept
  <2>3. ASSUME NEW x \in Worker PROVE Minding(job[x])'
    <3>1. PICK j : j = job[x]
      OBVIOUS
    <3>2. Minding(j)'
      BY <2>1, <3>1, QuietMinding DEF FeedInv
    <3> QED BY <2>1, <3>1, <3>2
  <2> QED BY <1>2, <2>2, <2>3 DEF FeedInv, FeedTypeOK, feedVars
<1> QED BY <1>1, <1>2

LEMMA FeedStart == FeedInit => FeedInv
<1> SUFFICES ASSUME FeedInit PROVE FeedInv
  OBVIOUS
<1>1. 0 \in Versions /\ 0 \in 0..MaxDate /\ 0 \in 0..MaxFeedFault
  BY FeedsAssumption DEF Versions
<1>2. listing \in [Item -> [date : 0..MaxDate, version : Versions]] /\ Published = {}
  BY <1>1 DEF FeedInit, Published
<1>3. FeedTypeOK
  BY <1>1, <1>2, IdleTyped DEF FeedInit, FeedTypeOK
<1> QED BY <1>2, <1>3 DEF FeedInv, FeedInit, Honest, Modest, Minding, IdleWorker

\* The strengthening: what a run has read, holds and has still to fetch leaves nothing
\* out, whichever run writes its checkpoint last.
THEOREM FeedInvariant == FeedSpec => []FeedInv
<1>1. FeedInit => FeedInv
  BY FeedStart
<1>2. FeedInv /\ [FeedNext]_feedVars => FeedInv'
  BY FeedStep
<1> QED BY <1>1, <1>2, PTL DEF FeedSpec

\* Nothing falls out of the window of the next run (source-sdk/runner.ts:81-97, 411-413).
THEOREM NothingIsSkipped == FeedSpec => []NothingSkipped
<1>1. FeedInv => NothingSkipped
  BY DEF FeedInv, NothingSkipped, Honest
<1> QED BY <1>1, FeedInvariant, PTL
===============================================================================
