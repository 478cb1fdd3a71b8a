------------------------------ MODULE DeskProofs ------------------------------
(***************************************************************************)
(* Proofs about the parts of an account's desk.                             *)
(*                                                                          *)
(* Pursuit, for every number of requests, tokens and faults: types, that a  *)
(* pursuit is opened once (OpenedOnce), that the audit trail has what the   *)
(* row and the outcome labels say (StateIsAudited), and that between        *)
(* requests that do not overlap the trail is one path of allowed moves      *)
(* (SerialHistory).                                                         *)
(*                                                                          *)
(* Invitations, for every number of deliveries, messages and projects: that *)
(* a message is taken once and that no date of a row is lost                *)
(* (IntakeKeepsHistory).                                                    *)
(*                                                                          *)
(* Takeoff, for every reading of the text and every number of derivations:  *)
(* that derivations which do not overlap leave one reading of it, that no   *)
(* figure is invented, and that the estimator's lines stay the estimator's  *)
(* (SheetIsTheEstimators).                                                  *)
(***************************************************************************)
EXTENDS Pursuit, Takeoff, Invitations, FiniteSetTheorems, SequenceTheorems,
        NaturalsInduction, WellFoundedInduction, TLAPS

Work == [pc : {"idle", "claim", "select", "create", "opening", "load", "gate", "audit", "set", "label"},
         tok : Token \cup {None}, from : State \cup {None}, to : State \cup {None}, actor : Actor]

Typed ==
    /\ row \in Row \cup {None} /\ log \in Seq(Entry) /\ labels \in Seq(Outcome)
    /\ live \subseteq Token
    /\ work \in [Request -> Work]

\* The trail has a move into s, by a person where s commits the account.
InTrail(s) ==
    \E i \in DOMAIN log : log[i].to = s /\ (s \in HumanOnly => log[i].actor = "human")

\* A request that has passed the checks moves a pursuit that is there, and a person
\* asked for what commits the account; its audit row is written before the row is.
Sound(r) ==
    /\ work[r].pc = "load" => work[r].to \in State
    /\ work[r].pc \in {"gate", "audit", "set", "label"} =>
         /\ row # None /\ work[r].from \in State /\ work[r].to \in State
         /\ work[r].to \in HumanOnly => work[r].actor = "human"
    /\ work[r].pc = "label" => work[r].to \in Outcome
    /\ work[r].pc = "set" => InTrail(work[r].to)

\* One opening entry at most, and a request that still has to write it is alone.
Opened ==
    /\ \A i, j \in DOMAIN log : log[i].from = None /\ log[j].from = None => i = j
    /\ row = None => log = <<>>
    /\ \A r \in Request : work[r].pc = "opening" =>
         row # None /\ \A i \in DOMAIN log : log[i].from # None
    /\ \A r, q \in Request : work[r].pc = "opening" /\ work[q].pc = "opening" => r = q

Trail == row # None /\ row.state # "discovered" => InTrail(row.state)

\* Of an outcome: its labels, the requests that may still write one, its moves.
Marks(x) == {i \in DOMAIN labels : labels[i] = x}
Owing(x) == {r \in Request : work[r].pc \in {"set", "label"} /\ work[r].to = x}
Moves(x) == {i \in DOMAIN log : log[i].to = x}

\* Every label, written or owed, has a move of its own in the trail.
Balance(x) == Cardinality(Marks(x)) + Cardinality(Owing(x)) <= Cardinality(Moves(x))

PursuitInv ==
    /\ Typed
    /\ \A r \in Request : Sound(r)
    /\ Opened /\ Trail
    /\ \A x \in Outcome : Balance(x)

--------------------------------------------------------------------------------
(* Lemmas about the operators.                                              *)

LEMMA IdleTyped == Idle \in Work
BY DEF Idle, Work, Actor

\* The sets that are counted are finite.
LEMMA Counted ==
    ASSUME Typed, NEW x
    PROVE  /\ IsFiniteSet(Marks(x)) /\ Cardinality(Marks(x)) \in Nat
           /\ IsFiniteSet(Owing(x)) /\ Cardinality(Owing(x)) \in Nat
           /\ IsFiniteSet(Moves(x)) /\ Cardinality(Moves(x)) \in Nat
<1>1. IsFiniteSet(DOMAIN labels) /\ IsFiniteSet(DOMAIN log)
  <2>1. DOMAIN labels = 1..Len(labels) /\ DOMAIN log = 1..Len(log)
    BY DEF Typed
  <2>2. Len(labels) \in Nat /\ Len(log) \in Nat
    BY DEF Typed
  <2> QED BY <2>1, <2>2, FS_Interval
<1>2. IsFiniteSet(Marks(x)) /\ IsFiniteSet(Moves(x))
  BY <1>1, FS_Subset DEF Marks, Moves
<1>3. IsFiniteSet(Owing(x))
  BY FS_Subset, PursuitAssumption DEF Owing
<1> QED BY <1>2, <1>3, FS_CardinalityType

\* What an entry adds to the trail.
LEMMA LogGrows ==
    ASSUME Typed, NEW e \in Entry, log' = Append(log, e)
    PROVE  /\ log' \in Seq(Entry) /\ Len(log) \in Nat
           /\ DOMAIN log = 1..Len(log) /\ DOMAIN log' = 1..(Len(log) + 1)
           /\ \A i \in DOMAIN log : i \in DOMAIN log' /\ log'[i] = log[i]
           /\ \A i \in DOMAIN log' : i \in DOMAIN log \/ i = Len(log) + 1
           /\ log'[Len(log) + 1] = e
BY DEF Typed

\* A move into s is in the trail for good.
LEMMA TrailGrows ==
    ASSUME Typed, NEW e \in Entry, log' = Append(log, e), NEW s, InTrail(s)
    PROVE  InTrail(s)'
BY LogGrows DEF InTrail

\* A request goes on, or stops, without anything being written and without being about
\* to write an opening, a state or a label.
LEMMA FrameKept ==
    ASSUME PursuitInv, NEW r \in Request, NEW w \in Work, work' = [work EXCEPT ![r] = w],
           UNCHANGED <<row, log, labels>>, live' \subseteq Token,
           w.pc \notin {"opening", "set", "label"},
           w.pc = "load" => w.to \in State,
           w.pc \in {"gate", "audit"} =>
             /\ row # None /\ w.from \in State /\ w.to \in State
             /\ w.to \in HumanOnly => w.actor = "human"
    PROVE  PursuitInv'
<1> USE DEF PursuitInv
<1>1. work' \in [Request -> Work] /\ work'[r] = w /\ \A q \in Request : q # r => work'[q] = work[q]
  BY DEF Typed
<1>2. Typed'
  BY <1>1 DEF Typed
<1>3. \A s : InTrail(s)' <=> InTrail(s)
  BY DEF InTrail
<1>4. Sound(r)'
  BY <1>1 DEF Sound
<1>5. ASSUME NEW q \in Request, q # r PROVE Sound(q)'
  BY <1>1, <1>3, <1>5 DEF Sound
<1>6. Opened'
  BY <1>1 DEF Opened
<1>7. Trail'
  BY <1>3 DEF Trail
<1>8. ASSUME NEW x \in Outcome PROVE Balance(x)'
  <2>1. Owing(x)' \subseteq Owing(x) /\ Marks(x)' = Marks(x) /\ Moves(x)' = Moves(x)
    BY <1>1 DEF Owing, Marks, Moves
  <2>2. Cardinality(Owing(x)') \in Nat /\ Cardinality(Owing(x)') <= Cardinality(Owing(x))
    BY <2>1, Counted, FS_Subset, FS_CardinalityType
  <2>3. Cardinality(Marks(x)) + Cardinality(Owing(x)) <= Cardinality(Moves(x))
    BY DEF Balance
  <2>4. Cardinality(Marks(x)') + Cardinality(Owing(x)') <= Cardinality(Moves(x)')
    BY <2>1, <2>2, <2>3, Counted
  <2> QED BY <2>4 DEF Balance
<1> QED BY <1>2, <1>4, <1>5, <1>6, <1>7, <1>8

LEMMA IdleKept ==
    ASSUME PursuitInv, NEW r \in Request, work' = [work EXCEPT ![r] = Idle],
           UNCHANGED <<row, log, labels>>, live' \subseteq Token
    PROVE  PursuitInv'
<1>1. Idle.pc = "idle"
  BY DEF Idle
<1> QED BY <1>1, IdleTyped, FrameKept

--------------------------------------------------------------------------------
(* The inductive invariant, action by action.                               *)

\* The opening entry of a path is its first, and the last has led to the row's state.
LEMMA InvInit == Init => PursuitInv
<1> SUFFICES ASSUME Init PROVE PursuitInv
  OBVIOUS
<1>1. PICK path \in Paths :
        /\ row = IF path = <<>> THEN None ELSE [state |-> path[Len(path)], closed |-> FALSE]
        /\ log = [i \in DOMAIN path |->
                    [from |-> IF i = 1 THEN None ELSE path[i - 1], to |-> path[i], actor |-> "human"]]
  BY DEF Init
<1> DEFINE entry(i) == [from |-> IF i = 1 THEN None ELSE path[i - 1], to |-> path[i], actor |-> "human"]
<1>2. path \in Seq(State) /\ Len(path) \in Nat /\ DOMAIN path = 1..Len(path)
  BY PursuitAssumption
<1>3. \A i \in 1..Len(path) : path[i] \in State
  BY <1>2
<1>4. log = [i \in 1..Len(path) |-> entry(i)]
  BY <1>1, <1>2
<1>5. \A i \in 1..Len(path) : entry(i) \in Entry
  BY <1>3 DEF Entry, Actor
<1>6. log \in Seq(Entry) /\ DOMAIN log = 1..Len(path)
  BY <1>2, <1>4, <1>5
<1>7. row \in Row \cup {None}
  BY <1>1, <1>2, <1>3 DEF Row
<1>8. Typed
  BY <1>6, <1>7, IdleTyped DEF Init, Typed
<1>9. \A r \in Request : work[r].pc = "idle"
  BY DEF Init, Idle
<1>10. Opened
  <2>1. \A i \in DOMAIN log : log[i].from = None => i = 1
    BY <1>3, <1>4, <1>6, NoneIsNothing
  <2>2. row = None => log = <<>>
    <3>1. path # <<>> => row \in Row
      BY <1>1, <1>2, <1>3 DEF Row
    <3>2. path = <<>> => log = <<>>
      BY <1>2, <1>6, EmptySeq, LenProperties, SeqEqual
    <3> QED BY <1>1, <3>1, <3>2, NoneIsNothing
  <2> QED BY <1>9, <2>1, <2>2 DEF Opened
<1>11. Trail
  <2> SUFFICES ASSUME row # None PROVE InTrail(row.state)
    BY DEF Trail
  <2>1. row.state = path[Len(path)] /\ Len(path) \in 1..Len(path)
    BY <1>1, <1>2
  <2> QED BY <1>4, <1>6, <2>1 DEF InTrail
<1>12. ASSUME NEW x \in Outcome PROVE Balance(x)
  <2>1. Marks(x) = {} /\ Owing(x) = {}
    BY <1>9 DEF Init, Marks, Owing
  <2> QED BY <1>8, <2>1, Counted, FS_EmptySet DEF Balance
<1> QED BY <1>8, <1>9, <1>10, <1>11, <1>12 DEF PursuitInv, Sound

\* A request that has just arrived.
LEMMA ArriveKeeps ==
    ASSUME PursuitInv, NEW r \in Request,
           \/ Open(r)
           \/ \E t \in Token : Tap(r, t)
           \/ \E to \in State, actor \in Actor : Move(r, to, actor)
    PROVE  PursuitInv'
<1>1. live' \subseteq Token /\ UNCHANGED <<row, log, labels>>
  BY DEF Open, Tap, Move, Arrive, table, PursuitInv, Typed
<1>2. PICK w \in Work : work' = [work EXCEPT ![r] = w] /\ w.pc \in {"select", "claim", "load"}
                        /\ (w.pc = "load" => w.to \in State)
  <2>1. CASE Open(r)
    <3>1. [Idle EXCEPT !.pc = "select"] \in Work /\ [Idle EXCEPT !.pc = "select"].pc = "select"
      BY IdleTyped DEF Work
    <3> QED BY <2>1, <3>1 DEF Open, Arrive
  <2>2. ASSUME NEW t \in Token, Tap(r, t)
        PROVE  \E w \in Work : work' = [work EXCEPT ![r] = w] /\ w.pc = "claim"
    <3>1. [Idle EXCEPT !.pc = "claim", !.tok = t] \in Work
          /\ [Idle EXCEPT !.pc = "claim", !.tok = t].pc = "claim"
      BY IdleTyped DEF Work
    <3> QED BY <2>2, <3>1 DEF Tap, Arrive
  <2>3. ASSUME NEW to \in State, NEW actor \in Actor, Move(r, to, actor)
        PROVE  \E w \in Work : work' = [work EXCEPT ![r] = w] /\ w.pc = "load" /\ w.to \in State
    <3> DEFINE w == [Idle EXCEPT !.pc = "load", !.to = to, !.actor = actor]
    <3>1. w \in Work /\ w.pc = "load" /\ w.to = to
      BY IdleTyped DEF Work
    <3> QED BY <2>3, <3>1 DEF Move, Arrive
  <2> QED BY <2>1, <2>2, <2>3
<1> QED BY <1>1, <1>2, FrameKept

LEMMA GoOnKeeps ==
    ASSUME PursuitInv, NEW r \in Request, Claim(r) \/ Select(r) \/ Fault(r)
    PROVE  PursuitInv'
<1>1. live' \subseteq Token /\ UNCHANGED <<row, log, labels>>
  BY DEF Claim, Select, Fault, table, PursuitInv, Typed
<1>2. work[r] \in Work
  BY DEF PursuitInv, Typed
<1>3. [work[r] EXCEPT !.pc = "select"] \in Work /\ [work[r] EXCEPT !.pc = "create"] \in Work
  BY <1>2 DEF Work
<1>4. [work[r] EXCEPT !.pc = "select"].pc = "select" /\ [work[r] EXCEPT !.pc = "create"].pc = "create"
  BY <1>2 DEF Work
<1>5. \/ work' = [work EXCEPT ![r] = Idle]
      \/ work' = [work EXCEPT ![r] = [work[r] EXCEPT !.pc = "select"]]
      \/ work' = [work EXCEPT ![r] = [work[r] EXCEPT !.pc = "create"]]
  BY DEF Claim, Select, Fault, Goto
<1> QED BY <1>1, <1>3, <1>4, <1>5, IdleKept, FrameKept

\* Nobody writes an opening while there is no row, so who creates it is alone.
LEMMA CreateKeeps ==
    ASSUME PursuitInv, NEW r \in Request, Create(r)
    PROVE  PursuitInv'
<1> USE DEF PursuitInv
<1> DEFINE w == [work[r] EXCEPT !.pc = "opening"]
<1>1. CASE row = None
  <2>1. /\ row' = [state |-> "discovered", closed |-> FALSE]
        /\ work' = [work EXCEPT ![r] = w] /\ UNCHANGED <<log, labels, live>>
    BY <1>1 DEF Create, Goto
  <2>2. w \in Work /\ w.pc = "opening"
    BY DEF Typed, Work
  <2> HIDE DEF w
  <2>3. work' \in [Request -> Work] /\ work'[r] = w /\ \A q \in Request : q # r => work'[q] = work[q]
    BY <2>1, <2>2 DEF Typed
  <2>4. row' \in Row /\ row' # None
    <3>1. "discovered" \in State
      BY DEF State, Transitions
    <3>2. [state |-> "discovered", closed |-> FALSE] \in Row
      BY <3>1 DEF Row
    <3> QED BY <2>1, <3>2, NoneIsNothing
  <2>5. Typed'
    BY <2>1, <2>3, <2>4 DEF Typed
  <2>6. log = <<>> /\ \A q \in Request : work[q].pc \notin {"opening", "gate", "audit", "set", "label"}
    BY <1>1 DEF Opened, Sound
  <2>7. \A q \in Request : Sound(q)'
    <3>1. Sound(r)'
      BY <2>2, <2>3 DEF Sound
    <3>2. ASSUME NEW q \in Request, q # r PROVE Sound(q)'
      BY <2>3, <2>6, <3>2 DEF Sound
    <3> QED BY <3>1, <3>2
  <2>8. Opened'
    BY <2>1, <2>3, <2>4, <2>6 DEF Opened
  <2>9. Trail'
    BY <2>1 DEF Trail
  <2>10. ASSUME NEW x \in Outcome PROVE Balance(x)'
    <3>1. Marks(x)' = Marks(x) /\ Owing(x)' = Owing(x) /\ Moves(x)' = Moves(x)
      <4>1. work[r].pc = "create"
        BY DEF Create
      <4> QED BY <2>1, <2>2, <2>3, <4>1 DEF Marks, Owing, Moves
    <3> QED BY <3>1 DEF Balance
  <2> QED BY <2>5, <2>7, <2>8, <2>9, <2>10
<1>2. CASE row # None
  <2>1. work' = [work EXCEPT ![r] = Idle] /\ UNCHANGED <<row, log, labels, live>>
    BY <1>2 DEF Create, Goto
  <2> QED BY <2>1, IdleKept DEF Typed
<1> QED BY <1>1, <1>2

LEMMA ValidateKeeps ==
    ASSUME PursuitInv, NEW r \in Request, NEW complete \in BOOLEAN, Validate(r, complete)
    PROVE  PursuitInv'
<1> USE DEF PursuitInv
<1> DEFINE w == [work[r] EXCEPT !.from = row.state,
                   !.pc = IF work[r].to = "qualified" THEN "gate" ELSE Then("checked", work[r].to)]
           ok == row # None /\ Allowed(row.state, work[r].to) /\ MayEnter(work[r].to, work[r].actor)
                   /\ (work[r].to \in NeedsData => complete)
<1>1. /\ work[r].pc = "load" /\ UNCHANGED <<row, log, labels, live>>
      /\ work' = [work EXCEPT ![r] = IF ok THEN w ELSE Idle]
  BY DEF Validate, table
<1>2. CASE ok
  <2>1. row.state \in State /\ work[r] \in Work /\ work[r].to \in State
    BY <1>1, <1>2 DEF Typed, Row, Sound
  <2>2. /\ w \in Work /\ w.pc \in {"gate", "audit"} /\ w.from = row.state /\ w.to = work[r].to
        /\ w.actor = work[r].actor
    BY <2>1 DEF Work, Then
  <2>3. w.to \in HumanOnly => w.actor = "human"
    BY <1>2, <2>2 DEF MayEnter
  <2> HIDE DEF w
  <2> QED BY <1>1, <1>2, <2>1, <2>2, <2>3, FrameKept DEF Typed
<1>3. CASE ~ok
  BY <1>1, <1>3, IdleKept DEF Typed
<1> QED BY <1>2, <1>3

LEMMA CheckGateKeeps ==
    ASSUME PursuitInv, NEW r \in Request, NEW verdict, CheckGate(r, verdict)
    PROVE  PursuitInv'
<1> USE DEF PursuitInv
<1> DEFINE w == [work[r] EXCEPT !.pc = "audit"]
<1>1. work[r].pc = "gate" /\ UNCHANGED <<row, log, labels, live>>
  BY DEF CheckGate, table
<1>2. work' = [work EXCEPT ![r] = Idle] \/ work' = [work EXCEPT ![r] = w]
  BY DEF CheckGate, Goto, Then
<1>3. /\ w \in Work /\ w.pc = "audit" /\ w.from = work[r].from /\ w.to = work[r].to
      /\ w.actor = work[r].actor
  BY DEF Typed, Work
<1>4. /\ row # None /\ w.from \in State /\ w.to \in State
      /\ w.to \in HumanOnly => w.actor = "human"
  BY <1>1, <1>3 DEF Sound
<1> HIDE DEF w
<1> QED BY <1>1, <1>2, <1>3, <1>4, FrameKept, IdleKept DEF Typed

\* The opening entry: who writes it is alone, and no other opens what is open.
LEMMA InsertOpeningKeeps ==
    ASSUME PursuitInv, NEW r \in Request, InsertOpening(r)
    PROVE  PursuitInv'
<1> USE DEF PursuitInv
<1> DEFINE e == [from |-> None, to |-> "discovered", actor |-> "human"]
<1>1. /\ log' = Append(log, e) /\ work' = [work EXCEPT ![r] = Idle] /\ work[r].pc = "opening"
      /\ UNCHANGED <<row, labels, live>>
  BY DEF InsertOpening, Goto
<1>2. e \in Entry /\ e.from = None /\ e.to = "discovered"
  <2>1. "discovered" \in State
    BY DEF State, Transitions
  <2> QED BY <2>1 DEF Entry, Actor
<1> HIDE DEF e
<1>3. /\ log' \in Seq(Entry) /\ Len(log) \in Nat
      /\ DOMAIN log = 1..Len(log) /\ DOMAIN log' = 1..(Len(log) + 1)
      /\ \A i \in DOMAIN log : i \in DOMAIN log' /\ log'[i] = log[i]
      /\ \A i \in DOMAIN log' : i \in DOMAIN log \/ i = Len(log) + 1
      /\ log'[Len(log) + 1] = e
  BY <1>1, <1>2, LogGrows
<1>4. /\ work' \in [Request -> Work] /\ work'[r].pc = "idle"
      /\ \A q \in Request : q # r => work'[q] = work[q]
  <2>1. Idle.pc = "idle"
    BY DEF Idle
  <2> QED BY <1>1, <2>1, IdleTyped DEF Typed
<1>5. Typed'
  BY <1>1, <1>3, <1>4 DEF Typed
<1>6. \A q \in Request : Sound(q)'
  <2>1. Sound(r)'
    BY <1>4 DEF Sound
  <2>2. ASSUME NEW q \in Request, q # r PROVE Sound(q)'
    <3>1. \A s : InTrail(s) => InTrail(s)'
      BY <1>1, <1>2, TrailGrows
    <3> QED BY <1>1, <1>4, <2>2, <3>1 DEF Sound
  <2> QED BY <2>1, <2>2
<1>7. Opened'
  <2>1. row # None /\ (\A i \in DOMAIN log : log[i].from # None) /\ \A q \in Request : work[q].pc = "opening" => q = r
    BY <1>1 DEF Opened
  <2>2. \A i \in DOMAIN log' : log'[i].from = None => i = Len(log) + 1
    BY <1>3, <2>1
  <2>3. \A q \in Request : work'[q].pc # "opening"
    BY <1>4, <2>1
  <2> QED BY <1>1, <2>1, <2>2, <2>3 DEF Opened
<1>8. Trail'
  BY <1>1, <1>2, TrailGrows DEF Trail
<1>9. ASSUME NEW x \in Outcome PROVE Balance(x)'
  <2>1. Marks(x)' = Marks(x) /\ Owing(x)' = Owing(x)
    BY <1>1, <1>4 DEF Marks, Owing
  <2>2. Moves(x) \subseteq Moves(x)'
    BY <1>3 DEF Moves
  <2>3. Cardinality(Moves(x)) <= Cardinality(Moves(x)') /\ Cardinality(Moves(x)') \in Nat
    <3>1. IsFiniteSet(Moves(x)')
      <4>1. IsFiniteSet(DOMAIN log')
        BY <1>3, FS_Interval
      <4>2. Moves(x)' \subseteq DOMAIN log'
        BY DEF Moves
      <4> QED BY <4>1, <4>2, FS_Subset
    <3> QED BY <2>2, <3>1, FS_Subset, FS_CardinalityType
  <2>4. Cardinality(Marks(x)) + Cardinality(Owing(x)) <= Cardinality(Moves(x))
    BY DEF Balance
  <2>5. Cardinality(Marks(x)') + Cardinality(Owing(x)') <= Cardinality(Moves(x)')
    BY <2>1, <2>3, <2>4, Counted
  <2> QED BY <2>5 DEF Balance
<1> QED BY <1>5, <1>6, <1>7, <1>8, <1>9

\* The audit row: the move is in the trail, and what it owes is counted.
LEMMA InsertAuditKeeps ==
    ASSUME PursuitInv, NEW r \in Request, InsertAudit(r)
    PROVE  PursuitInv'
<1> USE DEF PursuitInv
<1> DEFINE e == [from |-> work[r].from, to |-> work[r].to, actor |-> work[r].actor]
           w == [work[r] EXCEPT !.pc = "set"]
<1>1. /\ log' = Append(log, e) /\ work' = [work EXCEPT ![r] = w] /\ work[r].pc = "audit"
      /\ UNCHANGED <<row, labels, live>>
  BY DEF InsertAudit, Goto, Then
<1>2. /\ row # None /\ work[r].from \in State /\ work[r].to \in State /\ work[r] \in Work
      /\ work[r].to \in HumanOnly => work[r].actor = "human"
  BY <1>1 DEF Sound, Typed
<1>3. e \in Entry /\ e.from # None /\ e.to = work[r].to /\ e.actor = work[r].actor
  BY <1>2, NoneIsNothing DEF Entry, Work
<1>4. w \in Work /\ w.pc = "set" /\ w.to = work[r].to
  BY <1>2 DEF Work
<1> HIDE DEF e, w
<1>5. /\ log' \in Seq(Entry) /\ Len(log) \in Nat
      /\ DOMAIN log = 1..Len(log) /\ DOMAIN log' = 1..(Len(log) + 1)
      /\ \A i \in DOMAIN log : i \in DOMAIN log' /\ log'[i] = log[i]
      /\ \A i \in DOMAIN log' : i \in DOMAIN log \/ i = Len(log) + 1
      /\ log'[Len(log) + 1] = e
  BY <1>1, <1>3, LogGrows
<1>6. /\ work' \in [Request -> Work] /\ work'[r] = w
      /\ \A q \in Request : q # r => work'[q] = work[q]
  BY <1>1, <1>4 DEF Typed
<1>7. Typed'
  BY <1>1, <1>5, <1>6 DEF Typed
<1>8. \A q \in Request : Sound(q)'
  <2>1. Sound(r)'
    <3>1. Len(log) + 1 \in DOMAIN log' /\ log'[Len(log) + 1].to = work[r].to
          /\ log'[Len(log) + 1].actor = work[r].actor
      BY <1>3, <1>5
    <3>2. \E i \in DOMAIN log' : log'[i].to = work'[r].to
             /\ (work'[r].to \in HumanOnly => log'[i].actor = "human")
      BY <1>2, <1>4, <1>6, <3>1
    <3>3. work'[r].from = work[r].from /\ work'[r].to = work[r].to /\ work'[r].actor = work[r].actor
      BY <1>2, <1>6 DEF Work, w
    <3> QED BY <1>1, <1>2, <1>4, <1>6, <3>2, <3>3 DEF Sound, InTrail
  <2>2. ASSUME NEW q \in Request, q # r PROVE Sound(q)'
    <3>1. \A s : InTrail(s) => InTrail(s)'
      BY <1>1, <1>3, TrailGrows
    <3> QED BY <1>1, <1>6, <2>2, <3>1 DEF Sound
  <2> QED BY <2>1, <2>2
<1>9. Opened'
  BY <1>1, <1>2, <1>3, <1>4, <1>5, <1>6 DEF Opened
<1>10. Trail'
  BY <1>1, <1>3, TrailGrows DEF Trail
<1>11. ASSUME NEW x \in Outcome PROVE Balance(x)'
  <2>1. Marks(x)' = Marks(x)
    BY <1>1 DEF Marks
  <2>2. Cardinality(Marks(x)) + Cardinality(Owing(x)) <= Cardinality(Moves(x))
    BY DEF Balance
  <2>3. CASE x = work[r].to
    <3>1. Owing(x)' = Owing(x) \cup {r} /\ r \notin Owing(x)
      BY <1>1, <1>4, <1>6, <2>3 DEF Owing
    <3>2. Moves(x)' = Moves(x) \cup {Len(log) + 1} /\ Len(log) + 1 \notin Moves(x)
      BY <1>3, <1>5, <2>3 DEF Moves
    <3>3. Cardinality(Owing(x)') = Cardinality(Owing(x)) + 1 /\ Cardinality(Moves(x)') = Cardinality(Moves(x)) + 1
      BY <3>1, <3>2, Counted, FS_AddElement
    <3>4. Cardinality(Marks(x)') + Cardinality(Owing(x)') <= Cardinality(Moves(x)')
      BY <2>1, <2>2, <3>3, Counted
    <3> QED BY <3>4 DEF Balance
  <2>4. CASE x # work[r].to
    <3>1. Owing(x)' = Owing(x)
      BY <1>1, <1>4, <1>6, <2>4 DEF Owing
    <3>2. Moves(x)' = Moves(x)
      BY <1>3, <1>5, <2>4 DEF Moves
    <3>3. Cardinality(Marks(x)') + Cardinality(Owing(x)') <= Cardinality(Moves(x)')
      BY <2>1, <2>2, <3>1, <3>2
    <3> QED BY <3>3 DEF Balance
  <2> QED BY <2>3, <2>4
<1> QED BY <1>7, <1>8, <1>9, <1>10, <1>11

\* The row becomes what the trail has already got.
LEMMA SetStateKeeps ==
    ASSUME PursuitInv, NEW r \in Request, SetState(r)
    PROVE  PursuitInv'
<1> USE DEF PursuitInv
<1>1. /\ row' = [state |-> work[r].to, closed |-> row.closed \/ work[r].to = "archived"]
      /\ work[r].pc = "set" /\ UNCHANGED <<log, labels, live>>
  BY DEF SetState
<1>2. PICK w \in Work :
        /\ work' = [work EXCEPT ![r] = w]
        /\ \/ w.pc = "idle"
           \/ w.pc = "label" /\ w.to = work[r].to /\ w.from = work[r].from /\ w.actor = work[r].actor
              /\ w.to \in Outcome
  <2>1. CASE work[r].to \in Outcome
    <3>1. work' = [work EXCEPT ![r] = [work[r] EXCEPT !.pc = "label"]]
      BY <2>1 DEF SetState, Goto, Then
    <3>2. work[r] \in Work
      BY DEF Typed
    <3> DEFINE w == [work[r] EXCEPT !.pc = "label"]
    <3>3. w \in Work /\ w.pc = "label" /\ w.to = work[r].to /\ w.from = work[r].from
          /\ w.actor = work[r].actor
      BY <3>2 DEF Work
    <3> QED BY <2>1, <3>1, <3>3
  <2>2. CASE work[r].to \notin Outcome
    <3>1. work' = [work EXCEPT ![r] = Idle]
      BY <2>2 DEF SetState, Goto, Then
    <3>2. Idle.pc = "idle"
      BY DEF Idle
    <3> QED BY <3>1, <3>2, IdleTyped
  <2> QED BY <2>1, <2>2
<1>3. /\ row # None /\ work[r].from \in State /\ work[r].to \in State /\ InTrail(work[r].to)
      /\ work[r].to \in HumanOnly => work[r].actor = "human"
  BY <1>1 DEF Sound
<1>4. row' \in Row /\ row' # None /\ row'.state = work[r].to
  <2>1. (row.closed \/ work[r].to = "archived") \in BOOLEAN
    OBVIOUS
  <2>2. row' \in Row
    BY <1>1, <1>3, <2>1 DEF Row
  <2> QED BY <1>1, <2>2, NoneIsNothing
<1>5. /\ work' \in [Request -> Work] /\ work'[r] = w
      /\ \A q \in Request : q # r => work'[q] = work[q]
  BY <1>2 DEF Typed
<1>6. Typed'
  BY <1>1, <1>4, <1>5 DEF Typed
<1>7. \A s : InTrail(s)' <=> InTrail(s)
  BY <1>1 DEF InTrail
<1>8. \A q \in Request : Sound(q)'
  <2>1. Sound(r)'
    BY <1>2, <1>3, <1>4, <1>5 DEF Sound
  <2>2. ASSUME NEW q \in Request, q # r PROVE Sound(q)'
    BY <1>4, <1>5, <1>7, <2>2 DEF Sound
  <2> QED BY <2>1, <2>2
<1>9. Opened'
  <2>1. \A q \in Request : work'[q].pc = "opening" => work[q].pc = "opening"
    BY <1>2, <1>5
  <2> QED BY <1>1, <1>4, <2>1 DEF Opened
<1>10. Trail'
  BY <1>3, <1>4, <1>7 DEF Trail
<1>11. ASSUME NEW x \in Outcome PROVE Balance(x)'
  <2>1. Owing(x)' \subseteq Owing(x) /\ Marks(x)' = Marks(x) /\ Moves(x)' = Moves(x)
    BY <1>1, <1>2, <1>5 DEF Owing, Marks, Moves
  <2>2. Cardinality(Owing(x)') \in Nat /\ Cardinality(Owing(x)') <= Cardinality(Owing(x))
    BY <2>1, Counted, FS_Subset, FS_CardinalityType
  <2>3. Cardinality(Marks(x)) + Cardinality(Owing(x)) <= Cardinality(Moves(x))
    BY DEF Balance
  <2>4. Cardinality(Marks(x)') + Cardinality(Owing(x)') <= Cardinality(Moves(x)')
    BY <2>1, <2>2, <2>3, Counted
  <2> QED BY <2>4 DEF Balance
<1> QED BY <1>6, <1>8, <1>9, <1>10, <1>11

\* A label that was owed is written.
LEMMA InsertLabelKeeps ==
    ASSUME PursuitInv, NEW r \in Request, InsertLabel(r)
    PROVE  PursuitInv'
<1> USE DEF PursuitInv
<1>1. PICK y \in Outcome :
        /\ y = work[r].to /\ labels' = Append(labels, y) /\ work' = [work EXCEPT ![r] = Idle]
        /\ work[r].pc = "label" /\ UNCHANGED <<row, log, live>>
  BY DEF InsertLabel, Goto, Sound
<1>2. /\ work' \in [Request -> Work] /\ work'[r].pc = "idle"
      /\ \A q \in Request : q # r => work'[q] = work[q]
  <2>1. Idle.pc = "idle"
    BY DEF Idle
  <2> QED BY <1>1, <2>1, IdleTyped DEF Typed
<1>3. /\ labels' \in Seq(Outcome) /\ Len(labels) \in Nat
      /\ DOMAIN labels = 1..Len(labels) /\ DOMAIN labels' = 1..(Len(labels) + 1)
      /\ \A i \in DOMAIN labels : i \in DOMAIN labels' /\ labels'[i] = labels[i]
      /\ labels'[Len(labels) + 1] = y
  BY <1>1 DEF Typed
<1>4. Typed'
  BY <1>1, <1>2, <1>3 DEF Typed
<1>5. \A s : InTrail(s)' <=> InTrail(s)
  BY <1>1 DEF InTrail
<1>6. \A q \in Request : Sound(q)'
  <2>1. Sound(r)'
    BY <1>2 DEF Sound
  <2>2. ASSUME NEW q \in Request, q # r PROVE Sound(q)'
    BY <1>1, <1>2, <1>5, <2>2 DEF Sound
  <2> QED BY <2>1, <2>2
<1>7. Opened'
  BY <1>1, <1>2 DEF Opened
<1>8. Trail'
  BY <1>1, <1>5 DEF Trail
<1>9. ASSUME NEW x \in Outcome PROVE Balance(x)'
  <2>1. Moves(x)' = Moves(x)
    BY <1>1 DEF Moves
  <2>2. Cardinality(Marks(x)) + Cardinality(Owing(x)) <= Cardinality(Moves(x))
    BY DEF Balance
  <2>3. CASE x = y
    <3>1. Owing(x)' = Owing(x) \ {r} /\ r \in Owing(x)
      BY <1>1, <1>2, <2>3 DEF Owing
    <3>2. Marks(x)' = Marks(x) \cup {Len(labels) + 1} /\ Len(labels) + 1 \notin Marks(x)
      BY <1>3, <2>3 DEF Marks
    <3>3. Cardinality(Owing(x)') = Cardinality(Owing(x)) - 1
      BY <3>1, Counted, FS_RemoveElement
    <3>4. Cardinality(Marks(x)') = Cardinality(Marks(x)) + 1
      BY <3>2, Counted, FS_AddElement
    <3>5. Cardinality(Marks(x)') + Cardinality(Owing(x)') <= Cardinality(Moves(x)')
      BY <2>1, <2>2, <3>3, <3>4, Counted
    <3> QED BY <3>5 DEF Balance
  <2>4. CASE x # y
    <3>1. Owing(x)' = Owing(x)
      BY <1>1, <1>2, <2>4 DEF Owing
    <3>2. Marks(x)' = Marks(x)
      BY <1>3, <2>4 DEF Marks
    <3>3. Cardinality(Marks(x)') + Cardinality(Owing(x)') <= Cardinality(Moves(x)')
      BY <2>1, <2>2, <3>1, <3>2
    <3> QED BY <3>3 DEF Balance
  <2> QED BY <2>3, <2>4
<1> QED BY <1>4, <1>6, <1>7, <1>8, <1>9

\* A token expires, or nothing changes.
LEMMA StillKeeps ==
    ASSUME PursuitInv, (\E t \in Token : Expire(t)) \/ UNCHANGED vars
    PROVE  PursuitInv'
<1>1. UNCHANGED <<row, log, labels, work>> /\ live' \subseteq Token
  BY DEF Expire, vars, PursuitInv, Typed
<1>2. \A s : InTrail(s)' <=> InTrail(s)
  BY <1>1 DEF InTrail
<1>3. Typed' /\ (\A r \in Request : Sound(r)') /\ Opened' /\ Trail'
  BY <1>1, <1>2 DEF PursuitInv, Typed, Sound, Opened, Trail
<1>4. \A x \in Outcome : Balance(x)'
  BY <1>1 DEF PursuitInv, Balance, Marks, Owing, Moves
<1> QED BY <1>3, <1>4 DEF PursuitInv

LEMMA InvNext == PursuitInv /\ [Next]_vars => PursuitInv'
<1> SUFFICES ASSUME PursuitInv, [Next]_vars PROVE PursuitInv'
  OBVIOUS
<1>1. ASSUME NEW r \in Request, NEW t \in Token, Tap(r, t) PROVE PursuitInv'
  BY <1>1, ArriveKeeps
<1>2. ASSUME NEW r \in Request, NEW to \in State, NEW actor \in Actor, Move(r, to, actor)
      PROVE  PursuitInv'
  BY <1>2, ArriveKeeps
<1>3. ASSUME NEW r \in Request, Open(r) PROVE PursuitInv'
  BY <1>3, ArriveKeeps
<1>4. ASSUME NEW r \in Request, Claim(r) \/ Select(r) \/ Fault(r) PROVE PursuitInv'
  BY <1>4, GoOnKeeps
<1>5. ASSUME NEW r \in Request, Create(r) \/ InsertOpening(r) PROVE PursuitInv'
  BY <1>5, CreateKeeps, InsertOpeningKeeps
<1>6. ASSUME NEW r \in Request, InsertAudit(r) \/ SetState(r) \/ InsertLabel(r) PROVE PursuitInv'
  BY <1>6, InsertAuditKeeps, SetStateKeeps, InsertLabelKeeps
<1>7. ASSUME NEW r \in Request, NEW complete \in BOOLEAN, Validate(r, complete) PROVE PursuitInv'
  BY <1>7, ValidateKeeps
<1>8. ASSUME NEW r \in Request, NEW verdict, CheckGate(r, verdict) PROVE PursuitInv'
  BY <1>8, CheckGateKeeps
<1> QED BY <1>1, <1>2, <1>3, <1>4, <1>5, <1>6, <1>7, <1>8, StillKeeps DEF Next

\* The inductive invariant holds whatever the requests, their order and their faults.
THEOREM PursuitInvariant == Spec => []PursuitInv
BY InvInit, InvNext, PTL DEF Spec

--------------------------------------------------------------------------------
(* What follows.                                                            *)

\* The row, the trail, the labels and the requests keep their types.
THEOREM TypeCorrect == Spec => []TypeOK
<1>1. PursuitInv => TypeOK
  <2> SUFFICES ASSUME PursuitInv PROVE TypeOK
    OBVIOUS
  <2>1. Typed
    BY DEF PursuitInv
  <2>2. \A r \in Request : work[r] \in Work
    BY <2>1 DEF Typed
  <2> QED BY <2>1, <2>2 DEF Typed, TypeOK, Work
<1> QED BY <1>1, PursuitInvariant, PTL

\* However many taps and requests race, the pursuit is opened once.
THEOREM OpensOnce == Spec => []OpenedOnce
<1>1. PursuitInv => OpenedOnce
  <2> SUFFICES ASSUME PursuitInv PROVE OpenedOnce
    OBVIOUS
  <2> DEFINE openings == {i \in DOMAIN log : log[i].from = None}
  <2>1. row = None => log = <<>>
    BY DEF PursuitInv, Opened
  <2>2. \A i, j \in openings : i = j
    BY DEF PursuitInv, Opened
  <2>3. Cardinality(openings) <= 1
    <3>1. CASE openings = {}
      BY <3>1, FS_EmptySet
    <3>2. CASE openings # {}
      <4>1. PICK i \in openings : TRUE
        BY <3>2
      <4>2. openings = {} \cup {i}
        BY <2>2
      <4> HIDE DEF openings
      <4>3. IsFiniteSet({}) /\ Cardinality({}) = 0 /\ i \notin {}
        BY FS_EmptySet
      <4>4. Cardinality({} \cup {i}) = Cardinality({}) + 1
        BY <4>3, FS_AddElement
      <4>5. Cardinality({} \cup {i}) = 1
        BY <4>3, <4>4
      <4> QED BY <4>2, <4>5
    <3> QED BY <3>1, <3>2
  <2> QED BY <2>1, <2>3 DEF OpenedOnce
<1> QED BY <1>1, PursuitInvariant, PTL

\* The trail has the move that made the row what it is, by a person where the state
\* commits the account, and no outcome has more labels than moves.
THEOREM Audited == Spec => []StateIsAudited
<1>1. PursuitInv => StateIsAudited
  <2> SUFFICES ASSUME PursuitInv PROVE StateIsAudited
    OBVIOUS
  <2>1. row # None /\ row.state # "discovered" =>
          \E i \in DOMAIN log :
             log[i].to = row.state /\ (row.state \in HumanOnly => log[i].actor = "human")
    BY DEF PursuitInv, Trail, InTrail
  <2>2. ASSUME NEW x \in Outcome
        PROVE  Cardinality({i \in DOMAIN labels : labels[i] = x})
                 <= Cardinality({i \in DOMAIN log : log[i].to = x})
    <3>1. Cardinality(Marks(x)) + Cardinality(Owing(x)) <= Cardinality(Moves(x))
      BY DEF PursuitInv, Balance
    <3>2. Cardinality(Marks(x)) <= Cardinality(Moves(x))
      BY <3>1, Counted DEF PursuitInv
    <3> QED BY <3>2 DEF Marks, Moves
  <2> QED BY <2>1, <2>2 DEF StateIsAudited
<1> QED BY <1>1, PursuitInvariant, PTL

(***************************************************************************)
(* Requests that come one at a time: the trail as one path.                *)
(***************************************************************************)
\* The first n entries of the trail are one path of allowed moves from the opening,
\* which after an outcome only follows up and archives.
Path ==
    /\ log # <<>> /\ log[1].to = "discovered"
    /\ \A i \in 2..Len(log) :
         log[i].from = log[i - 1].to /\ log[i].to \in Transitions[log[i].from]
    /\ \A i, j \in DOMAIN log :
         i < j /\ log[i].to \in Outcome => log[j].to \in {"follow_up", "archived"}

\* The labels are the outcome among the first n moves.
LabelsOf(n) ==
    /\ \A i \in 1..n : log[i].to \in Outcome => labels = <<log[i].to>>
    /\ (\A i \in 1..n : log[i].to \notin Outcome) => labels = <<>>

\* Whether a request is at statement pc.
SomeAt(pc) == \E r \in Request : work[r].pc = pc

\* A request between its checks and its last statement works from the row it has read,
\* or has already made it what it asked for.
HandsOver(r) ==
    LET me == work[r]
    IN  /\ me.pc \in {"gate", "audit", "set"} =>
             me.from = row.state /\ me.to \in Transitions[row.state]
        /\ me.pc = "set" => log[Len(log)].from = me.from /\ log[Len(log)].to = me.to
        /\ me.pc = "label" => row.state = me.to

\* What holds between any two statements of requests that come one at a time.
Serial ==
    ~overlapped /\ ~died =>
        /\ \A r, q \in Request : Busy(r) /\ Busy(q) => r = q
        /\ row = None => labels = <<>>
        /\ row # None => (row.closed <=> row.state = "archived")
        /\ SomeAt("opening") => log = <<>> /\ labels = <<>> /\ row.state = "discovered"
        /\ row # None /\ ~SomeAt("opening") =>
             /\ Path
             /\ ~SomeAt("set") => log[Len(log)].to = row.state
             /\ LabelsOf(IF SomeAt("set") \/ SomeAt("label") THEN Len(log) - 1 ELSE Len(log))
             /\ \A r \in Request : HandsOver(r)

LEMMA SerialInit == Init => Serial
<1> SUFFICES ASSUME Init PROVE Serial
  OBVIOUS
<1>1. PICK path \in Paths :
        /\ row = IF path = <<>> THEN None ELSE [state |-> path[Len(path)], closed |-> FALSE]
        /\ log = [i \in DOMAIN path |->
                    [from |-> IF i = 1 THEN None ELSE path[i - 1], to |-> path[i], actor |-> "human"]]
  BY DEF Init
<1>2. path \in Seq(State) /\ Len(path) \in Nat /\ DOMAIN path = 1..Len(path)
  BY PursuitAssumption
<1>3. \A r \in Request : work[r].pc = "idle"
  BY DEF Init, Idle
<1>4. labels = <<>>
  BY DEF Init
<1>5. CASE path = <<>>
  <2>1. row = None
    BY <1>1, <1>5
  <2> QED BY <1>3, <1>4, <2>1 DEF Serial, SomeAt, Busy
<1>6. CASE path # <<>>
  <2>1. /\ path[1] = "discovered" /\ Len(path) # 0
        /\ \A i \in 2..Len(path) : path[i] \in Transitions[path[i - 1]] \ (Outcome \cup {"archived"})
    BY <1>2, <1>6, PursuitAssumption, EmptySeq
  <2>2. /\ \A i \in 1..Len(path) : log[i].to = path[i]
        /\ \A i \in 2..Len(path) : log[i].from = path[i - 1]
    BY <1>1, <1>2
  <2>3. log \in Seq(Entry) /\ Len(log) = Len(path) /\ DOMAIN log = 1..Len(path)
    <3>1. log \in Seq(Entry)
      BY InvInit DEF PursuitInv, Typed
    <3>2. DOMAIN log = 1..Len(path)
      BY <1>1, <1>2
    <3>3. \A a, b \in Nat : 1..a = 1..b => a = b
      <4> SUFFICES ASSUME NEW a \in Nat, NEW b \in Nat, 1..a = 1..b, a # b PROVE FALSE
        OBVIOUS
      <4>1. (a > 0 => a \in 1..b) /\ (b > 0 => b \in 1..a)
        OBVIOUS
      <4> QED BY <4>1
    <3>4. Len(log) \in Nat /\ DOMAIN log = 1..Len(log)
      BY <3>1, LenProperties
    <3> QED BY <1>2, <3>1, <3>2, <3>3, <3>4
  <2>4. \A i \in 1..Len(path) : path[i] \notin Outcome \cup {"archived"}
    <3>1. "discovered" \notin Outcome \cup {"archived"}
      BY DEF Outcome
    <3> QED BY <1>2, <2>1, <3>1
  <2>5. Path
    <3>1. \A i \in 2..Len(path) : i - 1 \in 1..Len(path)
      BY <1>2
    <3> QED BY <1>2, <2>1, <2>2, <2>3, <2>4, <3>1 DEF Path
  <2>6. row.state = path[Len(path)] /\ ~row.closed /\ Len(path) \in 1..Len(path)
    BY <1>1, <1>2, <1>6, <2>1
  <2>7. LabelsOf(Len(log))
    BY <1>4, <2>2, <2>3, <2>4 DEF LabelsOf
  <2> QED BY <1>3, <1>4, <2>2, <2>3, <2>4, <2>5, <2>6, <2>7 DEF Serial, SomeAt, HandsOver, Busy
<1> QED BY <1>5, <1>6

\* Requests come one at a time: where the one at work is, is where any is.
LEMMA OneAtWork ==
    ASSUME Serial, ~overlapped, ~died, NEW r \in Request, Busy(r),
           \A q \in Request : q # r => work'[q] = work[q]
    PROVE  /\ \A q \in Request : q # r => work[q].pc = "idle" /\ work'[q].pc = "idle"
           /\ \A pc : pc # "idle" => (SomeAt(pc) <=> work[r].pc = pc)
           /\ \A pc : pc # "idle" => (SomeAt(pc)' <=> work'[r].pc = pc)
           /\ \A p, q \in Request : Busy(p)' /\ Busy(q)' => p = q
           /\ HandsOver(r)' => \A q \in Request : HandsOver(q)'
<1>1. \A q \in Request : q # r => work[q].pc = "idle" /\ work'[q].pc = "idle"
  BY DEF Serial, Busy
<1> QED BY <1>1 DEF SomeAt, Busy, HandsOver

\* A request goes on, or stops, and nothing is written.
LEMMA FrameSerial ==
    ASSUME Serial, ~overlapped, ~died, NEW r \in Request, Busy(r),
           UNCHANGED <<row, log, labels>>,
           \A q \in Request : q # r => work'[q] = work[q],
           work[r].pc \notin {"opening", "set", "label"},
           work'[r].pc \notin {"opening", "set", "label"},
           row # None /\ work'[r].pc \in {"gate", "audit"} =>
             work'[r].from = row.state /\ work'[r].to \in Transitions[row.state]
    PROVE  Serial'
<1>1. /\ ~SomeAt("opening") /\ ~SomeAt("set") /\ ~SomeAt("label")
      /\ ~SomeAt("opening")' /\ ~SomeAt("set")' /\ ~SomeAt("label")'
      /\ \A p, q \in Request : Busy(p)' /\ Busy(q)' => p = q
  BY OneAtWork
<1>2. row # None => HandsOver(r)'
  BY DEF HandsOver
<1>3. row # None => \A q \in Request : HandsOver(q)'
  BY <1>2, OneAtWork
<1>4. /\ Path' <=> Path
      /\ LabelsOf(Len(log))' <=> LabelsOf(Len(log))
  BY DEF Path, LabelsOf
<1> QED BY <1>1, <1>3, <1>4 DEF Serial

LEMMA ArriveSerial ==
    ASSUME PursuitInv, PursuitInv', Serial, NEW r \in Request, NEW me \in Work,
           me.pc \in {"select", "claim", "load"}, Arrive(r, me)
    PROVE  Serial'
<1> SUFFICES ASSUME ~overlapped', ~died' PROVE Serial'
  BY DEF Serial
<1>1. /\ ~overlapped /\ ~died /\ \A q \in Request : work[q].pc = "idle"
      /\ work' = [work EXCEPT ![r] = me] /\ UNCHANGED <<row, log, labels>>
  BY DEF Arrive, table, Busy
<1>2. work'[r] = me /\ \A q \in Request : q # r => work'[q].pc = "idle"
  BY <1>1 DEF PursuitInv, Typed
<1>3. /\ ~SomeAt("opening") /\ ~SomeAt("set") /\ ~SomeAt("label")
      /\ ~SomeAt("opening")' /\ ~SomeAt("set")' /\ ~SomeAt("label")'
      /\ \A p, q \in Request : Busy(p)' /\ Busy(q)' => p = q
      /\ \A q \in Request : HandsOver(q)'
  BY <1>1, <1>2 DEF SomeAt, Busy, HandsOver
<1>4. /\ Path' <=> Path
      /\ LabelsOf(Len(log))' <=> LabelsOf(Len(log))
  BY <1>1 DEF Path, LabelsOf
<1> QED BY <1>1, <1>3, <1>4 DEF Serial

LEMMA ArrivalsSerial ==
    ASSUME PursuitInv, PursuitInv', Serial, NEW r \in Request,
           \/ Open(r)
           \/ \E t \in Token : Tap(r, t)
           \/ \E to \in State, actor \in Actor : Move(r, to, actor)
    PROVE  Serial'
<1>1. CASE Open(r)
  <2>1. [Idle EXCEPT !.pc = "select"] \in Work /\ [Idle EXCEPT !.pc = "select"].pc = "select"
    BY IdleTyped DEF Work
  <2> QED BY <1>1, <2>1, ArriveSerial DEF Open
<1>2. ASSUME NEW t \in Token, Tap(r, t) PROVE Serial'
  <2>1. [Idle EXCEPT !.pc = "claim", !.tok = t] \in Work
        /\ [Idle EXCEPT !.pc = "claim", !.tok = t].pc = "claim"
    BY IdleTyped DEF Work
  <2> QED BY <1>2, <2>1, ArriveSerial DEF Tap
<1>3. ASSUME NEW to \in State, NEW actor \in Actor, Move(r, to, actor) PROVE Serial'
  <2>1. [Idle EXCEPT !.pc = "load", !.to = to, !.actor = actor] \in Work
        /\ [Idle EXCEPT !.pc = "load", !.to = to, !.actor = actor].pc = "load"
    BY IdleTyped DEF Work
  <2> QED BY <1>3, <2>1, ArriveSerial DEF Move
<1> QED BY <1>1, <1>2, <1>3

LEMMA GoOnSerial ==
    ASSUME PursuitInv, PursuitInv', Serial, ~overlapped, ~died, NEW r \in Request,
           Claim(r) \/ Select(r)
    PROVE  Serial'
<1>1. /\ UNCHANGED <<row, log, labels>> /\ work[r].pc \in {"claim", "select"} /\ work[r] \in Work
  BY DEF Claim, Select, table, PursuitInv, Typed
<1>2. \/ work' = [work EXCEPT ![r] = Idle]
      \/ work' = [work EXCEPT ![r] = [work[r] EXCEPT !.pc = "select"]]
      \/ work' = [work EXCEPT ![r] = [work[r] EXCEPT !.pc = "create"]]
  BY DEF Claim, Select, Goto
<1>3. work'[r].pc \in {"idle", "select", "create"} /\ \A q \in Request : q # r => work'[q] = work[q]
  BY <1>1, <1>2 DEF PursuitInv, Typed, Work, Idle
<1> QED BY <1>1, <1>3, FrameSerial DEF Busy

LEMMA ValidateSerial ==
    ASSUME PursuitInv, PursuitInv', Serial, ~overlapped, ~died, NEW r \in Request,
           NEW complete \in BOOLEAN, Validate(r, complete)
    PROVE  Serial'
<1> DEFINE w == [work[r] EXCEPT !.from = row.state,
                   !.pc = IF work[r].to = "qualified" THEN "gate" ELSE Then("checked", work[r].to)]
           ok == row # None /\ Allowed(row.state, work[r].to) /\ MayEnter(work[r].to, work[r].actor)
                   /\ (work[r].to \in NeedsData => complete)
<1>1. /\ work[r].pc = "load" /\ UNCHANGED <<row, log, labels, live>> /\ work[r] \in Work
      /\ work' = [work EXCEPT ![r] = IF ok THEN w ELSE Idle]
  BY DEF Validate, table, PursuitInv, Typed
<1>2. w.pc \in {"gate", "audit"} /\ w.from = row.state /\ w.to = work[r].to
  BY <1>1 DEF Work, Then
<1>3. ok => work[r].to \in Transitions[row.state]
  BY DEF Allowed
<1> HIDE DEF ok, w
<1>4. /\ work'[r] = IF ok THEN w ELSE Idle
      /\ \A q \in Request : q # r => work'[q] = work[q]
  BY <1>1 DEF PursuitInv, Typed
<1> QED BY <1>1, <1>2, <1>3, <1>4, FrameSerial DEF Busy, Idle

LEMMA CheckGateSerial ==
    ASSUME PursuitInv, PursuitInv', Serial, ~overlapped, ~died, NEW r \in Request,
           NEW verdict, CheckGate(r, verdict)
    PROVE  Serial'
<1> DEFINE w == [work[r] EXCEPT !.pc = "audit"]
<1>1. /\ work[r].pc = "gate" /\ UNCHANGED <<row, log, labels, live>> /\ work[r] \in Work
      /\ row # None
  BY DEF CheckGate, table, PursuitInv, Typed, Sound
<1>2. work' = [work EXCEPT ![r] = Idle] \/ work' = [work EXCEPT ![r] = w]
  BY DEF CheckGate, Goto, Then
<1>3. w.pc = "audit" /\ w.from = work[r].from /\ w.to = work[r].to
  BY <1>1 DEF Work
<1> HIDE DEF w
<1>4. /\ work'[r] = w \/ work'[r] = Idle
      /\ \A q \in Request : q # r => work'[q] = work[q]
  BY <1>2 DEF PursuitInv, Typed
<1>5. ~SomeAt("opening")
  BY <1>1, <1>4, OneAtWork DEF Busy
<1>6. work[r].from = row.state /\ work[r].to \in Transitions[row.state]
  BY <1>1, <1>5 DEF Serial, HandsOver
<1> QED BY <1>1, <1>3, <1>4, <1>6, FrameSerial DEF Busy, Idle

\* The first statement of a pursuit that is not there yet: nothing has been written.
LEMMA CreateSerial ==
    ASSUME PursuitInv, PursuitInv', Serial, ~overlapped, ~died, NEW r \in Request, Create(r)
    PROVE  Serial'
<1>1. work[r].pc = "create" /\ work[r] \in Work /\ UNCHANGED <<log, labels>>
  BY DEF Create, PursuitInv, Typed
<1>2. CASE row # None
  <2>1. work' = [work EXCEPT ![r] = Idle] /\ UNCHANGED row
    BY <1>2 DEF Create, Goto
  <2>2. work'[r].pc = "idle" /\ \A q \in Request : q # r => work'[q] = work[q]
    BY <2>1 DEF PursuitInv, Typed, Idle
  <2> QED BY <1>1, <2>1, <2>2, FrameSerial DEF Busy
<1>3. CASE row = None
  <2> DEFINE w == [work[r] EXCEPT !.pc = "opening"]
  <2>1. work' = [work EXCEPT ![r] = w] /\ row' = [state |-> "discovered", closed |-> FALSE]
    BY <1>3 DEF Create, Goto
  <2>2. w.pc = "opening"
    BY <1>1 DEF Work
  <2> HIDE DEF w
  <2>3. work'[r].pc = "opening" /\ \A q \in Request : q # r => work'[q] = work[q]
    BY <2>1, <2>2 DEF PursuitInv, Typed
  <2>4. log = <<>> /\ labels = <<>>
    BY <1>3 DEF PursuitInv, Opened, Serial
  <2>5. SomeAt("opening")' /\ \A p, q \in Request : Busy(p)' /\ Busy(q)' => p = q
    BY <1>1, <2>3, OneAtWork DEF Busy
  <2>6. row'.state = "discovered" /\ ~row'.closed
    BY <2>1
  <2> QED BY <1>1, <2>4, <2>5, <2>6 DEF Serial, PursuitInv, Opened
<1> QED BY <1>2, <1>3

\* The opening is the first entry of the trail.
LEMMA InsertOpeningSerial ==
    ASSUME PursuitInv, PursuitInv', Serial, ~overlapped, ~died, NEW r \in Request,
           InsertOpening(r)
    PROVE  Serial'
<1> DEFINE e == [from |-> None, to |-> "discovered", actor |-> "human"]
<1>1. /\ log' = Append(log, e) /\ work' = [work EXCEPT ![r] = Idle] /\ work[r].pc = "opening"
      /\ UNCHANGED <<row, labels, live>>
  BY DEF InsertOpening, Goto
<1>2. /\ work'[r].pc = "idle" /\ \A q \in Request : q # r => work'[q] = work[q]
  BY <1>1 DEF PursuitInv, Typed, Idle
<1>3. /\ SomeAt("opening") /\ ~SomeAt("opening")' /\ ~SomeAt("set")' /\ ~SomeAt("label")'
      /\ \A p, q \in Request : Busy(p)' /\ Busy(q)' => p = q
  BY <1>1, <1>2, OneAtWork DEF Busy
<1>4. log = <<>> /\ labels = <<>> /\ row # None /\ row.state = "discovered"
  BY <1>1, <1>3 DEF Serial, PursuitInv, Opened
<1>5. log' \in Seq(Entry) /\ Len(log') = 1 /\ DOMAIN log' = 1..1 /\ log'[1] = e
  BY <1>1, <1>4 DEF PursuitInv, Typed
<1>6. e.to = "discovered" /\ "discovered" \notin Outcome
  BY DEF Outcome
<1> HIDE DEF e
<1>7. Path' /\ log'[Len(log')].to = row.state
  <2>1. log' # <<>>
    <3>1. \A s \in Seq(Entry) : Len(s) = 1 => s # <<>>
      BY EmptySeq
    <3>2. log' \in Seq(Entry) /\ Len(log') = 1
      BY <1>5
    <3> QED BY <3>1, <3>2, Zenon
  <2>2. \A i \in 2..Len(log') : FALSE
    BY <1>5
  <2>3. \A i, j \in DOMAIN log' : ~(i < j)
    BY <1>5
  <2>4. log'[1].to = "discovered"
    BY <1>5, <1>6
  <2>5. Path'
    BY <2>1, <2>2, <2>3, <2>4 DEF Path
  <2> QED BY <1>4, <1>5, <2>4, <2>5
<1>8. LabelsOf(Len(log))'
  BY <1>1, <1>4, <1>5, <1>6 DEF LabelsOf
<1>9. \A q \in Request : HandsOver(q)'
  <2>1. HandsOver(r)'
    BY <1>2 DEF HandsOver
  <2> QED BY <1>1, <1>2, <2>1, OneAtWork DEF Busy
<1> QED BY <1>1, <1>3, <1>4, <1>7, <1>8, <1>9 DEF Serial

\* Where a request has passed its checks, the trail is one path and ends at its row.
LEMMA AtItsRow ==
    ASSUME PursuitInv, Serial, ~overlapped, ~died, NEW r \in Request,
           work[r].pc \in {"audit", "set", "label"},
           \A q \in Request : q # r => work'[q] = work[q]
    PROVE  /\ row # None /\ Path /\ HandsOver(r)
           /\ work[r].pc # "set" => log[Len(log)].to = row.state
           /\ LabelsOf(IF work[r].pc = "audit" THEN Len(log) ELSE Len(log) - 1)
           /\ row.closed <=> row.state = "archived"
           /\ log \in Seq(Entry) /\ Len(log) \in Nat /\ Len(log) > 0 /\ DOMAIN log = 1..Len(log)
<1>1. row # None /\ Busy(r) /\ work[r] \in Work
  BY DEF PursuitInv, Sound, Busy, Typed
<1>2. /\ ~SomeAt("opening")
      /\ SomeAt("set") <=> work[r].pc = "set"
      /\ SomeAt("label") <=> work[r].pc = "label"
  BY <1>1, OneAtWork
<1>3. /\ Path /\ HandsOver(r)
      /\ work[r].pc # "set" => log[Len(log)].to = row.state
      /\ LabelsOf(IF work[r].pc = "audit" THEN Len(log) ELSE Len(log) - 1)
      /\ row.closed <=> row.state = "archived"
  BY <1>1, <1>2 DEF Serial
<1>4. log \in Seq(Entry) /\ Len(log) \in Nat /\ DOMAIN log = 1..Len(log) /\ log # <<>>
  BY <1>3 DEF PursuitInv, Typed, Path
<1>5. Len(log) > 0
  BY <1>4, EmptySeq
<1> QED BY <1>1, <1>3, <1>4, <1>5

\* From an outcome a pursuit is followed up or archived, and nothing else comes after.
LEMMA AfterOutcome ==
    /\ \A s \in Outcome : Transitions[s] \subseteq {"follow_up", "archived"}
    /\ \A s \in {"follow_up", "archived"} : Transitions[s] \subseteq {"archived"}
    /\ Transitions["archived"] = {}
    /\ Outcome \cap {"follow_up", "archived"} = {}
BY DEF Transitions, Outcome

\* The audit row extends the path.
LEMMA InsertAuditSerial ==
    ASSUME PursuitInv, PursuitInv', Serial, ~overlapped, ~died, NEW r \in Request,
           InsertAudit(r)
    PROVE  Serial'
<1> DEFINE e == [from |-> work[r].from, to |-> work[r].to, actor |-> work[r].actor]
           w == [work[r] EXCEPT !.pc = "set"]
<1>1. /\ log' = Append(log, e) /\ work' = [work EXCEPT ![r] = w]
      /\ work[r].pc = "audit" /\ work[r] \in Work /\ UNCHANGED <<row, labels>>
  BY DEF InsertAudit, Goto, Then, PursuitInv, Typed
<1>2. /\ e \in Entry /\ e.from = work[r].from /\ e.to = work[r].to
      /\ w.pc = "set" /\ w.from = work[r].from /\ w.to = work[r].to
  BY <1>1 DEF Work, Entry, PursuitInv, Sound
<1> HIDE DEF e, w
<1>3. work'[r] = w /\ \A q \in Request : q # r => work'[q] = work[q]
  BY <1>1 DEF PursuitInv, Typed
<1>4. /\ ~SomeAt("opening")' /\ SomeAt("set")' /\ \A p, q \in Request : Busy(p)' /\ Busy(q)' => p = q
  BY <1>1, <1>2, <1>3, OneAtWork DEF Busy
<1>5. /\ row # None /\ Path /\ HandsOver(r) /\ log[Len(log)].to = row.state /\ LabelsOf(Len(log))
      /\ row.closed <=> row.state = "archived"
      /\ Len(log) \in Nat /\ Len(log) > 0 /\ DOMAIN log = 1..Len(log)
  BY <1>1, <1>3, AtItsRow
<1>6. /\ Len(log') = Len(log) + 1 /\ DOMAIN log' = 1..(Len(log) + 1)
      /\ \A i \in 1..Len(log) : log'[i] = log[i]
      /\ log'[Len(log) + 1] = e /\ log' # <<>>
  BY <1>1, <1>2, LogGrows, EmptySeq DEF PursuitInv, Typed
<1>7. e.from = row.state /\ e.to \in Transitions[e.from]
  BY <1>1, <1>2, <1>5 DEF HandsOver
<1>8. Path'
  <2>1. log'[1].to = "discovered"
    BY <1>5, <1>6 DEF Path
  <2>2. ASSUME NEW i \in 2..Len(log')
        PROVE  log'[i].from = log'[i - 1].to /\ log'[i].to \in Transitions[log'[i].from]
    <3>1. CASE i = Len(log) + 1
      <4>1. i - 1 = Len(log) /\ Len(log) \in 1..Len(log)
        BY <1>5, <3>1
      <4> QED BY <1>5, <1>6, <1>7, <3>1, <4>1
    <3>2. CASE i # Len(log) + 1
      <4>1. i \in 2..Len(log) /\ i \in 1..Len(log) /\ i - 1 \in 1..Len(log)
        BY <1>5, <1>6, <3>2
      <4> QED BY <1>5, <1>6, <4>1 DEF Path
    <3> QED BY <3>1, <3>2
  <2>3. ASSUME NEW i \in DOMAIN log', NEW j \in DOMAIN log', i < j, log'[i].to \in Outcome
        PROVE  log'[j].to \in {"follow_up", "archived"}
    <3>1. i \in 1..Len(log) /\ log[i].to \in Outcome
      BY <1>5, <1>6, <2>3
    <3>2. CASE j \in 1..Len(log)
      BY <1>5, <1>6, <2>3, <3>1, <3>2 DEF Path
    <3>3. CASE j = Len(log) + 1
      <4>1. e.from \in Outcome \cup {"follow_up", "archived"}
        <5>1. CASE i = Len(log)
          BY <1>5, <1>7, <3>1, <5>1
        <5>2. CASE i < Len(log)
          <6>1. Len(log) \in DOMAIN log
            BY <1>5
          <6> QED BY <1>5, <1>7, <3>1, <5>2, <6>1 DEF Path
        <5> QED BY <1>5, <3>1, <5>1, <5>2
      <4>2. e.to \in {"follow_up", "archived"}
        BY <1>7, <4>1, AfterOutcome
      <4> QED BY <1>6, <3>3, <4>2
    <3> QED BY <1>5, <1>6, <3>2, <3>3
  <2> QED BY <1>6, <2>1, <2>2, <2>3 DEF Path
<1>10. (LabelsOf(Len(log) - 1))'
  <2>1. Len(log') - 1 = Len(log)
    BY <1>5, <1>6
  <2> QED BY <1>1, <1>5, <1>6, <2>1 DEF LabelsOf
<1>11. \A q \in Request : HandsOver(q)'
  <2>1. HandsOver(r)'
    BY <1>1, <1>2, <1>3, <1>6, <1>7 DEF HandsOver
  <2> QED BY <1>1, <1>3, <2>1, OneAtWork DEF Busy
<1> QED BY <1>1, <1>4, <1>5, <1>8, <1>10, <1>11 DEF Serial

\* The row follows the trail.
LEMMA SetStateSerial ==
    ASSUME PursuitInv, PursuitInv', Serial, ~overlapped, ~died, NEW r \in Request, SetState(r)
    PROVE  Serial'
<1>1. /\ row' = [state |-> work[r].to, closed |-> row.closed \/ work[r].to = "archived"]
      /\ work[r].pc = "set" /\ work[r] \in Work /\ UNCHANGED <<log, labels>>
  BY DEF SetState, PursuitInv, Typed
<1>2. /\ \A q \in Request : q # r => work'[q] = work[q]
      /\ work[r].to \in Outcome => work'[r].pc = "label" /\ work'[r].to = work[r].to
      /\ work[r].to \notin Outcome => work'[r].pc = "idle"
  BY <1>1 DEF SetState, Goto, Then, PursuitInv, Typed, Work, Idle
<1>3. /\ row # None /\ Path /\ HandsOver(r) /\ LabelsOf(Len(log) - 1)
      /\ row.closed <=> row.state = "archived"
      /\ Len(log) \in Nat /\ Len(log) > 0 /\ DOMAIN log = 1..Len(log)
  BY <1>1, <1>2, AtItsRow
<1>4. /\ ~SomeAt("opening")' /\ ~SomeAt("set")' /\ (SomeAt("label")' <=> work[r].to \in Outcome)
      /\ \A p, q \in Request : Busy(p)' /\ Busy(q)' => p = q
  BY <1>1, <1>2, OneAtWork DEF Busy
<1>5. /\ log[Len(log)].to = work[r].to /\ work[r].to \in Transitions[row.state]
      /\ row'.state = work[r].to
      /\ row'.closed <=> (row.closed \/ work[r].to = "archived")
  BY <1>1, <1>3 DEF HandsOver
<1>6. row'.closed <=> row'.state = "archived"
  BY <1>3, <1>5, AfterOutcome
<1>7. row' # None
  BY <1>1, <1>3, SetStateKeeps DEF PursuitInv, Opened, Path
<1>8. Path' /\ log'[Len(log')].to = row'.state
  BY <1>1, <1>3, <1>5 DEF Path
<1>9. LabelsOf(Len(log) - 1)' /\ (work[r].to \notin Outcome => LabelsOf(Len(log))')
  <2>1. LabelsOf(Len(log) - 1)'
    BY <1>1, <1>3 DEF LabelsOf
  <2>2. ASSUME work[r].to \notin Outcome PROVE LabelsOf(Len(log))'
    <3>1. \A i \in 1..Len(log) : log[i].to \in Outcome => i \in 1..(Len(log) - 1)
      BY <1>3, <1>5, <2>2
    <3>2. \A i \in 1..(Len(log) - 1) : i \in 1..Len(log)
      BY <1>3
    <3> QED BY <1>1, <1>3, <3>1, <3>2 DEF LabelsOf
  <2> QED BY <2>1, <2>2
<1>10. \A q \in Request : HandsOver(q)'
  <2>1. HandsOver(r)'
    BY <1>2, <1>5 DEF HandsOver
  <2> QED BY <1>1, <1>2, <2>1, OneAtWork DEF Busy
<1>11. (LabelsOf(IF SomeAt("set") \/ SomeAt("label") THEN Len(log) - 1 ELSE Len(log)))'
  BY <1>4, <1>9
<1> QED BY <1>4, <1>6, <1>7, <1>8, <1>10, <1>11 DEF Serial

\* The one outcome of the path gets its label.
LEMMA InsertLabelSerial ==
    ASSUME PursuitInv, PursuitInv', Serial, ~overlapped, ~died, NEW r \in Request,
           InsertLabel(r)
    PROVE  Serial'
<1>1. /\ labels' = Append(labels, work[r].to) /\ work' = [work EXCEPT ![r] = Idle]
      /\ work[r].pc = "label" /\ work[r].to \in Outcome /\ UNCHANGED <<row, log>>
  BY DEF InsertLabel, Goto, PursuitInv, Sound
<1>2. work'[r].pc = "idle" /\ \A q \in Request : q # r => work'[q] = work[q]
  BY <1>1 DEF PursuitInv, Typed, Idle
<1>3. /\ row # None /\ Path /\ HandsOver(r) /\ LabelsOf(Len(log) - 1)
      /\ log[Len(log)].to = row.state
      /\ row.closed <=> row.state = "archived"
      /\ Len(log) \in Nat /\ Len(log) > 0 /\ DOMAIN log = 1..Len(log)
  BY <1>1, <1>2, AtItsRow
<1>4. /\ ~SomeAt("opening")' /\ ~SomeAt("set")' /\ ~SomeAt("label")'
      /\ \A p, q \in Request : Busy(p)' /\ Busy(q)' => p = q
  BY <1>1, <1>2, OneAtWork DEF Busy
<1>5. log[Len(log)].to = work[r].to
  BY <1>1, <1>3 DEF HandsOver
<1>6. \A i \in 1..(Len(log) - 1) : log[i].to \notin Outcome
  <2> SUFFICES ASSUME NEW i \in 1..(Len(log) - 1), log[i].to \in Outcome PROVE FALSE
    OBVIOUS
  <2>1. i \in DOMAIN log /\ Len(log) \in DOMAIN log /\ i < Len(log)
    BY <1>3
  <2>2. log[Len(log)].to \in {"follow_up", "archived"}
    BY <1>3, <2>1 DEF Path
  <2> QED BY <1>1, <1>5, <2>2, AfterOutcome
<1>7. labels = <<>>
  BY <1>3, <1>6 DEF LabelsOf
<1>8. labels' = <<work[r].to>>
  BY <1>1, <1>7
<1>9. LabelsOf(Len(log))'
  <2>1. ASSUME NEW i \in 1..Len(log), log[i].to \in Outcome PROVE i = Len(log)
    <3>1. i \in 1..Len(log) /\ Len(log) \in Nat
      BY <1>3, <2>1
    <3>2. i # Len(log) => i \in 1..(Len(log) - 1)
      BY <3>1
    <3> QED BY <1>6, <2>1, <3>2
  <2>2. Len(log) \in 1..Len(log)
    BY <1>3
  <2> QED BY <1>1, <1>5, <1>8, <2>1, <2>2 DEF LabelsOf
<1>10. Path' /\ log'[Len(log')].to = row'.state
  BY <1>1, <1>3 DEF Path
<1>11. \A q \in Request : HandsOver(q)'
  <2>1. HandsOver(r)'
    BY <1>2 DEF HandsOver
  <2> QED BY <1>1, <1>2, <2>1, OneAtWork DEF Busy
<1> QED BY <1>1, <1>3, <1>4, <1>9, <1>10, <1>11 DEF Serial

LEMMA StillSerial ==
    ASSUME Serial, (\E t \in Token : Expire(t)) \/ UNCHANGED vars
    PROVE  Serial'
<1>1. UNCHANGED <<row, log, labels, work, overlapped, died>>
  BY DEF Expire, vars, past
<1>2. /\ Path' <=> Path
      /\ LabelsOf(Len(log))' <=> LabelsOf(Len(log))
      /\ LabelsOf(Len(log) - 1)' <=> LabelsOf(Len(log) - 1)
      /\ \A pc : SomeAt(pc)' <=> SomeAt(pc)
      /\ \A r \in Request : HandsOver(r)' <=> HandsOver(r)
  BY <1>1 DEF Path, LabelsOf, SomeAt, HandsOver
<1> QED BY <1>1, <1>2 DEF Serial, Busy

LEMMA SerialNext == PursuitInv /\ PursuitInv' /\ Serial /\ [Next]_vars => Serial'
<1> SUFFICES ASSUME PursuitInv, PursuitInv', Serial, [Next]_vars, ~overlapped', ~died' PROVE Serial'
  BY DEF Serial
<1>1. ASSUME NEW r \in Request, \/ Open(r)
                                \/ \E t \in Token : Tap(r, t)
                                \/ \E to \in State, actor \in Actor : Move(r, to, actor)
      PROVE  Serial'
  BY <1>1, ArrivalsSerial
<1>2. ASSUME NEW r \in Request, Claim(r) \/ Select(r) \/ Create(r) \/ InsertOpening(r)
      PROVE  Serial'
  <2>1. ~overlapped /\ ~died
    BY <1>2 DEF Claim, Select, Create, InsertOpening, past
  <2> QED BY <1>2, <2>1, GoOnSerial, CreateSerial, InsertOpeningSerial
<1>3. ASSUME NEW r \in Request, InsertAudit(r) \/ SetState(r) \/ InsertLabel(r)
      PROVE  Serial'
  <2>1. ~overlapped /\ ~died
    BY <1>3 DEF InsertAudit, SetState, InsertLabel, past
  <2> QED BY <1>3, <2>1, InsertAuditSerial, SetStateSerial, InsertLabelSerial
<1>4. ASSUME NEW r \in Request, NEW complete \in BOOLEAN, Validate(r, complete) PROVE Serial'
  <2>1. ~overlapped /\ ~died
    BY <1>4 DEF Validate, past
  <2> QED BY <1>4, <2>1, ValidateSerial
<1>5. ASSUME NEW r \in Request, NEW verdict, CheckGate(r, verdict) PROVE Serial'
  <2>1. ~overlapped /\ ~died
    BY <1>5 DEF CheckGate, past
  <2> QED BY <1>5, <2>1, CheckGateSerial
<1>6. ASSUME NEW r \in Request, Fault(r) PROVE Serial'
  BY <1>6 DEF Fault
<1> QED BY <1>1, <1>2, <1>3, <1>4, <1>5, <1>6, StillSerial DEF Next

\* While requests come one at a time and none stops half way, the trail is one path of
\* allowed moves, and each request works from the row it has read.
THEOREM SerialInvariant == Spec => []Serial
<1>1. Init => PursuitInv /\ Serial
  BY InvInit, SerialInit
<1>2. PursuitInv /\ Serial /\ [Next]_vars => (PursuitInv /\ Serial)'
  BY InvNext, SerialNext
<1> QED BY <1>1, <1>2, PTL DEF Spec

\* Between such requests the trail leads from the opening to the row's state by allowed
\* moves, the row is closed when it is archived, and the labels are the path's outcome.
THEOREM OnePath == Spec => []SerialHistory
<1>1. Typed /\ Serial => SerialHistory
  <2> SUFFICES ASSUME Typed, Serial, ~overlapped, ~died, Quiet, row # None
               PROVE  /\ log # <<>> /\ log[1].to = "discovered" /\ log[Len(log)].to = row.state
                      /\ \A i \in 2..Len(log) :
                           log[i].from = log[i - 1].to /\ log[i].to \in Transitions[log[i].from]
                      /\ row.closed <=> row.state = "archived"
                      /\ \A i \in DOMAIN log : log[i].to \in Outcome => labels = <<log[i].to>>
                      /\ (\A i \in DOMAIN log : log[i].to \notin Outcome) => labels = <<>>
    BY DEF SerialHistory
  <2>1. ~SomeAt("opening") /\ ~SomeAt("set") /\ ~SomeAt("label")
    BY DEF SomeAt, Quiet, Busy
  <2>2. Path /\ log[Len(log)].to = row.state /\ LabelsOf(Len(log)) /\ (row.closed <=> row.state = "archived")
    BY <2>1 DEF Serial
  <2>3. DOMAIN log = 1..Len(log)
    BY DEF Typed
  <2> QED BY <2>2, <2>3 DEF Path, LabelsOf
<1>2. PursuitInv => Typed
  BY DEF PursuitInv
<1> QED BY <1>1, <1>2, PursuitInvariant, SerialInvariant, PTL

--------------------------------------------------------------------------------
(* The takeoff sheet.                                                       *)

USE TakeoffAssumption

\* A figure the text justifies.
Founded(text, l) ==
    /\ l.quantity = "stated" => {"area", "feet"} \cap text # {}
    /\ l.assembly # "metal_stud_framing" /\ l.quantity = "stated" => "area" \in text
    /\ l.quantity = "priced" => text \subseteq {"valuation"}

\* The order in which deriveLines asks for the triggers.
Rank(a) == IF a = "hang_finish" THEN 1 ELSE IF a = "paint_walls" THEN 2
           ELSE IF a = "level5_skim" THEN 3 ELSE IF a = "fire_rated_assembly" THEN 4
           ELSE IF a = "act_grid" THEN 5 ELSE IF a = "metal_stud_framing" THEN 6 ELSE 7

\* Suggestions in that order, from one rank to another, and all of them founded.
Good(text, lo, hi, s) ==
    /\ s \in Seq(Suggestion)
    /\ \A i \in 1..Len(s) : /\ lo <= Rank(s[i].assembly) /\ Rank(s[i].assembly) <= hi
                            /\ Founded(text, s[i])
    /\ \A i, j \in 1..Len(s) : i < j => Rank(s[i].assembly) < Rank(s[j].assembly)

--------------------------------------------------------------------------------
(* Lemmas about deriveLines.                                                *)

LEMMA RankIsOne ==
    ASSUME NEW a \in Assembly, NEW b \in Assembly, Rank(a) = Rank(b)
    PROVE  a = b
BY DEF Assembly, Rank

LEMMA RankTyped ==
    ASSUME NEW a
    PROVE  Rank(a) \in 1..7
BY DEF Rank

LEMMA Ranks ==
    /\ Rank("hang_finish") = 1 /\ Rank("paint_walls") = 2 /\ Rank("level5_skim") = 3
    /\ Rank("fire_rated_assembly") = 4 /\ Rank("act_grid") = 5
    /\ Rank("metal_stud_framing") = 6 /\ Rank("scope_allowance") = 7
    /\ "hang_finish" \in Assembly /\ "paint_walls" \in Assembly
    /\ "level5_skim" \in Assembly /\ "fire_rated_assembly" \in Assembly
    /\ "act_grid" \in Assembly /\ "metal_stud_framing" \in Assembly
    /\ "scope_allowance" \in Assembly
BY DEF Rank, Assembly

LEMMA GoodEmpty ==
    ASSUME NEW text, NEW lo, NEW hi
    PROVE  Good(text, lo, hi, <<>>)
BY DEF Good

LEMMA GoodOne ==
    ASSUME NEW text, NEW a \in Assembly, NEW q \in {"stated", "zero", "priced"},
           NEW lo \in Nat, NEW hi \in Nat,
           Founded(text, [assembly |-> a, quantity |-> q]), lo <= Rank(a), Rank(a) <= hi
    PROVE  Good(text, lo, hi, Suggest(a, q)) /\ Suggest(a, q) # <<>>
<1>1. Suggest(a, q) = <<[assembly |-> a, quantity |-> q]>>
  BY DEF Suggest
<1> DEFINE l == [assembly |-> a, quantity |-> q]
<1>2. l \in Suggestion /\ l.assembly = a
  BY DEF Suggestion
<1> HIDE DEF l
<1>3. <<l>> \in Seq(Suggestion) /\ Len(<<l>>) = 1 /\ <<l>>[1] = l
  BY <1>2
<1>4. Good(text, lo, hi, <<l>>)
  BY <1>2, <1>3 DEF Good, l
<1> QED BY <1>1, <1>3, <1>4 DEF l

LEMMA GoodJoined ==
    ASSUME NEW text, NEW lo \in Nat, NEW mid \in Nat, NEW next \in Nat, NEW hi \in Nat,
           lo <= mid, mid <= hi, next = mid + 1,
           NEW s, NEW t, Good(text, lo, mid, s), Good(text, next, hi, t)
    PROVE  Good(text, lo, hi, s \o t) /\ (s \o t = <<>> => s = <<>> /\ t = <<>>)
<1>1. s \in Seq(Suggestion) /\ t \in Seq(Suggestion)
  BY DEF Good
<1> DEFINE m == Len(s)
           n == Len(t)
<1>2. m \in Nat /\ n \in Nat /\ s \o t \in Seq(Suggestion) /\ Len(s \o t) = m + n
  BY <1>1
<1>3. \A i \in 1..(m + n) : (s \o t)[i] = IF i <= m THEN s[i] ELSE t[i - m]
  BY <1>1
<1>4. \A i \in 1..(m + n) : i > m => i - m \in 1..n
  BY <1>2
<1>5. \A i \in 1..(m + n) : i <= m => i \in 1..m
  BY <1>2
<1> HIDE DEF m, n
<1> DEFINE u == s \o t
           R(i) == Rank(u[i].assembly)
<1>6. \A i \in 1..(m + n) : R(i) \in 1..7
  BY RankTyped
<1> HIDE DEF u
<1>7. ASSUME NEW i \in 1..(m + n)
      PROVE  lo <= R(i) /\ R(i) <= hi /\ Founded(text, u[i])
  <2>1. CASE i <= m
    BY <1>3, <1>5, <1>6, <2>1 DEF Good, m, u
  <2>2. CASE i > m
    <3>1. u[i] = t[i - m] /\ i - m \in 1..n
      BY <1>2, <1>3, <1>4, <2>2 DEF u
    <3>2. mid + 1 <= R(i) /\ R(i) <= hi /\ Founded(text, u[i])
      BY <3>1 DEF Good, n
    <3> QED BY <1>6, <3>2
  <2> QED BY <1>2, <2>1, <2>2
<1>8. ASSUME NEW i \in 1..(m + n), NEW j \in 1..(m + n), i < j
      PROVE  R(i) < R(j)
  <2>1. CASE j <= m
    BY <1>2, <1>3, <1>5, <1>8, <2>1 DEF Good, m, u
  <2>2. CASE i > m
    <3>1. i - m \in 1..n /\ j - m \in 1..n /\ i - m < j - m
      BY <1>2, <1>4, <1>8, <2>2
    <3> QED BY <1>2, <1>3, <1>8, <2>2, <3>1 DEF Good, n, u
  <2>3. CASE i <= m /\ j > m
    <3>1. R(i) <= mid
      BY <1>3, <1>5, <2>3 DEF Good, m, u
    <3>2. mid + 1 <= R(j)
      BY <1>2, <1>3, <1>4, <2>3 DEF Good, n, u
    <3> QED BY <1>6, <3>1, <3>2
  <2> QED BY <1>2, <2>1, <2>2, <2>3
<1>9. u = <<>> => s = <<>> /\ t = <<>>
  BY <1>1, <1>2 DEF m, n, u
<1> QED BY <1>2, <1>7, <1>8, <1>9 DEF Good, u

LEMMA GoodIf ==
    ASSUME NEW text, NEW lo, NEW hi, NEW trigger, NEW s,
           trigger \in text => Good(text, lo, hi, s) /\ s # <<>>
    PROVE  /\ Good(text, lo, hi, If(trigger \in text, s))
           /\ If(trigger \in text, s) = <<>> => trigger \notin text
BY GoodEmpty DEF If

\* Some trigger other than a valuation is enough for a line.
LEMMA MeasuredGood ==
    ASSUME NEW text
    PROVE  /\ Good(text, 1, 6, Measured(text))
           /\ Measured(text) = <<>> =>
                 text \cap {"area", "level5", "rated", "ceiling", "feet"} = {}
<1> DEFINE area    == If("area" \in text, Suggest("hang_finish", "stated")
                                          \o Suggest("paint_walls", "stated"))
           skim    == If("level5" \in text,
                         Suggest("level5_skim", IF "area" \in text THEN "stated" ELSE "zero"))
           rated   == If("rated" \in text, Suggest("fire_rated_assembly", "zero"))
           ceiling == If("ceiling" \in text, Suggest("act_grid", "zero"))
           feet    == If("feet" \in text, Suggest("metal_stud_framing", "stated"))
<1>1. Good(text, 1, 2, area) /\ (area = <<>> => "area" \notin text)
  <2>1. ASSUME "area" \in text
        PROVE  /\ Good(text, 1, 2, Suggest("hang_finish", "stated")
                                   \o Suggest("paint_walls", "stated"))
               /\ Suggest("hang_finish", "stated") \o Suggest("paint_walls", "stated") # <<>>
    <3>1. Good(text, 1, 1, Suggest("hang_finish", "stated"))
          /\ Suggest("hang_finish", "stated") # <<>>
      BY <2>1, GoodOne, Ranks DEF Founded
    <3>2. Good(text, 2, 2, Suggest("paint_walls", "stated"))
      BY <2>1, GoodOne, Ranks DEF Founded
    <3> QED BY <3>1, <3>2, GoodJoined
  <2> DEFINE both == Suggest("hang_finish", "stated") \o Suggest("paint_walls", "stated")
  <2>2. "area" \in text => Good(text, 1, 2, both) /\ both # <<>>
    BY <2>1
  <2> HIDE DEF both
  <2>3. /\ Good(text, 1, 2, If("area" \in text, both))
        /\ If("area" \in text, both) = <<>> => "area" \notin text
    BY <2>2, GoodIf
  <2> QED BY <2>3 DEF both
<1>2. Good(text, 3, 3, skim) /\ (skim = <<>> => "level5" \notin text)
  <2> DEFINE q == IF "area" \in text THEN "stated" ELSE "zero"
  <2>1. Good(text, 3, 3, Suggest("level5_skim", q)) /\ Suggest("level5_skim", q) # <<>>
    BY GoodOne, Ranks DEF Founded
  <2> QED BY <2>1, GoodIf
<1>3. Good(text, 4, 4, rated) /\ (rated = <<>> => "rated" \notin text)
  <2>1. /\ Good(text, 4, 4, Suggest("fire_rated_assembly", "zero"))
        /\ Suggest("fire_rated_assembly", "zero") # <<>>
    <3>1. Founded(text, [assembly |-> "fire_rated_assembly", quantity |-> "zero"])
      BY DEF Founded
    <3>2. /\ "fire_rated_assembly" \in Assembly /\ "zero" \in {"stated", "zero", "priced"}
          /\ 4 <= Rank("fire_rated_assembly") /\ Rank("fire_rated_assembly") <= 4
      BY Ranks
    <3> QED BY <3>1, <3>2, GoodOne
  <2> QED BY <2>1, GoodIf
<1>4. Good(text, 5, 5, ceiling) /\ (ceiling = <<>> => "ceiling" \notin text)
  <2>1. /\ Good(text, 5, 5, Suggest("act_grid", "zero"))
        /\ Suggest("act_grid", "zero") # <<>>
    <3>1. Founded(text, [assembly |-> "act_grid", quantity |-> "zero"])
      BY DEF Founded
    <3>2. /\ "act_grid" \in Assembly /\ "zero" \in {"stated", "zero", "priced"}
          /\ 5 <= Rank("act_grid") /\ Rank("act_grid") <= 5
      BY Ranks
    <3> QED BY <3>1, <3>2, GoodOne
  <2> QED BY <2>1, GoodIf
<1>5. Good(text, 6, 6, feet) /\ (feet = <<>> => "feet" \notin text)
  <2>1. ASSUME "feet" \in text
        PROVE  /\ Good(text, 6, 6, Suggest("metal_stud_framing", "stated"))
               /\ Suggest("metal_stud_framing", "stated") # <<>>
    <3>1. Founded(text, [assembly |-> "metal_stud_framing", quantity |-> "stated"])
      BY <2>1 DEF Founded
    <3>2. /\ "metal_stud_framing" \in Assembly /\ "stated" \in {"stated", "zero", "priced"}
          /\ 6 <= Rank("metal_stud_framing") /\ Rank("metal_stud_framing") <= 6
      BY Ranks
    <3> QED BY <3>1, <3>2, GoodOne
  <2> QED BY <2>1, GoodIf
<1>6. Measured(text) = area \o skim \o rated \o ceiling \o feet
  BY DEF Measured
<1> HIDE DEF area, skim, rated, ceiling, feet
<1>7. /\ Good(text, 1, 3, area \o skim)
      /\ area \o skim = <<>> => area = <<>> /\ skim = <<>>
  BY <1>1, <1>2, GoodJoined
<1>8. /\ Good(text, 1, 4, area \o skim \o rated)
      /\ area \o skim \o rated = <<>> => area \o skim = <<>> /\ rated = <<>>
  BY <1>3, <1>7, GoodJoined
<1>9. /\ Good(text, 1, 5, area \o skim \o rated \o ceiling)
      /\ area \o skim \o rated \o ceiling = <<>> =>
            area \o skim \o rated = <<>> /\ ceiling = <<>>
  BY <1>4, <1>8, GoodJoined
<1>10. /\ Good(text, 1, 6, area \o skim \o rated \o ceiling \o feet)
       /\ area \o skim \o rated \o ceiling \o feet = <<>> =>
             area \o skim \o rated \o ceiling = <<>> /\ feet = <<>>
  BY <1>5, <1>9, GoodJoined
<1> QED BY <1>1, <1>2, <1>3, <1>4, <1>5, <1>6, <1>7, <1>8, <1>9, <1>10

\* What deriveLines yields: each assembly once, in one order, and no figure that the text
\* does not justify.
LEMMA DerivedGood ==
    ASSUME NEW text \in SUBSET Trigger
    PROVE  Good(text, 1, 7, DeriveLines(text))
<1>1. ASSUME NEW s, Good(text, 1, 6, s) PROVE Good(text, 1, 7, s)
  <2>1. \A i \in 1..Len(s) : Rank(s[i].assembly) \in 1..7
    BY RankTyped
  <2> QED BY <1>1, <2>1 DEF Good
<1>2. CASE Measured(text) # <<>>
  BY <1>1, <1>2, MeasuredGood DEF DeriveLines
<1>3. CASE Measured(text) = <<>>
  <2>1. text \subseteq {"valuation"}
    BY <1>3, MeasuredGood DEF Trigger
  <2>2. /\ Good(text, 1, 7, Suggest("scope_allowance", "priced"))
        /\ Suggest("scope_allowance", "priced") # <<>>
    <3>1. Founded(text, [assembly |-> "scope_allowance", quantity |-> "priced"])
      BY <2>1 DEF Founded
    <3>2. /\ "scope_allowance" \in Assembly /\ "priced" \in {"stated", "zero", "priced"}
          /\ 1 <= Rank("scope_allowance") /\ Rank("scope_allowance") <= 7
      BY Ranks
    <3> QED BY <3>1, <3>2, GoodOne
  <2> QED BY <1>3, <2>2, GoodIf DEF DeriveLines
<1> QED BY <1>2, <1>3

LEMMA GoodTail ==
    ASSUME NEW text, NEW s, Good(text, 1, 7, s), s # <<>>
    PROVE  /\ Head(s) \in Suggestion /\ Founded(text, Head(s)) /\ Good(text, 1, 7, Tail(s))
           /\ \A i \in 1..Len(Tail(s)) : Tail(s)[i].assembly # Head(s).assembly
           /\ {s[i].assembly : i \in 1..Len(s)} =
                 {Head(s).assembly} \cup {Tail(s)[i].assembly : i \in 1..Len(Tail(s))}
<1>1. s \in Seq(Suggestion) /\ Len(s) \in Nat /\ Len(s) > 0
  BY DEF Good
<1>2. /\ Head(s) = s[1] /\ Tail(s) \in Seq(Suggestion) /\ Len(Tail(s)) = Len(s) - 1
      /\ \A i \in 1..Len(Tail(s)) : Tail(s)[i] = s[i + 1]
  BY <1>1
<1>3. 1 \in 1..Len(s) /\ \A i \in 1..Len(Tail(s)) : i + 1 \in 1..Len(s)
  BY <1>1, <1>2
<1> DEFINE t == Tail(s)
<1> HIDE DEF t
<1>4. Head(s) \in Suggestion /\ Founded(text, Head(s))
  BY <1>1, <1>2, <1>3 DEF Good
<1>5. Good(text, 1, 7, t)
  <2>1. \A i \in 1..Len(t) : /\ 1 <= Rank(t[i].assembly) /\ Rank(t[i].assembly) <= 7
                             /\ Founded(text, t[i])
    BY <1>2, <1>3 DEF Good, t
  <2>2. \A i, j \in 1..Len(t) : i < j => Rank(t[i].assembly) < Rank(t[j].assembly)
    BY <1>1, <1>2, <1>3 DEF Good, t
  <2> QED BY <1>2, <2>1, <2>2 DEF Good, t
<1>6. \A i \in 1..Len(t) : t[i].assembly # Head(s).assembly
  <2>1. \A i \in 1..Len(t) : Rank(s[1].assembly) < Rank(s[i + 1].assembly)
    BY <1>1, <1>2, <1>3 DEF Good, t
  <2>2. \A i \in 1..Len(s) : Rank(s[i].assembly) \in 1..7
    BY RankTyped
  <2> QED BY <1>2, <1>3, <2>1, <2>2 DEF t
<1>7. \A i \in 1..Len(s) : i = 1 \/ (i - 1 \in 1..Len(t) /\ s[i] = t[i - 1])
  BY <1>1, <1>2 DEF t
<1>8. {s[i].assembly : i \in 1..Len(s)} =
         {Head(s).assembly} \cup {t[i].assembly : i \in 1..Len(t)}
  <2>1. ASSUME NEW a \in {s[i].assembly : i \in 1..Len(s)}
        PROVE  a \in {Head(s).assembly} \cup {t[i].assembly : i \in 1..Len(t)}
    BY <1>2, <1>7
  <2>2. ASSUME NEW i \in 1..Len(t)
        PROVE  t[i].assembly \in {s[j].assembly : j \in 1..Len(s)}
    BY <1>2, <1>3 DEF t
  <2> QED BY <1>2, <1>3, <2>1, <2>2
<1> QED BY <1>4, <1>5, <1>6, <1>8 DEF t

--------------------------------------------------------------------------------
(* The inductive invariant.                                                 *)

LineIds == 1..Len(lines)

\* A line names a reading that was made, and what the reading stated.
LineKnown(i) ==
    /\ lines[i].of <= Len(derivation)
    /\ lines[i].source = "derived" => lines[i].of > 0
    /\ lines[i].of > 0 => Founded(derivation[lines[i].of], lines[i])

\* A derivation at work holds lines of a reading that was made.
WorkKnown(d) ==
    /\ d.pc = "idle" => d = AtRest
    /\ d.pc # "idle" => /\ d.of \in 1..Len(derivation)
                        /\ Good(derivation[d.of], 1, 7, d.todo)
    /\ d.pc \in {"delete", "insert"} => sheet # "none"

Made(n)  == {lines[i].assembly : i \in {k \in LineIds : lines[k].of = n}}
Asked(s) == {s[k].assembly : k \in 1..Len(s)}

\* The derivation that works alone works from the last reading: what it made and what it
\* has yet to make is what that asks for, each once, and from its inserts on nothing else
\* on the sheet is derived.
AloneAt(d) ==
    d.pc # "idle" =>
      /\ d.of = Len(derivation)
      /\ Made(d.of) \cup Asked(d.todo) = Asked(DeriveLines(derivation[d.of]))
      /\ Made(d.of) \cap Asked(d.todo) = {}
      /\ d.pc = "create" => sheet = "none"
      /\ d.pc = "insert" => \A i \in Live : lines[i].source = "derived" => lines[i].of = d.of

OneByOne ==
    \A r, s \in Deriver : deriving[r].pc # "idle" /\ deriving[s].pc # "idle" => r = s

\* No reading is on the sheet with an assembly twice, and one reading at a time is live.
LinesOnce ==
    \A i, j \in LineIds : lines[i].of > 0 /\ lines[i].of = lines[j].of
                          /\ lines[i].assembly = lines[j].assembly => i = j

LiveAlike ==
    \A i, j \in Live : lines[i].source = "derived" /\ lines[j].source = "derived" =>
                          lines[i].of = lines[j].of

\* With nobody at work the last reading is on the sheet.
Complete ==
    (\A r \in Deriver : deriving[r].pc = "idle") /\ derivation # <<>> =>
        Made(Len(derivation)) = Asked(DeriveLines(derivation[Len(derivation)]))

Tidy == OneByOne /\ (\A r \in Deriver : AloneAt(deriving[r])) /\ LinesOnce /\ LiveAlike /\ Complete

SheetInv ==
    /\ TakeoffTypeOK
    /\ \A i \in LineIds : LineKnown(i)
    /\ \A r \in Deriver : WorkKnown(deriving[r])
    /\ sheet = "none" => lines = <<>>
    /\ ~mixed => Tidy

--------------------------------------------------------------------------------
(* The estimator's steps, and the deletion of a derivation: no line comes.   *)

\* Lines keep the reading and the assembly; they lose their life or their figure.
LinesFade(new) ==
    /\ new \in Seq(Line) /\ Len(new) = Len(lines)
    /\ \A i \in LineIds :
          /\ new[i].of = lines[i].of /\ new[i].assembly = lines[i].assembly
          /\ new[i].source = "derived" => lines[i].source = "derived"
          /\ lines[i].gone => new[i].gone
          /\ new[i].quantity \in {lines[i].quantity, "estimator"}

LEMMA FadeKeeps ==
    ASSUME SheetInv, NEW new, LinesFade(new), lines' = new, UNCHANGED derivation
    PROVE  /\ lines' \in Seq(Line) /\ Len(lines') <= MaxLine /\ LineIds' = LineIds
           /\ (\A i \in LineIds : LineKnown(i))'
           /\ \A n : Made(n)' = Made(n)
           /\ Live' \subseteq Live
           /\ LinesOnce => LinesOnce'
           /\ LiveAlike => LiveAlike'
           /\ lines = <<>> => lines' = <<>>
<1>1. /\ LineIds' = LineIds /\ Len(lines') = Len(lines) /\ lines \in Seq(Line)
      /\ Len(lines) <= MaxLine /\ lines' \in Seq(Line)
  BY DEF LinesFade, LineIds, SheetInv, TakeoffTypeOK
<1>2. \A i \in LineIds : /\ lines'[i].of = lines[i].of
                         /\ lines'[i].assembly = lines[i].assembly
                         /\ lines'[i].source = "derived" => lines[i].source = "derived"
                         /\ lines[i].gone => lines'[i].gone
                         /\ lines'[i].quantity \in {lines[i].quantity, "estimator"}
  BY DEF LinesFade
<1>3. ASSUME NEW i \in LineIds PROVE LineKnown(i)'
  <2>1. LineKnown(i)
    BY DEF SheetInv
  <2>2. ASSUME NEW text, Founded(text, lines[i]) PROVE Founded(text, lines'[i])
    BY <1>2, <2>2 DEF Founded
  <2> QED BY <1>2, <2>1, <2>2 DEF LineKnown
<1>4. \A n : Made(n)' = Made(n)
  BY <1>1, <1>2 DEF Made
<1>5. Live' \subseteq Live
  BY <1>1, <1>2 DEF Live, LineIds
<1>6. LinesOnce => LinesOnce'
  BY <1>1, <1>2 DEF LinesOnce
<1>7. LiveAlike => LiveAlike'
  <2>1. \A i \in Live : i \in LineIds
    BY DEF Live, LineIds
  <2> QED BY <1>2, <1>5, <2>1 DEF LiveAlike
<1>8. lines = <<>> => lines' = <<>>
  BY <1>1
<1> QED BY <1>1, <1>3, <1>4, <1>5, <1>6, <1>7, <1>8

\* The estimator edits while the derivations stand where they were.
LEMMA EditKeeps ==
    ASSUME SheetInv, NEW new, LinesFade(new), lines' = new,
           UNCHANGED <<sheet, deriving, derivation, mixed, halts>>
    PROVE  SheetInv'
<1>1. /\ lines' \in Seq(Line) /\ Len(lines') <= MaxLine /\ LineIds' = LineIds
      /\ (\A i \in LineIds : LineKnown(i))'
      /\ \A n : Made(n)' = Made(n)
      /\ Live' \subseteq Live
      /\ LinesOnce => LinesOnce'
      /\ LiveAlike => LiveAlike'
      /\ lines = <<>> => lines' = <<>>
  BY FadeKeeps
<1>2. TakeoffTypeOK'
  BY <1>1 DEF SheetInv, TakeoffTypeOK
<1>3. (\A r \in Deriver : WorkKnown(deriving[r]))'
  BY DEF SheetInv, WorkKnown
<1>4. ASSUME ~mixed' PROVE Tidy'
  <2>1. Tidy
    BY <1>4 DEF SheetInv
  <2>2. \A i \in Live' : lines'[i].source = "derived" =>
            i \in Live /\ lines[i].source = "derived" /\ lines'[i].of = lines[i].of
    BY <1>1 DEF LinesFade, Live, LineIds
  <2>3. ASSUME NEW r \in Deriver PROVE AloneAt(deriving[r])'
    BY <1>1, <2>1, <2>2 DEF Tidy, AloneAt
  <2>4. OneByOne' /\ Complete'
    BY <1>1, <2>1 DEF Tidy, OneByOne, Complete
  <2> QED BY <1>1, <2>1, <2>3, <2>4 DEF Tidy
<1> QED BY <1>1, <1>2, <1>3, <1>4 DEF SheetInv

LEMMA UpdateLineStep ==
    ASSUME SheetInv, NEW i \in LineIds, UpdateLine(i)
    PROVE  SheetInv'
<1>1. lines \in Seq(Line)
  BY DEF SheetInv, TakeoffTypeOK
<1>2. PICK new : new = [lines EXCEPT ![i].source = "manual", ![i].quantity = "estimator"]
  OBVIOUS
<1>3. /\ lines' = new
      /\ UNCHANGED <<sheet, deriving, derivation, mixed, halts>>
  BY <1>2 DEF UpdateLine
<1> DEFINE l == [lines[i] EXCEPT !.source = "manual", !.quantity = "estimator"]
<1>4. l \in Line /\ l.of = lines[i].of /\ l.assembly = lines[i].assembly
      /\ l.source = "manual" /\ l.quantity = "estimator" /\ l.gone = lines[i].gone
  <2>1. lines[i] \in Line
    BY <1>1 DEF LineIds
  <2> QED BY <2>1 DEF Line
<1>5. new = [lines EXCEPT ![i] = l]
  BY <1>1, <1>2 DEF LineIds
<1> HIDE DEF l
<1>6. LinesFade(new)
  <2>1. new \in Seq(Line) /\ Len(new) = Len(lines)
    BY <1>1, <1>4, <1>5, ExceptSeq DEF LineIds
  <2>2. \A j \in LineIds : new[j] = IF j = i THEN l ELSE lines[j]
    BY <1>1, <1>5 DEF LineIds
  <2> QED BY <1>4, <2>1, <2>2 DEF LinesFade
<1> QED BY <1>3, <1>6, EditKeeps

LEMMA DeleteLineStep ==
    ASSUME SheetInv, NEW i \in LineIds, DeleteLine(i)
    PROVE  SheetInv'
<1>1. lines \in Seq(Line)
  BY DEF SheetInv, TakeoffTypeOK
<1>2. PICK new : new = [lines EXCEPT ![i].gone = TRUE]
  OBVIOUS
<1>3. /\ lines' = new
      /\ UNCHANGED <<sheet, deriving, derivation, mixed, halts>>
  BY <1>2 DEF DeleteLine
<1> DEFINE l == [lines[i] EXCEPT !.gone = TRUE]
<1>4. l \in Line /\ l.of = lines[i].of /\ l.assembly = lines[i].assembly
      /\ l.source = lines[i].source /\ l.quantity = lines[i].quantity /\ l.gone
  <2>1. lines[i] \in Line
    BY <1>1 DEF LineIds
  <2> QED BY <2>1 DEF Line
<1>5. new = [lines EXCEPT ![i] = l]
  BY <1>1, <1>2 DEF LineIds
<1> HIDE DEF l
<1>6. LinesFade(new)
  <2>1. new \in Seq(Line) /\ Len(new) = Len(lines)
    BY <1>1, <1>4, <1>5, ExceptSeq DEF LineIds
  <2>2. \A j \in LineIds : new[j] = IF j = i THEN l ELSE lines[j]
    BY <1>1, <1>5 DEF LineIds
  <2> QED BY <1>4, <2>1, <2>2 DEF LinesFade
<1> QED BY <1>3, <1>6, EditKeeps

\* A line at the end of the sheet.
LEMMA Appends ==
    ASSUME TakeoffTypeOK, NEW l \in Line, lines' = Append(lines, l), Len(lines) < MaxLine
    PROVE  /\ lines' \in Seq(Line) /\ Len(lines') <= MaxLine
           /\ \E n : /\ n \notin LineIds /\ LineIds' = LineIds \cup {n} /\ lines'[n] = l
                     /\ \A i \in LineIds : lines'[i] = lines[i]
<1>1. PICK n : n = Len(lines) + 1
  OBVIOUS
<1>2. lines \in Seq(Line) /\ Len(lines) \in Nat /\ MaxLine \in Nat
  BY DEF TakeoffTypeOK
<1>3. /\ lines' \in Seq(Line) /\ Len(lines') = n /\ lines'[n] = l
      /\ \A i \in LineIds : lines'[i] = lines[i]
  BY <1>1, <1>2 DEF LineIds
<1>4. n \notin LineIds /\ LineIds' = LineIds \cup {n}
  BY <1>1, <1>2, <1>3 DEF LineIds
<1>5. Len(lines') <= MaxLine
  BY <1>1, <1>2, <1>3
<1>6. /\ n \notin LineIds /\ LineIds' = LineIds \cup {n} /\ lines'[n] = l
      /\ \A i \in LineIds : lines'[i] = lines[i]
  BY <1>3, <1>4
<1> QED BY <1>3, <1>5, <1>6

LEMMA AddManualStep ==
    ASSUME SheetInv, NEW a \in Added, AddManualLine(a)
    PROVE  SheetInv'
<1> DEFINE l == [assembly |-> a, quantity |-> "estimator", source |-> "manual",
                 gone |-> FALSE, of |-> 0]
<1>1. l \in Line /\ l.of = 0 /\ l.source = "manual"
  BY DEF Line
<1>2. /\ lines' = Append(lines, l) /\ Len(lines) < MaxLine /\ sheet # "none"
      /\ UNCHANGED <<sheet, deriving, derivation, mixed, halts>>
  BY DEF AddManualLine
<1> HIDE DEF l
<1>3. TakeoffTypeOK
  BY DEF SheetInv
<1>4. lines' \in Seq(Line) /\ Len(lines') <= MaxLine
  BY <1>1, <1>2, <1>3, Appends
<1>5. PICK n : /\ n \notin LineIds /\ LineIds' = LineIds \cup {n} /\ lines'[n] = l
               /\ \A i \in LineIds : lines'[i] = lines[i]
  BY <1>1, <1>2, <1>3, Appends
<1>6. TakeoffTypeOK'
  BY <1>2, <1>3, <1>4 DEF TakeoffTypeOK
<1>7. ASSUME NEW i \in LineIds' PROVE LineKnown(i)'
  <2>1. CASE i = n
    <3>1. Len(derivation') \in Nat /\ 0 <= Len(derivation')
      BY <1>2, <1>3 DEF TakeoffTypeOK
    <3> QED BY <1>1, <1>5, <2>1, <3>1 DEF LineKnown
  <2>2. CASE i \in LineIds
    BY <1>2, <1>5, <2>2 DEF SheetInv, LineKnown
  <2> QED BY <1>5, <2>1, <2>2
<1>8. (\A r \in Deriver : WorkKnown(deriving[r]))'
  BY <1>2 DEF SheetInv, WorkKnown
<1>9. ASSUME ~mixed' PROVE Tidy'
  <2>1. Tidy
    BY <1>2, <1>9 DEF SheetInv
  <2>2. \A k : k # 0 => Made(k)' = Made(k)
    BY <1>1, <1>5 DEF Made
  <2>3. \A i \in Live' : lines'[i].source = "derived" =>
            i \in Live /\ lines[i].source = "derived" /\ lines'[i].of = lines[i].of
    BY <1>1, <1>5 DEF Live, LineIds
  <2>4. ASSUME NEW r \in Deriver PROVE AloneAt(deriving[r])'
    <3>1. deriving[r].pc # "idle" => deriving[r].of # 0
      BY DEF SheetInv, WorkKnown
    <3> QED BY <1>2, <2>1, <2>2, <2>3, <3>1 DEF Tidy, AloneAt
  <2>5. OneByOne'
    BY <1>2, <2>1 DEF Tidy, OneByOne
  <2>6. LinesOnce'
    BY <1>1, <1>5, <2>1 DEF Tidy, LinesOnce
  <2>7. LiveAlike'
    BY <2>1, <2>3 DEF Tidy, LiveAlike
  <2>8. Complete'
    <3>1. derivation # <<>> => Len(derivation) # 0
      BY <1>3 DEF TakeoffTypeOK
    <3> QED BY <1>2, <2>1, <2>2, <3>1 DEF Tidy, Complete
  <2> QED BY <2>4, <2>5, <2>6, <2>7, <2>8 DEF Tidy
<1> QED BY <1>2, <1>6, <1>7, <1>8, <1>9 DEF SheetInv

LEMMA SetStatusStep ==
    ASSUME SheetInv, SetStatus
    PROVE  SheetInv'
<1>1. /\ sheet # "none" /\ sheet' \in {"draft", "final"}
      /\ UNCHANGED <<lines, deriving, derivation, mixed, halts>>
  BY DEF SetStatus
<1>2. TakeoffTypeOK'
  BY <1>1 DEF SheetInv, TakeoffTypeOK
<1>3. (\A i \in LineIds : LineKnown(i))' /\ (\A r \in Deriver : WorkKnown(deriving[r]))'
  BY <1>1 DEF SheetInv, LineKnown, WorkKnown, LineIds
<1>4. ASSUME ~mixed' PROVE Tidy'
  <2>1. Tidy
    BY <1>1, <1>4 DEF SheetInv
  <2>2. ASSUME NEW r \in Deriver PROVE AloneAt(deriving[r])'
    BY <1>1, <2>1 DEF Tidy, AloneAt, Made, LineIds, Live
  <2>3. OneByOne' /\ LinesOnce' /\ LiveAlike' /\ Complete'
    BY <1>1, <2>1 DEF Tidy, OneByOne, LinesOnce, LiveAlike, Complete, Made, LineIds, Live
  <2> QED BY <2>2, <2>3 DEF Tidy
<1> QED BY <1>1, <1>2, <1>3, <1>4 DEF SheetInv

--------------------------------------------------------------------------------
(* The steps of a derivation.                                               *)

LEMMA RestIsIdle == AtRest \in Derivation /\ AtRest.pc = "idle"
BY DEF AtRest, Derivation

LEMMA DeriverMoves ==
    ASSUME TakeoffTypeOK, NEW r \in Deriver, NEW x \in Derivation,
           deriving' = [deriving EXCEPT ![r] = x]
    PROVE  /\ deriving' \in [Deriver -> Derivation]
           /\ \A s \in Deriver : deriving'[s] = IF s = r THEN x ELSE deriving[s]
BY DEF TakeoffTypeOK

LEMMA OneByOneKept ==
    ASSUME OneByOne, NEW r \in Deriver, NEW x,
           \A s \in Deriver : deriving'[s] = IF s = r THEN x ELSE deriving[s],
           x.pc # "idle" => deriving[r].pc # "idle"
    PROVE  OneByOne'
BY DEF OneByOne

LEMMA BeginStep ==
    ASSUME SheetInv, NEW r \in Deriver, NEW pc \in {"create", "delete"}, Begin(r, pc),
           pc = "create" <=> sheet = "none"
    PROVE  SheetInv'
<1>1. PICK text \in Readings :
          /\ derivation' = Append(derivation, text)
          /\ deriving' = [deriving EXCEPT ![r] = [pc |-> pc, todo |-> DeriveLines(text),
                                                  of |-> Len(derivation) + 1]]
  BY DEF Begin
<1>2. /\ deriving[r] = AtRest /\ Len(derivation) < MaxDerivation
      /\ mixed' = (mixed \/ Deriving # {}) /\ UNCHANGED <<sheet, lines, halts>>
  BY DEF Begin
<1>3. TakeoffTypeOK
  BY DEF SheetInv
<1>4. derivation \in Seq(Readings) /\ Len(derivation) \in Nat
  BY <1>3 DEF TakeoffTypeOK
<1>5. PICK n : n = Len(derivation) + 1
  OBVIOUS
<1>6. /\ derivation' \in Seq(Readings) /\ Len(derivation') = n /\ derivation'[n] = text
      /\ \A k \in 1..Len(derivation) : k \in 1..n /\ k # n /\ derivation'[k] = derivation[k]
      /\ n \in 1..MaxDerivation
  BY <1>1, <1>2, <1>4, <1>5
<1>7. PICK todo : todo = DeriveLines(text)
  OBVIOUS
<1>8. Good(text, 1, 7, todo) /\ todo \in Seq(Suggestion)
  BY <1>7, DerivedGood DEF Good
<1> DEFINE y == [pc |-> pc, todo |-> todo, of |-> n]
<1>9. y \in Derivation /\ y.pc = pc /\ y.todo = todo /\ y.of = n
  BY <1>6, <1>8 DEF Derivation
<1>10. deriving' = [deriving EXCEPT ![r] = y]
  BY <1>1, <1>5, <1>7
<1> HIDE DEF y
<1>11. PICK x \in Derivation : x = y
  BY <1>9
<1>12. /\ deriving' \in [Deriver -> Derivation]
       /\ \A s \in Deriver : deriving'[s] = IF s = r THEN x ELSE deriving[s]
  BY <1>3, <1>10, <1>11, DeriverMoves
<1>13. TakeoffTypeOK'
  BY <1>2, <1>3, <1>6, <1>12 DEF TakeoffTypeOK
<1>14. LineIds' = LineIds /\ \A i \in LineIds : lines'[i] = lines[i] /\ lines[i].of \in Nat
  <2>1. \A i \in LineIds : lines[i] \in Line
    BY <1>3 DEF TakeoffTypeOK, LineIds
  <2> QED BY <1>2, <2>1 DEF LineIds, Line
<1>15. ASSUME NEW i \in LineIds PROVE LineKnown(i)' /\ lines[i].of # n
  <2>1. LineKnown(i)
    BY DEF SheetInv
  <2>2. lines[i].of > 0 => lines[i].of \in 1..Len(derivation)
    BY <1>4, <1>14, <2>1 DEF LineKnown
  <2>3. lines[i].of <= Len(derivation) /\ lines[i].of # n
    BY <1>4, <1>5, <1>14, <2>1 DEF LineKnown
  <2>4. lines[i].of <= Len(derivation')
    BY <1>4, <1>5, <1>6, <1>14, <2>3
  <2> QED BY <1>6, <1>14, <2>1, <2>2, <2>3, <2>4 DEF LineKnown
<1>16. ASSUME NEW s \in Deriver PROVE WorkKnown(deriving[s])'
  <2>1. CASE s = r
    <3>1. n \in 1..Len(derivation')
      BY <1>4, <1>5, <1>6
    <3>2. pc = "delete" => sheet' # "none"
      BY <1>2
    <3> QED BY <1>6, <1>8, <1>9, <1>11, <1>12, <2>1, <3>1, <3>2 DEF WorkKnown
  <2>2. CASE s # r
    BY <1>2, <1>6, <1>12, <2>2 DEF SheetInv, WorkKnown
  <2> QED BY <2>1, <2>2
<1>17. ASSUME ~mixed' PROVE Tidy'
  <2>1. Tidy /\ Deriving = {}
    BY <1>2, <1>17 DEF SheetInv
  <2>2. \A s \in Deriver : deriving[s].pc = "idle"
    BY <2>1, RestIsIdle DEF Deriving
  <2>3. Made(n)' = {}
    BY <1>14, <1>15 DEF Made
  <2>4. OneByOne'
    BY <1>12, <2>2 DEF OneByOne
  <2>5. ASSUME NEW s \in Deriver PROVE AloneAt(deriving[s])'
    <3>1. CASE s = r
      <4>1. Made(n)' \cup Asked(todo) = Asked(DeriveLines(derivation'[n]))
        BY <1>6, <1>7, <2>3
      <4> QED BY <1>2, <1>6, <1>9, <1>11, <1>12, <2>3, <3>1, <4>1 DEF AloneAt
    <3>2. CASE s # r
      BY <1>12, <2>2, <3>2 DEF AloneAt
    <3> QED BY <3>1, <3>2
  <2>6. LinesOnce' /\ LiveAlike'
    BY <1>2, <2>1 DEF Tidy, LinesOnce, LiveAlike, LineIds, Live
  <2>7. Complete'
    BY <1>9, <1>11, <1>12 DEF Complete
  <2> QED BY <2>4, <2>5, <2>6, <2>7 DEF Tidy
<1> QED BY <1>2, <1>13, <1>14, <1>15, <1>16, <1>17 DEF SheetInv

\* The derivation r stops, and what it leaves is complete or the work was mixed.
LEMMA RestKeeps ==
    ASSUME SheetInv, NEW r \in Deriver, deriving' = [deriving EXCEPT ![r] = AtRest],
           UNCHANGED <<sheet, lines, derivation>>, halts' \in 0..MaxHalt, mixed' \in BOOLEAN,
           mixed => mixed',
           ~mixed' => Asked(deriving[r].todo) = {} /\ deriving[r].pc # "idle"
    PROVE  SheetInv'
<1>1. TakeoffTypeOK
  BY DEF SheetInv
<1>2. PICK x \in Derivation : x = AtRest
  BY RestIsIdle
<1>3. /\ deriving' \in [Deriver -> Derivation]
      /\ \A s \in Deriver : deriving'[s] = IF s = r THEN x ELSE deriving[s]
  BY <1>1, <1>2, DeriverMoves
<1>4. TakeoffTypeOK'
  BY <1>1, <1>3 DEF TakeoffTypeOK
<1>5. (\A i \in LineIds : LineKnown(i))'
  BY DEF SheetInv, LineIds, LineKnown
<1>6. ASSUME NEW s \in Deriver PROVE WorkKnown(deriving[s])'
  BY <1>2, <1>3, RestIsIdle DEF SheetInv, WorkKnown
<1>7. ASSUME ~mixed' PROVE Tidy'
  <2>1. Tidy /\ Asked(deriving[r].todo) = {} /\ deriving[r].pc # "idle"
    BY <1>7 DEF SheetInv
  <2>2. OneByOne'
    BY <1>2, <1>3, <2>1, RestIsIdle, OneByOneKept DEF Tidy
  <2>3. \A k : Made(k)' = Made(k)
    BY DEF Made, LineIds
  <2>4. \A s \in Deriver : AloneAt(deriving[s])'
    BY <1>2, <1>3, <2>1, <2>3, RestIsIdle DEF Tidy, AloneAt, Live
  <2>5. LinesOnce' /\ LiveAlike'
    BY <2>1 DEF Tidy, LinesOnce, LiveAlike, LineIds, Live
  <2>6. Complete'
    <3>1. /\ deriving[r].of = Len(derivation)
          /\ Made(deriving[r].of) = Asked(DeriveLines(derivation[deriving[r].of]))
      BY <2>1 DEF Tidy, AloneAt
    <3>2. Made(Len(derivation)) = Asked(DeriveLines(derivation[Len(derivation)]))
      BY <3>1
    <3> QED BY <2>3, <3>2 DEF Complete
  <2> QED BY <2>2, <2>4, <2>5, <2>6 DEF Tidy
<1> QED BY <1>4, <1>5, <1>6, <1>7 DEF SheetInv

LEMMA EndsStep ==
    ASSUME SheetInv, NEW r \in Deriver, DerivationEnds(r)
    PROVE  SheetInv'
<1>1. /\ deriving[r].pc = "insert" /\ deriving[r].todo = <<>>
      /\ deriving' = [deriving EXCEPT ![r] = AtRest]
      /\ UNCHANGED <<sheet, lines, derivation, mixed, halts>>
  BY DEF DerivationEnds
<1>2. Asked(deriving[r].todo) = {}
  BY <1>1 DEF Asked
<1>3. halts' \in 0..MaxHalt /\ mixed' \in BOOLEAN
  BY <1>1 DEF SheetInv, TakeoffTypeOK
<1> QED BY <1>1, <1>2, <1>3, RestKeeps

LEMMA DeriverDiesStep ==
    ASSUME SheetInv, NEW r \in Deriver, DeriverDies(r)
    PROVE  SheetInv'
<1>1. /\ deriving' = [deriving EXCEPT ![r] = AtRest] /\ mixed' = TRUE
      /\ UNCHANGED <<sheet, lines, derivation>> /\ halts < MaxHalt /\ halts' = halts + 1
  BY DEF DeriverDies
<1>2. halts' \in 0..MaxHalt
  BY <1>1 DEF SheetInv, TakeoffTypeOK
<1>3. mixed' \in BOOLEAN /\ mixed'
  BY <1>1
<1> QED BY <1>1, <1>2, <1>3, RestKeeps

LEMMA CreateSheetStep ==
    ASSUME SheetInv, NEW r \in Deriver, CreateSheet(r)
    PROVE  SheetInv'
<1>1. deriving[r].pc = "create" /\ UNCHANGED <<lines, derivation, mixed, halts>>
  BY DEF CreateSheet
<1>2. TakeoffTypeOK /\ deriving[r] \in Derivation
  BY DEF SheetInv, TakeoffTypeOK
<1>3. CASE sheet # "none"
  <2>1. deriving' = [deriving EXCEPT ![r] = AtRest] /\ sheet' = sheet
    BY <1>3 DEF CreateSheet
  <2>2. mixed
    BY <1>1, <1>3 DEF SheetInv, Tidy, AloneAt
  <2>3. halts' \in 0..MaxHalt /\ mixed' \in BOOLEAN
    BY <1>1, <1>2 DEF TakeoffTypeOK
  <2> QED BY <1>1, <2>1, <2>2, <2>3, RestKeeps
<1>4. CASE sheet = "none"
  <2>1. PICK h \in Derivation : h = deriving[r]
    BY <1>2
  <2> DEFINE y == [h EXCEPT !.pc = "insert"]
  <2>2. /\ y \in Derivation /\ y.pc = "insert" /\ y.of = h.of /\ y.todo = h.todo
        /\ deriving' = [deriving EXCEPT ![r] = y] /\ sheet' = "draft"
    BY <1>2, <1>4, <2>1 DEF CreateSheet, Derivation, TakeoffTypeOK
  <2> HIDE DEF y
  <2>3. PICK x \in Derivation : x = y
    BY <2>2
  <2>4. /\ deriving' \in [Deriver -> Derivation]
        /\ \A s \in Deriver : deriving'[s] = IF s = r THEN x ELSE deriving[s]
    BY <1>2, <2>2, <2>3, DeriverMoves
  <2>5. TakeoffTypeOK'
    BY <1>1, <1>2, <2>2, <2>4 DEF TakeoffTypeOK
  <2>6. (\A i \in LineIds : LineKnown(i))'
    BY <1>1 DEF SheetInv, LineIds, LineKnown
  <2>7. ASSUME NEW s \in Deriver PROVE WorkKnown(deriving[s])'
    BY <1>1, <2>1, <2>2, <2>3, <2>4 DEF SheetInv, WorkKnown
  <2>8. Live' = {} /\ \A k : Made(k)' = Made(k)
    BY <1>1, <1>4 DEF SheetInv, Live, Made, LineIds
  <2>9. ASSUME ~mixed' PROVE Tidy'
    <3>1. Tidy
      BY <1>1, <2>9 DEF SheetInv
    <3>2. OneByOne'
      BY <1>1, <2>4, <3>1, OneByOneKept DEF Tidy
    <3>3. ASSUME NEW s \in Deriver PROVE AloneAt(deriving[s])'
      <4>1. CASE s = r
        BY <1>1, <2>1, <2>2, <2>3, <2>4, <2>8, <3>1, <4>1 DEF Tidy, AloneAt
      <4>2. CASE s # r
        <5>1. deriving[s].pc = "idle"
          BY <1>1, <3>1, <4>2 DEF Tidy, OneByOne
        <5> QED BY <2>4, <4>2, <5>1 DEF AloneAt
      <4> QED BY <4>1, <4>2
    <3>4. LinesOnce' /\ LiveAlike'
      BY <1>1, <3>1 DEF Tidy, LinesOnce, LiveAlike, LineIds, Live
    <3>5. Complete'
      BY <2>2, <2>3, <2>4 DEF Complete
    <3> QED BY <3>2, <3>3, <3>4, <3>5 DEF Tidy
  <2> QED BY <2>2, <2>5, <2>6, <2>7, <2>9 DEF SheetInv
<1> QED BY <1>3, <1>4

\* The deletion takes what derivations made, and nothing else.
LEMMA DeleteDerivedStep ==
    ASSUME SheetInv, NEW r \in Deriver, DeleteDerived(r)
    PROVE  SheetInv'
<1>1. TakeoffTypeOK /\ deriving[r] \in Derivation
  BY DEF SheetInv, TakeoffTypeOK
<1>2. PICK new : new = [i \in 1..Len(lines) |->
                           [lines[i] EXCEPT !.gone = @ \/ Replaceable(lines[i])]]
  OBVIOUS
<1>3. /\ deriving[r].pc = "delete" /\ lines' = new
      /\ UNCHANGED <<sheet, derivation, mixed, halts>>
  BY <1>2 DEF DeleteDerived
<1>4. ASSUME NEW i \in LineIds
      PROVE  /\ new[i] \in Line /\ new[i].of = lines[i].of
             /\ new[i].assembly = lines[i].assembly /\ new[i].source = lines[i].source
             /\ new[i].quantity = lines[i].quantity
             /\ new[i].gone = (lines[i].gone \/ lines[i].source = "derived")
  <2>1. lines[i] \in Line
    BY <1>1 DEF TakeoffTypeOK, LineIds
  <2>2. new[i] = [lines[i] EXCEPT !.gone = lines[i].gone \/ Replaceable(lines[i])]
    BY <1>2 DEF LineIds
  <2>3. (lines[i].gone \/ Replaceable(lines[i])) \in BOOLEAN
    BY DEF Replaceable
  <2> QED BY <2>1, <2>2, <2>3 DEF Line, Replaceable
<1>5. LinesFade(new)
  <2>1. new \in [1..Len(lines) -> Line] /\ Len(lines) \in Nat
    BY <1>1, <1>2, <1>4 DEF LineIds, TakeoffTypeOK
  <2>2. new \in Seq(Line) /\ Len(new) = Len(lines)
    BY <2>1
  <2> QED BY <1>4, <2>2 DEF LinesFade
<1>6. /\ lines' \in Seq(Line) /\ Len(lines') <= MaxLine /\ LineIds' = LineIds
      /\ (\A i \in LineIds : LineKnown(i))'
      /\ \A k : Made(k)' = Made(k)
      /\ LinesOnce => LinesOnce'
      /\ LiveAlike => LiveAlike'
      /\ lines = <<>> => lines' = <<>>
  BY <1>3, <1>5, FadeKeeps
<1>7. PICK h \in Derivation : h = deriving[r]
  BY <1>1
<1> DEFINE y == [h EXCEPT !.pc = "insert"]
<1>8. /\ y \in Derivation /\ y.pc = "insert" /\ y.of = h.of /\ y.todo = h.todo
      /\ deriving' = [deriving EXCEPT ![r] = y]
  BY <1>1, <1>7 DEF DeleteDerived, Derivation, TakeoffTypeOK
<1> HIDE DEF y
<1>9. PICK x \in Derivation : x = y
  BY <1>8
<1>10. /\ deriving' \in [Deriver -> Derivation]
       /\ \A s \in Deriver : deriving'[s] = IF s = r THEN x ELSE deriving[s]
  BY <1>1, <1>8, <1>9, DeriverMoves
<1>11. TakeoffTypeOK'
  BY <1>1, <1>3, <1>6, <1>10 DEF TakeoffTypeOK
<1>12. ASSUME NEW s \in Deriver PROVE WorkKnown(deriving[s])'
  BY <1>3, <1>7, <1>8, <1>9, <1>10 DEF SheetInv, WorkKnown
<1>13. \A i \in Live' : lines'[i].source # "derived"
  BY <1>3, <1>4, <1>6 DEF Live, LineIds
<1>14. ASSUME ~mixed' PROVE Tidy'
  <2>1. Tidy
    BY <1>3, <1>14 DEF SheetInv
  <2>2. OneByOne'
    BY <1>3, <1>10, <2>1, OneByOneKept DEF Tidy
  <2>3. ASSUME NEW s \in Deriver PROVE AloneAt(deriving[s])'
    <3>1. CASE s = r
      BY <1>3, <1>6, <1>7, <1>8, <1>9, <1>10, <1>13, <2>1, <3>1 DEF Tidy, AloneAt
    <3>2. CASE s # r
      <4>1. deriving[s].pc = "idle"
        BY <1>3, <2>1, <3>2 DEF Tidy, OneByOne
      <4> QED BY <1>10, <3>2, <4>1 DEF AloneAt
    <3> QED BY <3>1, <3>2
  <2>4. Complete'
    BY <1>8, <1>9, <1>10 DEF Complete
  <2> QED BY <1>6, <2>1, <2>2, <2>3, <2>4 DEF Tidy
<1> QED BY <1>3, <1>6, <1>11, <1>12, <1>14 DEF SheetInv

\* The next line of the reading: its assembly was asked for and not made.
LEMMA InsertDerivedStep ==
    ASSUME SheetInv, NEW r \in Deriver, InsertDerived(r)
    PROVE  SheetInv'
<1>1. TakeoffTypeOK /\ deriving[r] \in Derivation
  BY DEF SheetInv, TakeoffTypeOK
<1>2. PICK h \in Derivation : h = deriving[r]
  BY <1>1
<1>3. PICK text : text = derivation[h.of]
  OBVIOUS
<1>4. /\ h.pc = "insert" /\ h.todo # <<>> /\ h.of \in 1..Len(derivation)
      /\ Good(text, 1, 7, h.todo)
  BY <1>2, <1>3 DEF InsertDerived, SheetInv, WorkKnown
<1>5. PICK q : q = Head(h.todo)
  OBVIOUS
<1>6. PICK rest : rest = Tail(h.todo)
  OBVIOUS
<1>7. /\ q \in Suggestion /\ Founded(text, q) /\ Good(text, 1, 7, rest)
      /\ q.assembly \notin Asked(rest) /\ Asked(h.todo) = {q.assembly} \cup Asked(rest)
  <2>1. /\ Head(h.todo) \in Suggestion /\ Founded(text, Head(h.todo))
        /\ Good(text, 1, 7, Tail(h.todo))
        /\ \A i \in 1..Len(Tail(h.todo)) : Tail(h.todo)[i].assembly # Head(h.todo).assembly
        /\ {h.todo[i].assembly : i \in 1..Len(h.todo)} =
              {Head(h.todo).assembly}
                 \cup {Tail(h.todo)[i].assembly : i \in 1..Len(Tail(h.todo))}
    BY <1>4, GoodTail
  <2> QED BY <1>5, <1>6, <2>1 DEF Asked
<1> DEFINE l == [assembly |-> q.assembly, quantity |-> q.quantity, source |-> "derived",
                 gone |-> FALSE, of |-> h.of]
           y == [h EXCEPT !.todo = rest]
<1>8. /\ lines' = Append(lines, l) /\ Len(lines) < MaxLine
      /\ deriving' = [deriving EXCEPT ![r] = y]
      /\ UNCHANGED <<sheet, derivation, mixed, halts>>
  <2>1. deriving' = [deriving EXCEPT ![r].todo = Tail(deriving[r].todo)]
    BY <1>1 DEF InsertDerived, TakeoffTypeOK
  <2>2. deriving' = [deriving EXCEPT ![r] = y]
    BY <1>1, <1>2, <1>6, <2>1 DEF TakeoffTypeOK
  <2> QED BY <1>2, <1>5, <2>2 DEF InsertDerived
<1>9. /\ l \in Line /\ l.of = h.of /\ l.source = "derived" /\ ~l.gone
      /\ l.assembly = q.assembly /\ l.quantity = q.quantity
  BY <1>7 DEF Line, Suggestion, Derivation
<1>10. /\ y \in Derivation /\ y.pc = "insert" /\ y.of = h.of /\ y.todo = rest
  BY <1>4, <1>7 DEF Derivation, Good
<1> HIDE DEF l, y
<1>11. PICK x \in Derivation : x = y
  BY <1>10
<1>12. /\ deriving' \in [Deriver -> Derivation]
       /\ \A s \in Deriver : deriving'[s] = IF s = r THEN x ELSE deriving[s]
  BY <1>1, <1>8, <1>11, DeriverMoves
<1>13. lines' \in Seq(Line) /\ Len(lines') <= MaxLine
  BY <1>1, <1>8, <1>9, Appends
<1>14. PICK n : /\ n \notin LineIds /\ LineIds' = LineIds \cup {n} /\ lines'[n] = l
                /\ \A i \in LineIds : lines'[i] = lines[i]
  BY <1>1, <1>8, <1>9, Appends
<1>15. TakeoffTypeOK'
  BY <1>1, <1>8, <1>12, <1>13 DEF TakeoffTypeOK
<1>16. ASSUME NEW i \in LineIds' PROVE LineKnown(i)'
  <2>1. CASE i = n
    <3>1. Founded(text, l)
      BY <1>7, <1>9 DEF Founded
    <3>2. h.of <= Len(derivation) /\ h.of > 0
      BY <1>4
    <3> QED BY <1>3, <1>8, <1>9, <1>14, <2>1, <3>1, <3>2 DEF LineKnown
  <2>2. CASE i \in LineIds
    BY <1>8, <1>14, <2>2 DEF SheetInv, LineKnown
  <2> QED BY <1>14, <2>1, <2>2
<1>17. sheet' # "none"
  BY <1>2, <1>4, <1>8 DEF SheetInv, WorkKnown
<1>18. ASSUME NEW s \in Deriver PROVE WorkKnown(deriving[s])'
  <2>1. CASE s = r
    BY <1>3, <1>4, <1>7, <1>8, <1>10, <1>11, <1>12, <1>17, <2>1 DEF WorkKnown
  <2>2. CASE s # r
    BY <1>8, <1>12, <2>2 DEF SheetInv, WorkKnown
  <2> QED BY <2>1, <2>2
<1>19. ASSUME ~mixed' PROVE Tidy'
  <2>1. Tidy
    BY <1>8, <1>19 DEF SheetInv
  <2>2. /\ h.of = Len(derivation)
        /\ Made(h.of) \cup Asked(h.todo) = Asked(DeriveLines(derivation[h.of]))
        /\ Made(h.of) \cap Asked(h.todo) = {}
        /\ \A i \in Live : lines[i].source = "derived" => lines[i].of = h.of
    BY <1>2, <1>4, <2>1 DEF Tidy, AloneAt
  <2>3. Made(h.of)' = Made(h.of) \cup {q.assembly}
    BY <1>9, <1>14 DEF Made
  <2>4. \A i \in Live' : lines'[i].source = "derived" => lines'[i].of = h.of
    <3>1. \A i \in Live' : i = n \/ (i \in Live /\ lines'[i] = lines[i])
      BY <1>14 DEF Live, LineIds
    <3> QED BY <1>9, <1>14, <2>2, <3>1
  <2>5. OneByOne'
    BY <1>2, <1>4, <1>12, <2>1, OneByOneKept DEF Tidy
  <2>6. ASSUME NEW s \in Deriver PROVE AloneAt(deriving[s])'
    <3>1. CASE s = r
      <4>1. Made(x.of)' \cup Asked(x.todo) = Asked(DeriveLines(derivation'[x.of]))
        BY <1>7, <1>8, <1>10, <1>11, <2>2, <2>3
      <4>2. Made(x.of)' \cap Asked(x.todo) = {}
        BY <1>7, <1>10, <1>11, <2>2, <2>3
      <4> QED BY <1>8, <1>10, <1>11, <1>12, <2>2, <2>4, <3>1, <4>1, <4>2 DEF AloneAt
    <3>2. CASE s # r
      <4>1. deriving[s].pc = "idle"
        BY <1>2, <1>4, <2>1, <3>2 DEF Tidy, OneByOne
      <4> QED BY <1>12, <3>2, <4>1 DEF AloneAt
    <3> QED BY <3>1, <3>2
  <2>7. LinesOnce'
    <3>1. \A i \in LineIds : lines[i].of = h.of => lines[i].assembly # q.assembly
      BY <1>7, <2>2 DEF Made
    <3> QED BY <1>9, <1>14, <2>1, <3>1 DEF Tidy, LinesOnce
  <2>8. LiveAlike'
    BY <2>4 DEF LiveAlike
  <2>9. Complete'
    BY <1>10, <1>11, <1>12 DEF Complete
  <2> QED BY <2>5, <2>6, <2>7, <2>8, <2>9 DEF Tidy
<1> QED BY <1>15, <1>16, <1>18, <1>19, <1>17 DEF SheetInv

--------------------------------------------------------------------------------
(* The theorems.                                                            *)

LEMMA SheetInvInit == TakeoffInit => SheetInv
<1> SUFFICES ASSUME TakeoffInit PROVE SheetInv
  OBVIOUS
<1>1. /\ sheet = "none" /\ lines = <<>> /\ derivation = <<>> /\ mixed = FALSE /\ halts = 0
      /\ \A r \in Deriver : deriving[r] = AtRest /\ deriving[r].pc = "idle"
  BY RestIsIdle DEF TakeoffInit
<1>2. TakeoffTypeOK
  <2>1. deriving \in [Deriver -> Derivation]
    BY RestIsIdle DEF TakeoffInit
  <2>2. lines \in Seq(Line) /\ Len(lines) <= MaxLine /\ derivation \in Seq(Readings)
        /\ Len(derivation) <= MaxDerivation
    BY <1>1
  <2>3. sheet \in {"none", "draft", "final"}
    BY <1>1
  <2>4. mixed \in BOOLEAN
    BY <1>1
  <2>5. halts \in 0..MaxHalt
    BY <1>1
  <2> QED BY <2>1, <2>2, <2>3, <2>4, <2>5 DEF TakeoffTypeOK
<1>3. LineIds = {} /\ Live = {}
  BY <1>1 DEF LineIds, Live
<1>4. \A r \in Deriver : WorkKnown(deriving[r]) /\ AloneAt(deriving[r])
  BY <1>1 DEF WorkKnown, AloneAt
<1>5. OneByOne /\ LinesOnce /\ LiveAlike /\ Complete
  BY <1>1, <1>3 DEF OneByOne, LinesOnce, LiveAlike, Complete
<1> QED BY <1>1, <1>2, <1>3, <1>4, <1>5 DEF SheetInv, Tidy

LEMMA SheetInvStep == SheetInv /\ [TakeoffNext]_takeoffVars => SheetInv'
<1> SUFFICES ASSUME SheetInv, [TakeoffNext]_takeoffVars PROVE SheetInv'
  OBVIOUS
<1>1. ASSUME NEW r \in Deriver, OpenSheet(r) PROVE SheetInv'
  BY <1>1, BeginStep DEF OpenSheet
<1>2. ASSUME NEW r \in Deriver, Rederive(r) PROVE SheetInv'
  BY <1>2, BeginStep DEF Rederive
<1>3. ASSUME NEW r \in Deriver,
             CreateSheet(r) \/ DeleteDerived(r) \/ InsertDerived(r) \/ DerivationEnds(r)
             \/ DeriverDies(r)
      PROVE  SheetInv'
  BY <1>3, CreateSheetStep, DeleteDerivedStep, InsertDerivedStep, EndsStep, DeriverDiesStep
<1>4. ASSUME NEW a \in Added, AddManualLine(a) PROVE SheetInv'
  BY <1>4, AddManualStep
<1>5. ASSUME NEW i \in 1..Len(lines), UpdateLine(i) \/ DeleteLine(i) PROVE SheetInv'
  BY <1>5, UpdateLineStep, DeleteLineStep DEF LineIds
<1>6. CASE SetStatus
  BY <1>6, SetStatusStep
<1>7. CASE UNCHANGED takeoffVars
  <2>1. UNCHANGED <<sheet, lines, deriving, derivation, mixed, halts>>
    BY <1>7 DEF takeoffVars
  <2>2. LinesFade(lines)
    BY DEF LinesFade, SheetInv, TakeoffTypeOK
  <2>3. PICK new : new = lines
    OBVIOUS
  <2> QED BY <2>1, <2>2, <2>3, EditKeeps
<1> QED BY <1>1, <1>2, <1>3, <1>4, <1>5, <1>6, <1>7 DEF TakeoffNext

\* The inductive invariant of the sheet: what a line and a derivation at work know of the
\* reading they come from, and, of a derivation that works alone, that what it made and
\* what it has yet to make is what its reading asks for, each assembly once.
THEOREM SheetInvariant == TakeoffSpec => []SheetInv
BY SheetInvInit, SheetInvStep, PTL DEF TakeoffSpec

\* Types; derivations that come one by one leave the lines of the last reading, each
\* once; and no figure that the text does not justify.
LEMMA SheetInvMeans == SheetInv => TakeoffTypeOK /\ OneReading /\ NothingInvented
<1> SUFFICES ASSUME SheetInv PROVE TakeoffTypeOK /\ OneReading /\ NothingInvented
  OBVIOUS
<1>1. TakeoffTypeOK /\ Live \subseteq LineIds
  BY DEF SheetInv, Live, LineIds
<1>2. ASSUME ~mixed PROVE OneReading
  <2>1. Tidy
    BY <1>2 DEF SheetInv
  <2>2. ASSUME NEW i \in Live, NEW j \in Live,
               lines[i].source = "derived" /\ lines[j].source = "derived"
        PROVE  /\ lines[i].of = lines[j].of
               /\ lines[i].assembly = lines[j].assembly => i = j
    <3>1. lines[i].of = lines[j].of /\ lines[i].of > 0 /\ i \in LineIds /\ j \in LineIds
      BY <1>1, <2>1, <2>2 DEF Tidy, LiveAlike, SheetInv, LineKnown
    <3> QED BY <2>1, <3>1 DEF Tidy, LinesOnce
  <2>3. ASSUME Deriving = {}, derivation # <<>>
        PROVE  {lines[i].assembly : i \in {k \in 1..Len(lines) : lines[k].of = Len(derivation)}}
                 = {DeriveLines(derivation[Len(derivation)])[k].assembly :
                      k \in 1..Len(DeriveLines(derivation[Len(derivation)]))}
    <3>1. \A r \in Deriver : deriving[r].pc = "idle"
      BY <2>3, RestIsIdle DEF Deriving
    <3>2. Made(Len(derivation)) = Asked(DeriveLines(derivation[Len(derivation)]))
      BY <2>1, <2>3, <3>1 DEF Tidy, Complete
    <3> QED BY <3>2 DEF Made, Asked, LineIds
  <2> QED BY <2>2, <2>3 DEF OneReading
<1>3. OneReading
  BY <1>2 DEF OneReading
<1>4. NothingInvented
  BY DEF SheetInv, LineKnown, Founded, NothingInvented, LineIds
<1> QED BY <1>1, <1>3, <1>4

\* No step takes a line from the estimator, nor away while a derivation moves.
LEMMA PenStep ==
    ASSUME SheetInv, [TakeoffNext]_takeoffVars
    PROVE  [\A i \in 1..Len(lines) :
              /\ lines[i].source = "manual" => lines'[i].source = "manual"
              /\ lines[i].source = "manual" /\ ~lines[i].gone /\ lines'[i].gone =>
                    \A r \in Deriver : deriving'[r] = deriving[r]]_takeoffVars
<1> DEFINE Pen == \A i \in LineIds :
              /\ lines[i].source = "manual" => lines'[i].source = "manual"
              /\ lines[i].source = "manual" /\ ~lines[i].gone /\ lines'[i].gone =>
                    \A r \in Deriver : deriving'[r] = deriving[r]
<1>1. TakeoffTypeOK /\ \A i \in LineIds : lines[i] \in Line
  BY DEF SheetInv, TakeoffTypeOK, LineIds
<1>2. ASSUME UNCHANGED lines PROVE Pen
  BY <1>2
<1>3. ASSUME NEW r \in Deriver,
             OpenSheet(r) \/ Rederive(r) \/ CreateSheet(r) \/ DerivationEnds(r)
             \/ DeriverDies(r)
      PROVE  Pen
  BY <1>2, <1>3 DEF OpenSheet, Rederive, Begin, CreateSheet, DerivationEnds, DeriverDies
<1>4. CASE SetStatus
  BY <1>2, <1>4 DEF SetStatus
<1>5. ASSUME NEW l, lines' = Append(lines, l) PROVE Pen
  <2>1. \A i \in LineIds : lines'[i] = lines[i]
    BY <1>1, <1>5 DEF TakeoffTypeOK, LineIds
  <2> QED BY <2>1
<1>6. ASSUME NEW a \in Added, AddManualLine(a) PROVE Pen
  BY <1>5, <1>6 DEF AddManualLine
<1>7. ASSUME NEW r \in Deriver, InsertDerived(r) PROVE Pen
  BY <1>5, <1>7 DEF InsertDerived
<1>8. ASSUME NEW r \in Deriver, DeleteDerived(r) PROVE Pen
  <2>1. ASSUME NEW i \in LineIds
        PROVE  lines'[i] = [lines[i] EXCEPT !.gone = lines[i].gone \/ Replaceable(lines[i])]
    BY <1>8 DEF DeleteDerived, LineIds
  <2>2. ASSUME NEW i \in LineIds, lines[i].source = "manual"
        PROVE  lines'[i].source = "manual" /\ (lines'[i].gone => lines[i].gone)
    <3>1. ~Replaceable(lines[i])
      BY <2>2 DEF Replaceable
    <3> QED BY <1>1, <2>1, <2>2, <3>1 DEF Line
  <2> QED BY <2>2
<1>9. ASSUME NEW i \in LineIds, UpdateLine(i) \/ DeleteLine(i) PROVE Pen
  <2>1. \A r \in Deriver : deriving'[r] = deriving[r]
    BY <1>9 DEF UpdateLine, DeleteLine
  <2>2. ASSUME NEW j \in LineIds, lines[j].source = "manual" PROVE lines'[j].source = "manual"
    <3>1. lines \in Seq(Line) /\ lines[j] \in Line
      BY <1>1 DEF TakeoffTypeOK
    <3>2. CASE j # i
      BY <1>9, <2>2, <3>1, <3>2 DEF UpdateLine, DeleteLine, LineIds
    <3>3. CASE j = i
      BY <1>9, <2>2, <3>1, <3>3 DEF UpdateLine, DeleteLine, LineIds, Line
    <3> QED BY <3>2, <3>3
  <2> QED BY <2>1, <2>2
<1>10. CASE UNCHANGED takeoffVars
  BY <1>10
<1>11. CASE Pen
  BY <1>11 DEF LineIds
<1> QED BY <1>3, <1>4, <1>6, <1>7, <1>8, <1>9, <1>10, <1>11 DEF TakeoffNext, LineIds

\* What the estimator has touched stays the estimator's, however derivations interleave;
\* those that come one by one leave the last reading's lines, once each; and no figure is
\* on a derived line that the text did not state.
THEOREM PenKept == TakeoffSpec => SheetIsTheEstimators
<1>1. SheetInv /\ [TakeoffNext]_takeoffVars =>
        [\A i \in 1..Len(lines) :
            /\ lines[i].source = "manual" => lines'[i].source = "manual"
            /\ lines[i].source = "manual" /\ ~lines[i].gone /\ lines'[i].gone =>
                  \A r \in Deriver : deriving'[r] = deriving[r]]_takeoffVars
  BY PenStep
<1> QED BY <1>1, SheetInvariant, SheetInvMeans, PTL
        DEF TakeoffSpec, SheetIsTheEstimators, EstimatorKeepsThePen

--------------------------------------------------------------------------------
(* The intake of invitations.                                               *)

USE InvitationsAssumption

Hands == [pc : Steps, message : Message \cup {Nothing}, project : Project \cup {Nothing},
          prior : Invitation \cup {Nothing}]

\* A delivery past the unique index, and one that knows its invitation.
Taking   == {"correlate", "open", "received", "change", "update", "addendum"}
Attached == {"received", "change", "update", "addendum"}

Rows == 1..Len(invitations)

HasRow(m)  == \E i \in Rows : invitations[i].of = m
Silent(m)  == \A e \in events : e.by # m

\* A change of the invitation m was kept with the date d on one of its sides.
Recorded(m, d) == \E e \in events : /\ e.on = m /\ e.type = "deadline_changed"
                                    /\ d \in {e.prior, e.revised}

\* What a delivery knows of the tables.
Hand(x) ==
    /\ x.pc = "insert" => x.message \in Message
    /\ x.pc \in Taking => x.message \in inbox
    /\ x.pc \in {"correlate", "open"} => ~HasRow(x.message)
    /\ x.pc \in {"correlate", "open", "received", "change"} => Silent(x.message)
    /\ x.pc \in Attached => x.prior \in Invitation /\ HasRow(x.prior.of)
    /\ x.pc \in {"update", "addendum"} =>
          \A e \in events : e.by = x.message => e.on = x.prior.of
    /\ x.pc = "update" =>
          \E e \in events : /\ e.on = x.prior.of /\ e.type = "deadline_changed"
                            /\ e.prior = x.prior.due /\ e.revised = Due[x.message]

\* No two deliveries are past the index with one message.
Apart ==
    \A v, w \in Worker : v # w /\ worker[v].pc \in Taking /\ worker[w].pc \in Taking =>
                            worker[v].message # worker[w].message

Stored ==
    /\ \A i \in Rows : invitations[i].of \in inbox
    /\ \A e \in events : e.by \in inbox
    /\ IngestedOnce

\* An invitation still has the date it was opened with, and so has whoever read it.
Untouched(i) ==
    /\ invitations[i].due = Due[invitations[i].of]
    /\ \A w \in Worker : worker[w].pc \in Attached /\ worker[w].prior.of = invitations[i].of =>
                            worker[w].prior.due = invitations[i].due

\* The date of a row is kept already, or everybody who may overwrite it knows it.
Dated ==
    /\ \A i \in Rows : Recorded(invitations[i].of, invitations[i].due) \/ Untouched(i)
    /\ DeadlinesKept /\ Revised

IntakeInv ==
    /\ IntakeTypeOK
    /\ \A w \in Worker : Hand(worker[w])
    /\ Apart /\ Stored /\ Dated

--------------------------------------------------------------------------------
(* Lemmas: the frame of a step.                                             *)

\* What one delivery does to the tables is news of its own message: the others know
\* what they knew.
LEMMA OthersKnow ==
    ASSUME IntakeInv, NEW w \in Worker, NEW x, worker' = [worker EXCEPT ![w] = x],
           inbox \subseteq inbox',
           \A m \in Message : HasRow(m) => HasRow(m)',
           \A m \in Message : HasRow(m)' =>
                HasRow(m) \/ (worker[w].pc \in Taking /\ m = worker[w].message),
           events \subseteq events',
           \A e \in events' : e \in events \/ (worker[w].pc \in Taking
                                               /\ e.by = worker[w].message),
           Hand(x)',
           x.pc \in Taking => \/ worker[w].pc \in Taking /\ x.message = worker[w].message
                              \/ x.message \notin inbox
    PROVE  (\A v \in Worker : Hand(worker[v]))' /\ Apart'
<1>1. worker \in [Worker -> Hands]
  BY DEF IntakeInv, IntakeTypeOK, Hands
<1>2. \A v \in Worker : worker'[v] = IF v = w THEN x ELSE worker[v]
  BY <1>1
<1>3. ASSUME NEW v \in Worker, v # w PROVE Hand(worker[v])'
  <2>1. Hand(worker[v]) /\ worker[v] \in Hands /\ worker'[v] = worker[v]
    BY <1>1, <1>2, <1>3 DEF IntakeInv
  <2>2. worker[v].pc \in Taking /\ worker[w].pc \in Taking =>
            worker[v].message # worker[w].message
    BY <1>3 DEF IntakeInv, Apart
  <2>0. PICK y \in Hands : y = worker[v]
    BY <2>1
  <2>3. inbox \subseteq Message
    BY DEF IntakeInv, IntakeTypeOK
  <2>4. y.pc \in {"correlate", "open"} => y.pc \in Taking
    BY DEF Taking
  <2>5. y.pc \in {"correlate", "open", "received", "change"} => y.pc \in Taking
    BY DEF Taking
  <2>6. y.pc \in {"update", "addendum"} => y.pc \in Taking
    BY DEF Taking
  <2>7. Hand(y) /\ (y.pc \in Taking /\ worker[w].pc \in Taking =>
            y.message # worker[w].message)
    BY <2>0, <2>1, <2>2
  <2>8. /\ y.pc = "insert" => y.message \in Message
        /\ y.pc \in Taking => y.message \in inbox'
    BY <2>7 DEF Hand
  <2>9. y.pc \in {"correlate", "open"} => ~HasRow(y.message)'
    BY <2>3, <2>4, <2>7 DEF Hand
  <2>10. y.pc \in {"correlate", "open", "received", "change"} => Silent(y.message)'
    BY <2>5, <2>7 DEF Hand, Silent
  <2>11. y.pc \in Attached => y.prior \in Invitation /\ HasRow(y.prior.of)'
    BY <2>7 DEF Hand, Invitation
  <2>12. y.pc \in {"update", "addendum"} =>
            \A e \in events' : e.by = y.message => e.on = y.prior.of
    BY <2>6, <2>7 DEF Hand
  <2>13. y.pc = "update" =>
          \E e \in events' : /\ e.on = y.prior.of /\ e.type = "deadline_changed"
                             /\ e.prior = y.prior.due /\ e.revised = Due[y.message]
    BY <2>7 DEF Hand
  <2>14. Hand(y)'
    BY <2>8, <2>9, <2>10, <2>11, <2>12, <2>13 DEF Hand
  <2> QED BY <2>0, <2>1, <2>14
<1>4. \A v \in Worker : Hand(worker[v])'
  BY <1>2, <1>3
<1>5. Apart'
  <2>1. \A v \in Worker : worker[v].pc \in Taking => worker[v].message \in inbox
    BY DEF IntakeInv, Hand
  <2> QED BY <1>2, <2>1 DEF IntakeInv, Apart
<1> QED BY <1>4, <1>5

\* The tables stand still.
LEMMA TablesStill ==
    ASSUME IntakeInv, UNCHANGED <<invitations, events, everDue>>, inbox \subseteq inbox',
           \A v \in Worker : worker'[v].pc \in Attached =>
                \/ worker'[v].prior = worker[v].prior /\ worker[v].pc \in Attached
                \/ \E i \in Rows : worker'[v].prior = invitations[i]
    PROVE  Stored' /\ Dated'
<1>1. Stored'
  BY DEF IntakeInv, Stored, Rows, IngestedOnce
<1>2. \A m, d : Recorded(m, d)' <=> Recorded(m, d)
  BY DEF Recorded
<1>3. ASSUME NEW i \in Rows, Untouched(i) PROVE Untouched(i)'
  BY <1>3 DEF IntakeInv, Stored, IngestedOnce, Untouched, Rows
<1>4. \A i \in Rows : Recorded(invitations[i].of, invitations[i].due)' \/ Untouched(i)'
  BY <1>2, <1>3 DEF IntakeInv, Dated
<1>5. DeadlinesKept' /\ Revised'
  BY DEF IntakeInv, Dated, DeadlinesKept, Revised
<1> QED BY <1>1, <1>4, <1>5 DEF Dated, Rows

--------------------------------------------------------------------------------
(* The steps.                                                               *)

LEMMA ListeningKnows == Listening \in Hands /\ Hand(Listening)' /\ Listening.pc = "idle"
BY DEF Listening, Hands, Hand, Steps, Taking, Attached

LEMMA GoTyped ==
    ASSUME IntakeTypeOK, NEW w \in Worker, NEW x \in Hands,
           worker' = [worker EXCEPT ![w] = x]
    PROVE  /\ worker' \in [Worker -> Hands]
           /\ \A v \in Worker : worker'[v] = IF v = w THEN x ELSE worker[v]
<1>1. worker \in [Worker -> Hands]
  BY DEF IntakeTypeOK, Hands
<1> QED BY <1>1

\* A step that moves one delivery to where it knows what it must, finds its prior among
\* the rows or had it, and leaves the tables but for the inbox.
LEMMA HandMoves ==
    ASSUME IntakeInv, NEW w \in Worker, NEW x \in Hands,
           worker' = [worker EXCEPT ![w] = x],
           inbox \subseteq inbox', inbox' \subseteq Message,
           UNCHANGED <<invitations, events, everDue>>,
           deliveries' \in 0..MaxDelivery, deaths' \in 0..MaxDeath,
           Hand(x)',
           x.pc \in Attached => \/ x.prior = worker[w].prior /\ worker[w].pc \in Attached
                                \/ \E i \in Rows : x.prior = invitations[i],
           x.pc \in Taking => \/ worker[w].pc \in Taking /\ x.message = worker[w].message
                              \/ x.message \notin inbox
    PROVE  IntakeInv'
<1>1. /\ worker' \in [Worker -> Hands]
      /\ \A v \in Worker : worker'[v] = IF v = w THEN x ELSE worker[v]
  BY GoTyped DEF IntakeInv
<1>2. IntakeTypeOK'
  BY <1>1 DEF IntakeInv, IntakeTypeOK, Hands
<1>3. \A m : HasRow(m)' <=> HasRow(m)
  BY DEF HasRow, Rows
<1>4. (\A v \in Worker : Hand(worker[v]))' /\ Apart'
  BY <1>3, OthersKnow
<1>5. Stored' /\ Dated'
  BY <1>1, TablesStill
<1> QED BY <1>2, <1>4, <1>5 DEF IntakeInv

LEMMA DeliverStep ==
    ASSUME IntakeInv, NEW w \in Worker, NEW m \in Message, Deliver(w, m)
    PROVE  IntakeInv'
<1> DEFINE y == IF m \in inbox THEN Listening
                ELSE [Listening EXCEPT !.pc = "insert", !.message = m]
<1>1. y \in Hands /\ y.pc \in {"idle", "insert"} /\ (y.pc = "insert" => y.message = m)
  BY ListeningKnows DEF Hands, Listening, Steps
<1>2. /\ worker' = [worker EXCEPT ![w] = y]
      /\ UNCHANGED <<inbox, invitations, events, everDue, deaths>>
      /\ deliveries < MaxDelivery /\ deliveries' = deliveries + 1
  BY DEF Deliver, Go
<1> HIDE DEF y
<1>3. PICK x \in Hands : x = y
  BY <1>1
<1>4. Hand(x)'
  BY <1>1, <1>3 DEF Hand, Taking, Attached
<1>5. x.pc \notin Taking /\ x.pc \notin Attached
  BY <1>1, <1>3 DEF Taking, Attached
<1>6. inbox' \subseteq Message /\ deaths' \in 0..MaxDeath /\ deliveries' \in 0..MaxDelivery
  BY <1>2 DEF IntakeInv, IntakeTypeOK
<1> QED BY <1>2, <1>3, <1>4, <1>5, <1>6, HandMoves

LEMMA DiesStep ==
    ASSUME IntakeInv, NEW w \in Worker, DeliveryDies(w)
    PROVE  IntakeInv'
<1>1. /\ worker' = [worker EXCEPT ![w] = Listening]
      /\ UNCHANGED <<inbox, invitations, events, everDue, deliveries>>
      /\ deaths < MaxDeath /\ deaths' = deaths + 1
  BY DEF DeliveryDies, Go
<1>2. Listening.pc \notin Taking /\ Listening.pc \notin Attached
  BY ListeningKnows DEF Taking, Attached
<1>3. inbox' \subseteq Message /\ deaths' \in 0..MaxDeath /\ deliveries' \in 0..MaxDelivery
  BY <1>1 DEF IntakeInv, IntakeTypeOK
<1> QED BY <1>1, <1>2, <1>3, ListeningKnows, HandMoves

\* The index lets one delivery of a message through: nothing of it is stored yet.
LEMMA InsertMessageStep ==
    ASSUME IntakeInv, NEW w \in Worker, InsertMessage(w)
    PROVE  IntakeInv'
<1> DEFINE h == worker[w]
<1>1. h \in Hands /\ h.message \in Message /\ Hand(h) /\ h.pc = "insert"
  BY DEF IntakeInv, IntakeTypeOK, Hands, Hand, InsertMessage
<1>2. PICK p \in Match[h.message] :
          worker' = [worker EXCEPT ![w] = IF Taken(h.message) THEN Listening
                                 ELSE [h EXCEPT !.pc = "correlate", !.project = p]]
  BY DEF InsertMessage, Go
<1>3. p \in Project \cup {Nothing}
  BY <1>1, <1>2
<1> DEFINE y == IF Taken(h.message) THEN Listening
                ELSE [h EXCEPT !.pc = "correlate", !.project = p]
<1>4. /\ y \in Hands /\ y.pc \in {"idle", "correlate"}
      /\ y.pc = "correlate" => y.message = h.message /\ h.message \notin inbox
  BY <1>1, <1>3, ListeningKnows DEF Hands, Steps, Taken
<1>5. /\ inbox' = inbox \cup {h.message}
      /\ UNCHANGED <<invitations, events, everDue, deliveries, deaths>>
  BY DEF InsertMessage
<1> HIDE DEF y
<1>6. PICK x \in Hands : x = y
  BY <1>4
<1>7. /\ x.pc \in {"idle", "correlate"}
      /\ x.pc = "correlate" => x.message \notin inbox /\ x.message \in inbox'
  BY <1>4, <1>5, <1>6
<1>8. x.pc = "correlate" => ~HasRow(x.message)' /\ Silent(x.message)'
  BY <1>5, <1>7 DEF IntakeInv, Stored, HasRow, Silent, Rows
<1>9. Hand(x)'
  BY <1>7, <1>8 DEF Hand, Taking, Attached
<1>10. worker' = [worker EXCEPT ![w] = x]
  BY <1>2, <1>6 DEF y
<1>11. x.pc \notin Attached /\ (x.pc \in Taking => x.message \notin inbox)
  BY <1>7 DEF Attached, Taking
<1>12. /\ inbox \subseteq inbox' /\ inbox' \subseteq Message
       /\ deaths' \in 0..MaxDeath /\ deliveries' \in 0..MaxDelivery
  BY <1>1, <1>5 DEF IntakeInv, IntakeTypeOK
<1> QED BY <1>5, <1>9, <1>10, <1>11, <1>12, HandMoves

LEMMA LeastOf ==
    ASSUME NEW T \in SUBSET Nat, T # {}
    PROVE  \E x \in T : \A y \in T : ~(y < x)
<1>1. IsWellFoundedOn(OpToRel(<, Nat), Nat)
  BY NatLessThanWellFounded
<1>2. PICK x \in T : \A y \in T : ~(<<y, x>> \in OpToRel(<, Nat))
  BY <1>1, WFMin
<1>3. ASSUME NEW y \in T PROVE ~(y < x)
  BY <1>2 DEF OpToRel
<1> QED BY <1>3

LEMMA LastOf ==
    ASSUME NEW n \in Nat, NEW S \in SUBSET (1..n), S # {}
    PROVE  \E i \in S : \A j \in S : j <= i
<1> DEFINE T == {n - i : i \in S}
<1>1. T \subseteq Nat /\ T # {}
  <2>1. ASSUME NEW i \in S PROVE n - i \in Nat
    <3>1. i \in 1..n
      OBVIOUS
    <3> QED BY <3>1
  <2>2. T # {}
    <3>1. PICK i \in S : TRUE
      OBVIOUS
    <3> QED BY <3>1
  <2>3. T \subseteq Nat
    BY <2>1
  <2> HIDE DEF T
  <2> QED BY <2>2, <2>3
<1>2. PICK U : U = T
  OBVIOUS
<1>3. PICK x \in T : \A y \in T : ~(y < x)
  BY <1>1, <1>2, LeastOf
<1>4. PICK i \in S : x = n - i
  OBVIOUS
<1>5. ASSUME NEW j \in S PROVE j <= i
  <2>1. ~(n - j < n - i)
    BY <1>3, <1>4
  <2>2. i \in 1..n /\ j \in 1..n
    OBVIOUS
  <2> QED BY <2>1, <2>2
<1> QED BY <1>5

LEMMA LatestIsRow ==
    ASSUME IntakeTypeOK, NEW p
    PROVE  Latest(p) = Nothing \/ \E i \in Rows : Latest(p) = invitations[i]
<1> DEFINE at == {i \in Rows : invitations[i].project = p}
<1>1. CASE p = Nothing \/ at = {}
  BY <1>1 DEF Latest, Rows
<1>2. CASE p # Nothing /\ at # {}
  <2>1. \E i \in at : \A j \in at : j <= i
    <3>1. Len(invitations) \in Nat /\ at \in SUBSET (1..Len(invitations)) /\ at # {}
      BY <1>2 DEF IntakeTypeOK, Rows
    <3> HIDE DEF at
    <3> QED BY <3>1, LastOf
  <2>2. (CHOOSE i \in at : \A j \in at : j <= i) \in Rows
    BY <2>1
  <2> QED BY <1>2, <2>2 DEF Latest, Rows
<1> QED BY <1>1, <1>2

LEMMA CorrelateStep ==
    ASSUME IntakeInv, NEW w \in Worker, Correlate(w)
    PROVE  IntakeInv'
<1> DEFINE h == worker[w]
<1>1. h \in Hands /\ Hand(h) /\ h.pc = "correlate"
  BY DEF IntakeInv, IntakeTypeOK, Hands, Correlate
<1>2. PICK prior : prior = Latest(h.project)
  OBVIOUS
<1>3. prior = Nothing \/ \E i \in Rows : prior = invitations[i]
  BY <1>2, LatestIsRow DEF IntakeInv
<1> DEFINE due == Due[h.message]
           to == IF prior = Nothing THEN "open"
                 ELSE IF due # Nothing /\ prior.due # due THEN "change" ELSE "addendum"
           y == [h EXCEPT !.prior = prior, !.pc = to]
<1>4. /\ worker' = [worker EXCEPT ![w] = y]
      /\ UNCHANGED <<inbox, invitations, events, everDue, deliveries, deaths>>
  BY <1>2 DEF Correlate, Go
<1>5. to \in {"open", "change", "addendum"} /\ (to # "open" => prior # Nothing)
  OBVIOUS
<1> HIDE DEF to
<1>6. prior \in Invitation \cup {Nothing}
  BY <1>3 DEF IntakeInv, IntakeTypeOK, Rows
<1>7. y \in Hands /\ y.pc = to /\ y.prior = prior /\ y.message = h.message
  BY <1>1, <1>5, <1>6 DEF Hands, Steps
<1> HIDE DEF y
<1>8. PICK x \in Hands : x = y
  BY <1>7
<1>9. h.message \in inbox /\ ~HasRow(h.message) /\ Silent(h.message)
  BY <1>1 DEF Hand, Taking
<1>10. x.pc \in Attached => \E i \in Rows : x.prior = invitations[i]
  BY <1>3, <1>5, <1>7, <1>8 DEF Attached
<1>11. Hand(x)'
  <2>1. x.message \in inbox'
    BY <1>4, <1>7, <1>8, <1>9
  <2>2. ~HasRow(x.message)' /\ Silent(x.message)'
    <3>1. x.message = h.message
      BY <1>7, <1>8
    <3>2. ~HasRow(x.message) /\ Silent(x.message)
      BY <1>9, <3>1
    <3> QED BY <1>4, <3>2 DEF HasRow, Silent, Rows
  <2>3. x.pc \in Attached => x.prior \in Invitation /\ HasRow(x.prior.of)'
    <3>1. \A i \in Rows : invitations[i] \in Invitation
      BY DEF IntakeInv, IntakeTypeOK, Rows
    <3> QED BY <1>4, <1>10, <3>1 DEF HasRow, Rows
  <2> QED BY <1>5, <1>7, <1>8, <2>1, <2>2, <2>3 DEF Hand, Silent
<1>12. worker' = [worker EXCEPT ![w] = x]
  BY <1>4, <1>8
<1>13. h.pc \in Taking /\ x.message = h.message
  BY <1>1, <1>7, <1>8 DEF Taking
<1>14. inbox' \subseteq Message /\ deaths' \in 0..MaxDeath /\ deliveries' \in 0..MaxDelivery
  BY <1>4 DEF IntakeInv, IntakeTypeOK
<1> QED BY <1>4, <1>10, <1>11, <1>12, <1>13, <1>14, HandMoves

\* An event of the delivery's message on its invitation, as every other of that message.
LEMMA EventKept ==
    ASSUME IntakeInv, NEW w \in Worker, NEW x \in Hands, NEW e \in Event,
           worker[w].pc \in Attached,
           e.by = worker[w].message, e.on = worker[w].prior.of,
           \A a \in events : a.by = worker[w].message => a.on = worker[w].prior.of,
           worker' = [worker EXCEPT ![w] = x], events' = events \cup {e},
           UNCHANGED <<inbox, invitations, everDue, deliveries, deaths>>,
           Hand(x)',
           x.pc \in Attached => x.prior = worker[w].prior,
           x.pc \in Taking => x.message = worker[w].message
    PROVE  IntakeInv'
<1>0. worker[w].pc \in Taking
  BY DEF Attached, Taking
<1>1. /\ worker' \in [Worker -> Hands]
      /\ \A v \in Worker : worker'[v] = IF v = w THEN x ELSE worker[v]
  BY GoTyped DEF IntakeInv
<1>2. IntakeTypeOK'
  BY <1>1 DEF IntakeInv, IntakeTypeOK, Hands
<1>3. \A m : HasRow(m)' <=> HasRow(m)
  BY DEF HasRow, Rows
<1>4. (\A v \in Worker : Hand(worker[v]))' /\ Apart'
  BY <1>0, <1>3, OthersKnow
<1>5. Stored'
  <2>1. worker[w].message \in inbox
    BY <1>0 DEF IntakeInv, Hand
  <2>2. \A a \in events' : a.by \in inbox'
    BY <2>1 DEF IntakeInv, Stored
  <2>3. \A a, b \in events' : a.by = b.by => a.on = b.on
    BY DEF IntakeInv, Stored, IngestedOnce
  <2>4. /\ \A i \in Rows : invitations[i].of \in inbox
        /\ \A i, j \in Rows : invitations[i].of = invitations[j].of => i = j
    BY DEF IntakeInv, Stored, IngestedOnce, Rows
  <2> QED BY <2>2, <2>3, <2>4 DEF Stored, IngestedOnce, Rows
<1>6. \A m, d : Recorded(m, d) => Recorded(m, d)'
  BY DEF Recorded
<1>7. ASSUME NEW i \in Rows, Untouched(i) PROVE Untouched(i)'
  BY <1>1, <1>7 DEF Untouched
<1>8. \A i \in Rows : Recorded(invitations[i].of, invitations[i].due)' \/ Untouched(i)'
  BY <1>6, <1>7 DEF IntakeInv, Dated
<1>9. DeadlinesKept' /\ Revised'
  BY DEF IntakeInv, Dated, DeadlinesKept, Revised
<1> QED BY <1>2, <1>4, <1>5, <1>8, <1>9 DEF IntakeInv, Dated, Rows

LEMMA LogReceivedStep ==
    ASSUME IntakeInv, NEW w \in Worker, LogReceived(w)
    PROVE  IntakeInv'
<1>1. PICK h \in Hands : h = worker[w]
  BY DEF IntakeInv, IntakeTypeOK, Hands
<1>2. Hand(h) /\ h.pc = "received"
  BY <1>1 DEF IntakeInv, LogReceived
<1>3. h.pc \in Attached /\ h.message \in inbox /\ Silent(h.message) /\ h.prior \in Invitation
  BY <1>2 DEF Hand, Attached, Taking
<1> DEFINE e == [on |-> h.prior.of, by |-> h.message, type |-> "invitation_received",
                 prior |-> Nothing, revised |-> Nothing]
           y == [h EXCEPT !.pc = "addendum"]
<1>4. /\ events' = events \cup {e} /\ worker' = [worker EXCEPT ![w] = y]
      /\ UNCHANGED <<inbox, invitations, everDue, deliveries, deaths>>
  BY <1>1 DEF LogReceived, Log, Go
<1>5. e \in Event /\ e.by = h.message /\ e.on = h.prior.of
  BY <1>3 DEF Event, Invitation, IntakeInv, IntakeTypeOK
<1>6. y \in Hands /\ y.pc = "addendum" /\ y.prior = h.prior /\ y.message = h.message
  BY DEF Hands, Steps
<1> HIDE DEF e, y
<1>7. PICK x \in Hands : x = y
  BY <1>6
<1>8. Hand(x)'
  <2>1. HasRow(h.prior.of)'
    BY <1>2, <1>3, <1>4 DEF Hand, HasRow, Rows
  <2>2. \A a \in events' : a.by = h.message => a.on = h.prior.of
    BY <1>3, <1>4, <1>5 DEF Silent
  <2> QED BY <1>3, <1>4, <1>6, <1>7, <2>1, <2>2 DEF Hand
<1> QED BY <1>1, <1>3, <1>4, <1>5, <1>6, <1>7, <1>8, EventKept DEF Silent

LEMMA LogChangeStep ==
    ASSUME IntakeInv, NEW w \in Worker, LogChange(w)
    PROVE  IntakeInv'
<1>1. PICK h \in Hands : h = worker[w]
  BY DEF IntakeInv, IntakeTypeOK, Hands
<1>2. Hand(h) /\ h.pc = "change"
  BY <1>1 DEF IntakeInv, LogChange
<1>3. h.pc \in Attached /\ h.message \in inbox /\ Silent(h.message) /\ h.prior \in Invitation
  BY <1>2 DEF Hand, Attached, Taking
<1> DEFINE e == [on |-> h.prior.of, by |-> h.message, type |-> "deadline_changed",
                 prior |-> h.prior.due, revised |-> Due[h.message]]
           y == [h EXCEPT !.pc = "update"]
<1>4. /\ events' = events \cup {e} /\ worker' = [worker EXCEPT ![w] = y]
      /\ UNCHANGED <<inbox, invitations, everDue, deliveries, deaths>>
  BY <1>1 DEF LogChange, Log, Go
<1>5. /\ e \in Event /\ e.by = h.message /\ e.on = h.prior.of
      /\ e.type = "deadline_changed" /\ e.prior = h.prior.due /\ e.revised = Due[h.message]
  BY <1>3 DEF Event, Invitation, IntakeInv, IntakeTypeOK
<1>6. y \in Hands /\ y.pc = "update" /\ y.prior = h.prior /\ y.message = h.message
  BY DEF Hands, Steps
<1> HIDE DEF e, y
<1>7. PICK x \in Hands : x = y
  BY <1>6
<1>8. Hand(x)'
  <2>1. HasRow(h.prior.of)'
    BY <1>2, <1>3, <1>4 DEF Hand, HasRow, Rows
  <2>2. \A a \in events' : a.by = h.message => a.on = h.prior.of
    BY <1>3, <1>4, <1>5 DEF Silent
  <2>3. e \in events'
    BY <1>4
  <2> QED BY <1>3, <1>4, <1>5, <1>6, <1>7, <2>1, <2>2, <2>3 DEF Hand
<1> QED BY <1>1, <1>3, <1>4, <1>5, <1>6, <1>7, <1>8, EventKept DEF Silent

LEMMA LogAddendumStep ==
    ASSUME IntakeInv, NEW w \in Worker, LogAddendum(w)
    PROVE  IntakeInv'
<1>1. PICK h \in Hands : h = worker[w]
  BY DEF IntakeInv, IntakeTypeOK, Hands
<1>2. Hand(h) /\ h.pc = "addendum"
  BY <1>1 DEF IntakeInv, LogAddendum
<1>3. /\ h.pc \in Attached /\ h.message \in inbox /\ h.prior \in Invitation
      /\ \A a \in events : a.by = h.message => a.on = h.prior.of
  BY <1>2 DEF Hand, Attached, Taking
<1>4. /\ worker' = [worker EXCEPT ![w] = Listening]
      /\ UNCHANGED <<inbox, invitations, everDue, deliveries, deaths>>
  BY DEF LogAddendum, Go
<1>5. Listening.pc \notin Taking /\ Listening.pc \notin Attached
  BY ListeningKnows DEF Taking, Attached
<1>6. CASE UNCHANGED events
  <2>1. inbox' \subseteq Message /\ deaths' \in 0..MaxDeath /\ deliveries' \in 0..MaxDelivery
    BY <1>4 DEF IntakeInv, IntakeTypeOK
  <2> QED BY <1>4, <1>5, <1>6, <2>1, ListeningKnows, HandMoves
<1>7. CASE Log(w, "addendum", Nothing, Nothing)
  <2> DEFINE e == [on |-> h.prior.of, by |-> h.message, type |-> "addendum",
                   prior |-> Nothing, revised |-> Nothing]
  <2>1. events' = events \cup {e}
    BY <1>1, <1>7 DEF Log
  <2>2. e \in Event /\ e.by = h.message /\ e.on = h.prior.of
    BY <1>3 DEF Event, Invitation, IntakeInv, IntakeTypeOK
  <2> HIDE DEF e
  <2> QED BY <1>1, <1>3, <1>4, <1>5, <2>1, <2>2, ListeningKnows, EventKept
<1> QED BY <1>6, <1>7 DEF LogAddendum

\* A message that no invitation has opens one.
LEMMA OpenStep ==
    ASSUME IntakeInv, NEW w \in Worker, OpenInvitation(w)
    PROVE  IntakeInv'
<1>1. PICK h \in Hands : h = worker[w]
  BY DEF IntakeInv, IntakeTypeOK, Hands
<1>2. Hand(h) /\ h.pc = "open"
  BY <1>1 DEF IntakeInv, OpenInvitation
<1> DEFINE m == h.message
           entry == [of |-> m, project |-> h.project, due |-> Due[m]]
           y == [h EXCEPT !.pc = "received", !.prior = entry]
<1>3. h.pc \in Taking /\ m \in inbox /\ m \in Message /\ ~HasRow(m) /\ Silent(m)
  BY <1>2 DEF Hand, Taking, IntakeInv, IntakeTypeOK
<1>4. /\ invitations' = Append(invitations, entry) /\ everDue' = everDue \cup {<<m, Due[m]>>}
      /\ worker' = [worker EXCEPT ![w] = y]
      /\ UNCHANGED <<inbox, events, deliveries, deaths>>
  BY <1>1 DEF OpenInvitation, Go
<1>5. entry \in Invitation /\ entry.of = m /\ entry.due = Due[m]
  BY <1>3 DEF Invitation, Hands
<1> HIDE DEF entry
<1>6. y \in Hands /\ y.pc = "received" /\ y.prior = entry /\ y.message = m
  BY <1>5 DEF Hands, Steps
<1> HIDE DEF y
<1>7. PICK x \in Hands : x = y
  BY <1>6
<1>8. invitations \in Seq(Invitation)
  BY DEF IntakeInv, IntakeTypeOK
<1>0. PICK n : n = Len(invitations)
  OBVIOUS
<1>9. /\ invitations' \in Seq(Invitation) /\ Len(invitations') = n + 1 /\ n \in Nat
      /\ invitations'[n + 1] = entry /\ \A i \in Rows : invitations'[i] = invitations[i]
  BY <1>0, <1>4, <1>5, <1>8 DEF Rows
<1>10. /\ worker' \in [Worker -> Hands]
       /\ \A v \in Worker : worker'[v] = IF v = w THEN x ELSE worker[v]
  BY <1>4, <1>7, GoTyped DEF IntakeInv
<1>11. IntakeTypeOK'
  <2>1. everDue' \subseteq Message \X (Date \cup {Nothing})
    BY <1>3, <1>4 DEF IntakeInv, IntakeTypeOK
  <2> QED BY <1>4, <1>9, <1>10, <2>1 DEF IntakeInv, IntakeTypeOK, Hands
<1>12. Rows' = Rows \cup {n + 1} /\ n + 1 \notin Rows
  BY <1>0, <1>9 DEF Rows
<1>13. \A k : HasRow(k)' <=> HasRow(k) \/ k = m
  BY <1>5, <1>9, <1>12 DEF HasRow
<1>14. (\A v \in Worker : Hand(worker[v]))' /\ Apart'
  <2>1. Hand(x)'
    BY <1>3, <1>4, <1>5, <1>6, <1>7, <1>13 DEF Hand, Silent
  <2> QED BY <1>1, <1>3, <1>4, <1>6, <1>7, <1>13, <2>1, OthersKnow
<1>15. Stored'
  <2>1. \A i, j \in Rows' : invitations'[i].of = invitations'[j].of => i = j
    BY <1>3, <1>5, <1>9, <1>12 DEF IntakeInv, Stored, IngestedOnce, Rows, HasRow
  <2>2. \A i \in Rows' : invitations'[i].of \in inbox'
    BY <1>3, <1>4, <1>5, <1>9, <1>12 DEF IntakeInv, Stored
  <2> QED BY <1>4, <2>1, <2>2 DEF IntakeInv, Stored, IngestedOnce, Rows
<1>16. \A k, d : Recorded(k, d)' <=> Recorded(k, d)
  BY <1>4 DEF Recorded
<1>17. ASSUME NEW i \in Rows, Untouched(i) PROVE Untouched(i)'
  <2>1. invitations[i].of # m
    BY <1>3 DEF HasRow
  <2> QED BY <1>5, <1>6, <1>7, <1>9, <1>10, <1>17, <2>1 DEF Untouched
<1>18. (invitations[n + 1].due = Due[invitations[n + 1].of])' /\ Untouched(n + 1)'
  <2>1. \A v \in Worker : worker[v].pc \in Attached => HasRow(worker[v].prior.of)
    BY DEF IntakeInv, Hand
  <2> QED BY <1>3, <1>5, <1>6, <1>7, <1>9, <1>10, <2>1 DEF Untouched
<1>19. \A i \in Rows' : Recorded(invitations[i].of, invitations[i].due)' \/ Untouched(i)'
  BY <1>9, <1>12, <1>16, <1>17, <1>18 DEF IntakeInv, Dated
<1>20. DeadlinesKept'
  <2>1. ASSUME NEW d \in everDue
        PROVE  \/ \E i \in Rows' : invitations'[i].of = d[1] /\ invitations'[i].due = d[2]
               \/ Recorded(d[1], d[2])'
    <3>1. \/ \E i \in Rows : invitations[i].of = d[1] /\ invitations[i].due = d[2]
          \/ Recorded(d[1], d[2])
      BY DEF IntakeInv, Dated, DeadlinesKept, Recorded, Rows
    <3>2. CASE Recorded(d[1], d[2])
      BY <1>16, <3>2
    <3>3. ASSUME NEW i \in Rows, invitations[i].of = d[1] /\ invitations[i].due = d[2]
          PROVE  \E j \in Rows' : invitations'[j].of = d[1] /\ invitations'[j].due = d[2]
      BY <1>9, <1>12, <3>3
    <3> QED BY <3>1, <3>2, <3>3
  <2>2. \E i \in Rows' : invitations'[i].of = m /\ invitations'[i].due = Due[m]
    BY <1>5, <1>9, <1>12
  <2>3. \A d \in everDue' : d \in everDue \/ (d[1] = m /\ d[2] = Due[m])
    BY <1>4
  <2> QED BY <2>1, <2>2, <2>3 DEF DeadlinesKept, Recorded, Rows
<1>21. Revised'
  BY <1>4, <1>9, <1>12, <1>18 DEF IntakeInv, Dated, Revised, Rows
<1> QED BY <1>11, <1>14, <1>15, <1>19, <1>20, <1>21 DEF IntakeInv, Dated

\* An update takes the row to the end and leaves the others in their order.
LEMMA TouchedRows ==
    ASSUME invitations \in Seq(Invitation), NEW i \in Rows, NEW entry \in Invitation,
           entry.of = invitations[i].of,
           \A a, b \in Rows : invitations[a].of = invitations[b].of => a = b,
           NEW t, t = Touched(i, entry)
    PROVE  /\ t \in Seq(Invitation) /\ Len(t) = Len(invitations)
           /\ \E j \in Rows : t[j] = entry
           /\ \A j \in Rows : t[j] = entry \/ \E k \in Rows \ {i} : t[j] = invitations[k]
           /\ \A k \in Rows \ {i} : \E j \in Rows : t[j] = invitations[k]
           /\ \A a, b \in Rows : t[a].of = t[b].of => a = b
<1> DEFINE n == Len(invitations)
           from(j) == IF j < i THEN j ELSE j + 1
<1>1. n \in Nat /\ i \in 1..n /\ Rows = 1..n
  BY DEF Rows
<1>2. t = [j \in 1..n |-> IF j = n THEN entry ELSE invitations[from(j)]]
  BY DEF Touched
<1>3. \A j \in 1..n : j # n => from(j) \in Rows \ {i}
  BY <1>1
<1>4. \A j \in 1..n : t[j] = IF j = n THEN entry ELSE invitations[from(j)]
  BY <1>2
<1>5. \A j \in 1..n : t[j] \in Invitation
  BY <1>3, <1>4, <1>1
<1>6. t \in Seq(Invitation) /\ Len(t) = n
  <2>1. t \in [1..n -> Invitation]
    BY <1>2, <1>5
  <2> QED BY <1>1, <2>1
<1>7. t[n] = entry /\ n \in Rows
  BY <1>1, <1>4
<1>8. \A k \in Rows \ {i} : \E j \in Rows : t[j] = invitations[k]
  <2>1. ASSUME NEW k \in Rows, k < i PROVE t[k] = invitations[k]
    BY <1>1, <1>4, <2>1
  <2>2. ASSUME NEW k \in Rows, k > i PROVE k - 1 \in Rows /\ t[k - 1] = invitations[k]
    BY <1>1, <1>4, <2>2
  <2> QED BY <1>1, <2>1, <2>2
<1>9. \A j \in Rows : t[j] = entry \/ \E k \in Rows \ {i} : t[j] = invitations[k]
  BY <1>1, <1>3, <1>4
<1>10. ASSUME NEW a \in Rows, NEW b \in Rows, t[a].of = t[b].of PROVE a = b
  <2>1. CASE a = n \/ b = n
    BY <1>1, <1>3, <1>4, <1>10, <2>1
  <2>2. CASE a # n /\ b # n
    <3>1. invitations[from(a)].of = invitations[from(b)].of
      BY <1>1, <1>4, <1>10, <2>2
    <3>2. from(a) \in Rows /\ from(b) \in Rows
      BY <1>1, <1>3, <2>2
    <3>3. from(a) = from(b)
      BY <3>1, <3>2
    <3> QED BY <1>1, <3>3
  <2> QED BY <2>1, <2>2
<1> QED BY <1>1, <1>6, <1>7, <1>8, <1>9, <1>10

\* The date that is overwritten was kept by the event of the change, or by an earlier
\* one; the new one is in that event.
LEMMA ReviseStep ==
    ASSUME IntakeInv, NEW w \in Worker, Revise(w)
    PROVE  IntakeInv'
<1>1. PICK h \in Hands : h = worker[w]
  BY DEF IntakeInv, IntakeTypeOK, Hands
<1>2. Hand(h) /\ h.pc = "update"
  BY <1>1 DEF IntakeInv, Revise
<1> DEFINE m == h.message
           k == h.prior.of
<1>3. /\ h.pc \in Taking /\ h.pc \in Attached /\ m \in inbox /\ m \in Message
      /\ h.prior \in Invitation /\ HasRow(k)
      /\ \A e \in events : e.by = m => e.on = k
  BY <1>2 DEF Hand, Taking, Attached, IntakeInv, IntakeTypeOK
<1>4. PICK change \in events : /\ change.on = k /\ change.type = "deadline_changed"
                               /\ change.prior = h.prior.due /\ change.revised = Due[m]
  BY <1>2 DEF Hand
<1>5. PICK i : i = CHOOSE j \in 1..Len(invitations) : invitations[j].of = worker[w].prior.of
  OBVIOUS
<1>6. i \in Rows /\ invitations[i].of = k
  BY <1>1, <1>3, <1>5 DEF HasRow, Rows
<1>7. PICK old : old = invitations[i]
  OBVIOUS
<1> DEFINE new == [old EXCEPT !.due = Due[m]]
           y == [h EXCEPT !.pc = "addendum"]
<1>8. /\ invitations' = Touched(i, new) /\ everDue' = everDue \cup {<<new.of, new.due>>}
      /\ worker' = [worker EXCEPT ![w] = y]
      /\ UNCHANGED <<inbox, events, deliveries, deaths>>
  BY <1>1, <1>5, <1>7 DEF Revise, Go
<1>9. invitations \in Seq(Invitation) /\ old \in Invitation
  BY <1>6, <1>7 DEF IntakeInv, IntakeTypeOK, Rows
<1>10. new \in Invitation /\ new.of = k /\ new.due = Due[m]
  BY <1>3, <1>6, <1>7, <1>9 DEF Invitation
<1>11. PICK entry \in Invitation : entry = new
  BY <1>10
<1> HIDE DEF new
<1>12. y \in Hands /\ y.pc = "addendum" /\ y.prior = h.prior /\ y.message = m
  BY DEF Hands, Steps
<1> HIDE DEF y
<1>13. PICK x \in Hands : x = y
  BY <1>12
<1>14. PICK t : t = Touched(i, entry)
  OBVIOUS
<1>15. \A a, b \in Rows : invitations[a].of = invitations[b].of => a = b
  BY DEF IntakeInv, Stored, IngestedOnce, Rows
<1>16. /\ t \in Seq(Invitation) /\ Len(t) = Len(invitations)
       /\ \E j \in Rows : t[j] = entry
       /\ \A j \in Rows : t[j] = entry \/ \E l \in Rows \ {i} : t[j] = invitations[l]
       /\ \A l \in Rows \ {i} : \E j \in Rows : t[j] = invitations[l]
       /\ \A a, b \in Rows : t[a].of = t[b].of => a = b
  <2>1. entry.of = invitations[i].of
    BY <1>6, <1>10, <1>11
  <2>2. i \in Rows /\ invitations \in Seq(Invitation)
    BY <1>6, <1>9
  <2> QED BY <1>14, <1>15, <2>1, <2>2, TouchedRows, SMTT(60)
<1>17. invitations' = t /\ Rows' = Rows
  BY <1>8, <1>11, <1>14, <1>16 DEF Rows
<1>18. /\ worker' \in [Worker -> Hands]
       /\ \A v \in Worker : worker'[v] = IF v = w THEN x ELSE worker[v]
  BY <1>8, <1>13, GoTyped DEF IntakeInv
<1>19. IntakeTypeOK'
  <2>1. everDue' \subseteq Message \X (Date \cup {Nothing})
    <3>1. k \in Message /\ Due[m] \in Date \cup {Nothing}
      BY <1>3 DEF Invitation
    <3> QED BY <1>8, <1>10, <3>1 DEF IntakeInv, IntakeTypeOK
  <2> QED BY <1>8, <1>16, <1>17, <1>18, <2>1 DEF IntakeInv, IntakeTypeOK, Hands
<1>20. entry.of = k /\ entry.due = Due[m]
  BY <1>10, <1>11
<1>21. \A l : HasRow(l)' <=> HasRow(l)
  BY <1>6, <1>16, <1>17, <1>20 DEF HasRow
<1>22. (\A v \in Worker : Hand(worker[v]))' /\ Apart'
  <2>1. Hand(x)'
    BY <1>3, <1>8, <1>12, <1>13, <1>21 DEF Hand
  <2> QED BY <1>1, <1>3, <1>8, <1>12, <1>13, <1>21, <2>1, OthersKnow
<1>23. Stored'
  <2>1. \A j \in Rows : t[j].of \in inbox
    BY <1>3, <1>6, <1>16, <1>20 DEF IntakeInv, Stored
  <2> QED BY <1>8, <1>16, <1>17, <2>1 DEF IntakeInv, Stored, IngestedOnce, Rows
<1>24. \A l, d : Recorded(l, d)' <=> Recorded(l, d)
  BY <1>8 DEF Recorded
<1>25. Recorded(k, entry.due) /\ Recorded(k, old.due)
  <2>1. Recorded(k, entry.due)
    BY <1>4, <1>20 DEF Recorded
  <2>2. Recorded(old.of, old.due) \/ Untouched(i)
    BY <1>6, <1>7 DEF IntakeInv, Dated
  <2>3. CASE Untouched(i)
    <3>1. h.prior.due = old.due
      BY <1>1, <1>3, <1>6, <1>7, <2>3 DEF Untouched
    <3> QED BY <1>4, <2>1, <3>1 DEF Recorded
  <2> QED BY <1>6, <1>7, <2>1, <2>2, <2>3
<1>26. ASSUME NEW j \in Rows
       PROVE  Recorded(t[j].of, t[j].due)' \/ Untouched(j)'
  <2>1. CASE t[j] = entry
    BY <1>20, <1>24, <1>25, <2>1
  <2>2. ASSUME NEW l \in Rows \ {i}, t[j] = invitations[l]
        PROVE  Recorded(t[j].of, t[j].due)' \/ Untouched(j)'
    <3>1. Recorded(invitations[l].of, invitations[l].due) \/ Untouched(l)
      BY DEF IntakeInv, Dated
    <3>2. CASE Untouched(l)
      <4>1. \A v \in Worker : worker'[v].pc \in Attached =>
               worker[v].pc \in Attached /\ worker'[v].prior = worker[v].prior
        BY <1>1, <1>3, <1>12, <1>13, <1>18
      <4> QED BY <1>17, <2>2, <3>2, <4>1 DEF Untouched
    <3> QED BY <1>24, <2>2, <3>1, <3>2
  <2> QED BY <1>16, <2>1, <2>2
<1>27. DeadlinesKept'
  <2>1. ASSUME NEW d \in everDue
        PROVE  \/ \E j \in Rows : t[j].of = d[1] /\ t[j].due = d[2]
               \/ Recorded(d[1], d[2])
    <3>1. \/ \E l \in Rows : invitations[l].of = d[1] /\ invitations[l].due = d[2]
          \/ Recorded(d[1], d[2])
      BY DEF IntakeInv, Dated, DeadlinesKept, Recorded, Rows
    <3>2. ASSUME NEW l \in Rows, invitations[l].of = d[1] /\ invitations[l].due = d[2]
          PROVE  \/ \E j \in Rows : t[j].of = d[1] /\ t[j].due = d[2]
                 \/ Recorded(d[1], d[2])
      <4>1. CASE l = i
        BY <1>6, <1>7, <1>25, <3>2, <4>1
      <4>2. CASE l # i
        BY <1>16, <3>2, <4>2
      <4> QED BY <4>1, <4>2
    <3> QED BY <3>1, <3>2
  <2>2. \A d \in everDue' : d \in everDue \/ (d[1] = entry.of /\ d[2] = entry.due)
    BY <1>8, <1>11
  <2>3. Recorded(entry.of, entry.due)
    BY <1>20, <1>25
  <2>4. \A d \in everDue' : \/ \E j \in Rows' : t[j].of = d[1] /\ t[j].due = d[2]
                            \/ Recorded(d[1], d[2])'
    BY <1>17, <1>24, <2>1, <2>2, <2>3
  <2> QED BY <1>17, <2>4 DEF DeadlinesKept, Recorded, Rows
<1>28. Revised'
  <2>1. ASSUME NEW j \in Rows
        PROVE  \/ t[j].due = Due[t[j].of]
               \/ \E e \in events : /\ e.on = t[j].of /\ e.type = "deadline_changed"
                                    /\ e.revised = t[j].due
    <3>1. CASE t[j] = entry
      BY <1>4, <1>20, <3>1
    <3>2. ASSUME NEW l \in Rows \ {i}, t[j] = invitations[l]
          PROVE  \/ t[j].due = Due[t[j].of]
                 \/ \E e \in events : /\ e.on = t[j].of /\ e.type = "deadline_changed"
                                      /\ e.revised = t[j].due
      BY <3>2 DEF IntakeInv, Dated, Revised, Rows
    <3> QED BY <1>16, <3>1, <3>2
  <2> QED BY <1>8, <1>17, <2>1 DEF Revised, Rows
<1> QED BY <1>17, <1>19, <1>22, <1>23, <1>26, <1>27, <1>28 DEF IntakeInv, Dated

--------------------------------------------------------------------------------
(* The theorems.                                                            *)

LEMMA IntakeInvInit == IntakeInit => IntakeInv
<1> SUFFICES ASSUME IntakeInit PROVE IntakeInv
  OBVIOUS
<1>1. Listening \in Hands /\ Listening.pc = "idle"
  BY DEF Listening, Hands, Steps
<1>2. \A w \in Worker : worker[w] = Listening
  BY DEF IntakeInit
<1>3. IntakeTypeOK
  <2>1. worker \in [Worker -> Hands]
    BY <1>1 DEF IntakeInit
  <2> QED BY <2>1 DEF IntakeInit, IntakeTypeOK, Hands
<1>4. \A w \in Worker : Hand(worker[w]) /\ worker[w].pc \notin Taking
  BY <1>1, <1>2 DEF Hand, Taking, Attached
<1>5. Rows = {} /\ events = {} /\ everDue = {}
  BY DEF IntakeInit, Rows
<1> QED BY <1>3, <1>4, <1>5
        DEF IntakeInv, Apart, Stored, IngestedOnce, Dated, DeadlinesKept, Revised, Rows

LEMMA IntakeInvStep == IntakeInv /\ [IntakeNext]_intakeVars => IntakeInv'
<1> SUFFICES ASSUME IntakeInv, [IntakeNext]_intakeVars PROVE IntakeInv'
  OBVIOUS
<1>1. ASSUME NEW w \in Worker,
             \/ \E m \in Message : Deliver(w, m)
             \/ InsertMessage(w) \/ Correlate(w) \/ OpenInvitation(w) \/ LogReceived(w)
             \/ LogChange(w) \/ Revise(w) \/ LogAddendum(w) \/ DeliveryDies(w)
      PROVE  IntakeInv'
  BY <1>1, DeliverStep, InsertMessageStep, CorrelateStep, OpenStep, LogReceivedStep,
     LogChangeStep, ReviseStep, LogAddendumStep, DiesStep
<1>2. CASE UNCHANGED intakeVars
  <2>1. UNCHANGED <<inbox, invitations, events, worker, everDue, deliveries, deaths>>
    BY <1>2 DEF intakeVars
  <2>2. \A w \in Worker : Hand(worker[w])'
    BY <2>1 DEF IntakeInv, Hand, HasRow, Silent, Rows
  <2>3. IntakeTypeOK' /\ Apart'
    BY <2>1 DEF IntakeInv, IntakeTypeOK, Apart
  <2>4. \A v \in Worker : worker'[v].pc \in Attached =>
           worker'[v].prior = worker[v].prior /\ worker[v].pc \in Attached
    BY <2>1
  <2>5. Stored' /\ Dated'
    BY <2>1, <2>4, TablesStill
  <2> QED BY <2>2, <2>3, <2>5 DEF IntakeInv
<1> QED BY <1>1, <1>2 DEF IntakeNext

\* The inductive invariant of the intake: no two deliveries past the index have one
\* message, what each knows of its invitation, and that the date of a row is in the event
\* of a change unless whoever may overwrite it has read it (invitations.ts:53-149).
THEOREM IntakeInvariant == IntakeSpec => []IntakeInv
BY IntakeInvInit, IntakeInvStep, PTL DEF IntakeSpec

\* A message is ingested once, and no date an invitation ever had is lost from it and its
\* history, however deliveries interleave, repeat and die.
THEOREM HistoryKept == IntakeSpec => []IntakeKeepsHistory
<1>1. IntakeInv => IntakeKeepsHistory
  BY DEF IntakeInv, Stored, Dated, IntakeKeepsHistory
<1> QED BY <1>1, IntakeInvariant, PTL
================================================================================
