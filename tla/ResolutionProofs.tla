---------------------------- MODULE ResolutionProofs ----------------------------
(***************************************************************************)
(* Proofs about Resolution for every number of records, projects, reviews,  *)
(* decisions and faults.                                                    *)
(***************************************************************************)
EXTENDS Resolution, FiniteSetTheorems, WellFoundedInduction, TLAPS

Phase == {"idle", "resolve", "update", "reevaluate", "decide", "undo"}
Pc    == {"take", "read", "write", "register", "derive", "insert", "park", "advance", "stamp",
          "check", "mark", "reject", "undo", "unmark", "official", "cite", "twin", "parcel",
          "address", "near"}
LadderPc == {"official", "cite", "twin", "parcel", "address", "near"}
Todo  == (Record \X (0..MaxVersion)) \cup (Record \X (0..MaxVersion) \X Resolved) \cup Review

Job == [phase : Phase, todo : SUBSET Todo, pc : Pc, rec : Record \cup {Null}, ver : 0..MaxVersion,
        dec : Decision \cup {Null}, row : ProjectRow \cup {Null}, res : Resolved \cup {Null},
        review : Review \cup {Null}, verdict : {"merge", "reject"} \cup {Null}]

IdRow == [authority : {Authority[r] : r \in Record},
          number : {Number[r] : r \in Record} \cup Known(Refs),
          type : {"primary", "reference"}, project : Project]
Role  == Project \X Known(Orgs) \X Record
Event == [project : Project, rec : Record, seen : 1..MaxVersion, stage : Nat]

Typed ==
    /\ version \in [Record -> 0..MaxVersion]
    /\ projects \in [Project -> ProjectRow \cup {Null}]
    /\ extIds \subseteq IdRow /\ roles \subseteq Role /\ events \subseteq Event
    /\ resolutions \in [Record -> Resolved \cup {Null}]
    /\ reviews \in [Review -> ReviewRow \cup {Null}]
    /\ work \in [Process -> Job]
    /\ verdicts \in 0..MaxVerdict /\ faults \in 0..MaxFault
    /\ refused \in BOOLEAN /\ crossed \in BOOLEAN /\ calm \in BOOLEAN
    /\ undone \subseteq Record

\* What a row names is there.
Placed ==
    /\ \A e \in extIds : e.project \in Rows
    /\ \A r \in Record : version[r] <= Len(Stage[r])
    /\ \A r \in Record : resolutions[r] # Null => resolutions[r].project \in Rows /\ version[r] > 0
    /\ \A v \in Review : reviews[v] # Null =>
         reviews[v].candidate \in Rows /\ version[reviews[v].rec] > 0

There(v) == v \in Review /\ reviews[v] # Null

\* What the rows are that a loop has selected.
Listed(w) ==
    /\ w.phase = "resolve" => \A t \in w.todo :
         /\ t[1] \in Record /\ t[2] \in 1..Len(Stage[t[1]]) /\ version[t[1]] > 0
    /\ w.phase = "update" => \A t \in w.todo :
         /\ t[1] \in Record /\ t[2] \in 1..Len(Stage[t[1]]) /\ t[3] \in Resolved
         /\ t[3].project \in Rows /\ version[t[1]] > 0
    /\ w.phase \in {"reevaluate", "decide"} => \A v \in w.todo : There(v)

\* The locals of a process at a statement.
Local(w) ==
    /\ w.pc \in Pc \ {"take", "check", "undo", "unmark"} =>
         w.rec \in Record /\ w.ver \in 1..Len(Stage[w.rec])
    /\ w.pc \in Pc \ ({"take", "check", "undo", "unmark"} \cup LadderPc) => w.dec \in Decision
    /\ w.pc \in LadderPc /\ w.verdict = "reject" => w.dec \in Decision /\ w.dec.project \in Rows
    /\ w.pc \in LadderPc /\ w.phase \in {"reevaluate", "decide"} =>
         There(w.review) /\ reviews[w.review].rec = w.rec
    /\ w.pc \in {"read", "advance", "register", "derive", "insert", "stamp", "mark", "park", "reject"}
         => w.dec.project \in Rows
    /\ w.pc \in {"park", "reject"} \cup LadderPc => version[w.rec] > 0
    /\ w.pc = "read" => w.dec.kind = "merge"
    /\ w.pc = "write" => \/ w.dec.kind = "create" /\ w.row = Null
                         \/ w.dec.kind = "merge" /\ w.dec.project \in Rows /\ w.row \in ProjectRow
    /\ w.pc = "advance" => w.row \in ProjectRow
    /\ w.pc \in {"take", "check", "park", "reject"} \cup LadderPc => w.row = Null
    /\ w.pc \in {"read", "advance", "write", "register", "derive", "insert"} => version[w.rec] > 0
    /\ w.pc \in {"check", "reject", "mark"} \/ (w.verdict = "merge" /\ w.pc # "take") => There(w.review)
    /\ w.pc = "reject" \/ (w.verdict = "merge" /\ w.pc \notin {"take", "check"}) =>
         reviews[w.review].rec = w.rec
    /\ w.pc \in {"undo", "unmark"} => w.rec \in Record /\ w.res \in Resolved

\* Which process, in which loop, comes to which statement.
Course(q, w) ==
    /\ q = "chain" => w.phase \in {"idle", "resolve", "update", "reevaluate"}
    /\ q = "reviewer" => w.phase \in {"idle", "decide"}
    /\ q = "operator" => w.phase \in {"idle", "undo"}
    /\ w.phase = "idle" => w.pc = "take"
    /\ w.phase = "undo" <=> w.pc \in {"undo", "unmark"}
    /\ w.pc \in {"advance", "stamp"} => w.phase = "update"
    /\ w.pc \in {"write", "register", "insert", "park", "check", "mark", "reject"} \cup LadderPc =>
         w.phase # "update"
    /\ w.phase = "update" /\ w.pc = "derive" => w.row \in ProjectRow
    /\ w.pc = "check" => w.verdict \in {"merge", "reject"}
    /\ w.pc = "mark" => w.verdict = "merge"
    /\ w.pc = "reject" => w.verdict = "reject"
    /\ w.pc \in LadderPc => w.verdict # "merge"
    /\ w.pc = "twin" => w.verdict # "reject"
    /\ w.pc \in {"check", "mark", "reject"} => w.phase \in {"reevaluate", "decide"}
    /\ w.phase \in {"idle", "undo", "resolve", "update"} => w.verdict = Null
    /\ w.phase = "decide" => w.verdict \in {"merge", "reject"} /\ (w.pc = "take" => w.todo # {})
    /\ w.phase = "reevaluate" /\ w.pc = "take" => w.verdict = Null
    /\ w.phase = "reevaluate" /\ w.pc \notin {"take"} \cup LadderPc => w.verdict \in {"merge", "reject"}

Fine(q, w) == Listed(w) /\ Local(w) /\ Course(q, w)

BaseInv == Typed /\ Placed /\ \A q \in Process : Fine(q, work[q])

--------------------------------------------------------------------------------
\* The least element of a set of numbers is one of them.
LEMMA MinIn == ASSUME NEW S \in SUBSET Nat, S # {} PROVE Min(S) \in S
<1> DEFINE R == OpToRel(<, Nat)
<1>1. IsWellFoundedOn(R, Nat)
  BY NatLessThanWellFounded
<1>2. R = {pair \in Nat \X Nat : pair[1] < pair[2]}
  BY DEF OpToRel
<1> HIDE DEF R
<1>3. PICK m \in S : \A y \in S : <<y, m>> \notin R
  BY <1>1, WFMin
<1>4. \A y \in S : ~(y < m)
  BY <1>2, <1>3
<1>5. \A y \in S : m <= y
  BY <1>4
<1> QED BY <1>5 DEF Min

LEMMA Numbers ==
    /\ MaxVersion \in Nat /\ MaxProject \in Nat /\ MaxReview \in Nat /\ MaxVerdict \in Nat
    /\ MaxFault \in Nat
    /\ \A r \in Record : Len(Stage[r]) \in Nat /\ Len(Stage[r]) > 0 /\ Len(Stage[r]) <= MaxVersion
    /\ \A r \in Record : \A v \in 1..Len(Stage[r]) : v \in 1..MaxVersion /\ Stage[r][v] \in Nat
<1>1. \A r \in Record : Stage[r] \in Seq(Nat)
  BY ResolutionAssumption
<1> HIDE DEF MaxVersion
<1>2. \A r \in Record : Len(Stage[r]) \in Nat
  BY <1>1
<1> QED BY <1>1, <1>2, ResolutionAssumption

LEMMA RowsAre == Rows \subseteq Project /\ \A p \in Project : p \in Rows <=> projects[p] # Null
BY DEF Rows

LEMMA IdleFine == Idle \in Job /\ \A q \in Process : Fine(q, Idle)
<1>1. Idle \in Job
  BY Numbers DEF Idle, Job, Phase, Pc
<1> QED BY <1>1 DEF Idle, Fine, Listed, Local, Course, Process, LadderPc, Pc

LEMMA BaseInit == ResolutionInit => BaseInv
<1> SUFFICES ASSUME ResolutionInit PROVE BaseInv
  OBVIOUS
<1>1. work \in [Process -> Job] /\ \A q \in Process : Fine(q, work[q])
  BY IdleFine DEF ResolutionInit
<1>2. Typed
  <2>1. 0 \in 0..MaxVersion /\ 0 \in 0..MaxVerdict /\ 0 \in 0..MaxFault
    BY Numbers
  <2>2. /\ version \in [Record -> 0..MaxVersion]
        /\ projects \in [Project -> ProjectRow \cup {Null}]
        /\ resolutions \in [Record -> Resolved \cup {Null}]
        /\ reviews \in [Review -> ReviewRow \cup {Null}]
    BY <2>1 DEF ResolutionInit
  <2>3. /\ extIds \subseteq IdRow /\ roles \subseteq Role /\ events \subseteq Event
        /\ verdicts \in 0..MaxVerdict /\ faults \in 0..MaxFault
        /\ refused \in BOOLEAN /\ crossed \in BOOLEAN /\ calm \in BOOLEAN
        /\ undone \subseteq Record
    BY <2>1 DEF ResolutionInit
  <2> QED BY <1>1, <2>2, <2>3 DEF Typed
<1>3. Placed
  BY Numbers DEF ResolutionInit, Placed
<1> QED BY <1>1, <1>2, <1>3 DEF BaseInv

LEMMA TypesOK == BaseInv => ResolutionTypeOK
BY DEF BaseInv, Typed, ResolutionTypeOK, Job, IdRow, Role, Event

--------------------------------------------------------------------------------
(* The ladder.                                                              *)

\* A decision names a project that is there, or none.
Sane(d) ==
    /\ d \in Decision /\ d.project \in Rows \cup {Null}
    /\ d.kind \in {"merge", "review"} => d.project \in Rows

LEMMA DecideIs ==
    ASSUME NEW k \in {"merge", "review", "create"}, NEW rule \in Rule, NEW p \in Rows \cup {Null}
    PROVE  /\ Decide(k, rule, p).kind = k /\ Decide(k, rule, p).rule = rule
           /\ Decide(k, rule, p).project = p
           /\ Decide(k, rule, p) \in Decision
BY RowsAre DEF Decide, Decision

LEMMA IdsAre ==
    ASSUME Placed, NEW r \in Record
    PROVE  Official(r) \subseteq Rows /\ Cited(r) \subseteq Rows
BY DEF Official, Cited, Placed

LEMMA TwinIs ==
    ASSUME Typed, NEW r \in Record, Twins(r) # {}
    PROVE  /\ Min(Twins(r)) \in Twins(r) /\ Min(Twins(r)) \in Pending
           /\ reviews[Min(Twins(r))] \in ReviewRow
<1>1. Twins(r) \subseteq Pending /\ Pending \subseteq Review /\ Review \subseteq Nat
  BY Numbers DEF Twins, Pending, Review
<1>2. Min(Twins(r)) \in Twins(r)
  BY <1>1, MinIn
<1>3. \A v \in Pending : reviews[v] \in ReviewRow
  BY DEF Typed, Pending
<1> QED BY <1>1, <1>2, <1>3

\* The passes that compare: what they find is sane, and never an authoritative match.
Weak(d) == Sane(d) /\ (d.kind = "merge" => d.rule \notin StrongRule)

LEMMA NewProjectWeak == Weak(NewProject) /\ NewProject.kind = "create"
BY DecideIs DEF Weak, Sane, NewProject, Rule

LEMMA ParcelWeak ==
    ASSUME NEW r, NEW ex, NEW d \in ByParcels(r, ex)
    PROVE  Weak(d)
<1>1. PICK p \in Rows : \/ d = Decide("review", "parcel_overlap", p)
                        \/ d = Decide("merge", "parcel_overlap", p)
  BY DEF ByParcels
<1> QED BY <1>1, DecideIs DEF Weak, Sane, Rule, StrongRule

LEMMA FuzzyWeak ==
    ASSUME NEW r, NEW d \in ByAddress(r) \cup ByProximity(r)
    PROVE  Weak(d)
<1>1. CASE d \in ByAddress(r)
  <2>1. PICK p \in Rows : \/ d = Decide("review", "address_name", p)
                          \/ d = Decide("merge", "address_name", p)
    BY <1>1 DEF ByAddress
  <2> QED BY <2>1, DecideIs DEF Weak, Sane, Rule, StrongRule
<1>2. CASE d \in ByProximity(r)
  <2>1. PICK p \in Rows : \/ d = Decide("review", "proximity_org", p)
                          \/ d = Decide("merge", "proximity_org", p)
                          \/ d = NewProject
    BY <1>2 DEF ByProximity
  <2> QED BY <2>1, DecideIs, NewProjectWeak DEF Weak, Sane, Rule, StrongRule
<1> QED BY <1>1, <1>2

\* What a process may carry away from the ladder: a decision d of the pass it is at.
Finding(w, d) ==
    /\ Sane(d)
    /\ w.pc = "official" => d.kind = "merge" /\ d.project \in Official(w.rec)
    /\ w.pc = "cite" => d.kind = "merge" /\ d.project \in Cited(w.rec)
    /\ w.pc = "twin" => /\ d.kind = "review" /\ Twins(w.rec) # {}
                        /\ d.project = reviews[Min(Twins(w.rec))].candidate
    /\ w.pc \in {"twin", "parcel", "address", "near"} => Weak(d)

\* The next pass it may go on to.
Onward(w, x) ==
    /\ x = "cite" => w.pc = "official" /\ Official(w.rec) = {}
    /\ x = "twin" => w.pc = "cite" /\ w.verdict # "reject" /\ Cardinality(Cited(w.rec)) # 1
    /\ x = "parcel" => w.verdict = "reject" \/ (w.pc = "twin" /\ Twins(w.rec) = {})
    /\ x \in {"address", "near"} => w.pc \in {"parcel", "address"}
    /\ x \in {"cite", "twin", "parcel", "address", "near"}

LEMMA ByIdsIs ==
    ASSUME NEW w, NEW d
    PROVE  \/ ByIds(w, d) = Conclude(w, d)
           \/ w.verdict = "reject" /\ ByIds(w, d) = [w EXCEPT !.pc = "parcel"]
BY DEF ByIds, WithoutId, Excluded, Adjudicating

--------------------------------------------------------------------------------
(* A process moves on.                                                      *)

\* Rows of projects and reviews stay, records do not lose versions.
Lasts ==
    /\ Rows \subseteq Rows'
    /\ \A v : There(v) => There(v)' /\ reviews'[v].rec = reviews[v].rec
    /\ \A r \in Record : version[r] <= version'[r]

LEMMA StillFine ==
    ASSUME Typed, Typed', Lasts, NEW q \in Process, NEW w \in Job, Fine(q, w)
    PROVE  Fine(q, w)'
<1>1. Listed(w)'
  <2>1. \A r \in Record : version[r] > 0 => version'[r] > 0
    BY DEF Lasts, Typed
  <2> QED BY <2>1 DEF Fine, Listed, Lasts
<1>2. Local(w)'
  <2>1. w.rec \in Record /\ version[w.rec] > 0 => version'[w.rec] > 0
    BY DEF Lasts, Typed
  <2> QED BY <2>1 DEF Fine, Local, Lasts, Pc, LadderPc
<1> QED BY <1>1, <1>2 DEF Fine, Course

LEMMA Turn ==
    ASSUME BaseInv, NEW q \in Process, NEW w \in Job, work' = [work EXCEPT ![q] = w], Fine(q, w)'
    PROVE  /\ work' \in [Process -> Job]
           /\ Typed' /\ Lasts => \A p \in Process : Fine(p, work[p])'
<1>1. work'[q] = w /\ \A p \in Process : p # q => work'[p] = work[p]
  BY DEF BaseInv, Typed
<1>2. work' \in [Process -> Job]
  BY DEF BaseInv, Typed
<1>3. ASSUME Typed', Lasts, NEW p \in Process PROVE Fine(p, work[p])'
  <2>1. CASE p = q
    BY <1>1, <2>1
  <2>2. CASE p # q
    <3>1. work[p] \in Job /\ Fine(p, work[p])
      BY DEF BaseInv, Typed
    <3>2. \A w0 \in Job : Fine(p, w0) => Fine(p, w0)'
      BY <1>3, StillFine DEF BaseInv
    <3>3. Fine(p, work'[p]) /\ work'[p] \in Job
      BY <1>1, <2>2, <3>1
    <3> QED BY <1>1, <2>2, <3>2, <3>3
  <2> QED BY <2>1, <2>2
<1> QED BY <1>2, <1>3

\* A process moves on and writes nothing.
LEMMA Frame ==
    ASSUME BaseInv, NEW q \in Process, NEW w \in Job, work' = [work EXCEPT ![q] = w], Fine(q, w),
           UNCHANGED <<version, projects, extIds, roles, events, resolutions, reviews>>,
           verdicts' \in 0..MaxVerdict, faults' \in 0..MaxFault, refused' \in BOOLEAN, calm' \in BOOLEAN,
           UNCHANGED <<crossed, undone>>
    PROVE  BaseInv'
<1>1. Typed'
  BY Turn DEF BaseInv, Typed
<1>2. Rows' = Rows /\ Lasts
  BY DEF Rows, Lasts, There, BaseInv, Typed
<1>3. Placed'
  BY <1>2 DEF BaseInv, Placed
<1>4. Fine(q, w)'
  BY <1>1, <1>2, StillFine DEF BaseInv
<1> QED BY <1>1, <1>2, <1>3, <1>4, Turn DEF BaseInv

LEMMA DoneFine ==
    ASSUME NEW q \in Process, NEW w \in Job, Fine(q, w), w.phase # "idle"
    PROVE  Done(w) \in Job /\ Fine(q, Done(w)) /\ Done(w).pc = "take" /\ Done(w).todo \subseteq w.todo
<1>1. CASE w.phase = "undo" \/ (w.phase = "decide" /\ w.todo = {})
  BY <1>1, IdleFine DEF Done, Idle
<1>2. CASE ~(w.phase = "undo" \/ (w.phase = "decide" /\ w.todo = {}))
  <2> DEFINE d == [Idle EXCEPT !.phase = w.phase, !.todo = w.todo,
                               !.verdict = IF w.phase = "decide" THEN w.verdict ELSE Null]
  <2>1. Done(w) = d
    BY <1>2 DEF Done
  <2>2. /\ d.phase = w.phase /\ d.todo = w.todo /\ d.pc = "take" /\ d.row = Null
        /\ d.verdict = IF w.phase = "decide" THEN w.verdict ELSE Null
    BY DEF Idle
  <2>3. d \in Job
    <3>1. /\ w.phase \in Phase /\ w.todo \in SUBSET Todo
          /\ w.verdict \in {"merge", "reject"} \cup {Null}
      BY DEF Job
    <3>2. [Idle EXCEPT !.phase = w.phase, !.todo = w.todo, !.verdict = w.verdict] \in Job
      BY <3>1, IdleFine DEF Job
    <3>3. [Idle EXCEPT !.phase = w.phase, !.todo = w.todo, !.verdict = Null] \in Job
      BY <3>1, IdleFine DEF Job
    <3> QED BY <3>2, <3>3
  <2> HIDE DEF d
  <2>4. Listed(d)
    BY <2>2 DEF Fine, Listed
  <2>5. Local(d)
    BY <2>2 DEF Local, LadderPc, Pc
  <2>6. Course(q, d)
    BY <1>2, <2>2 DEF Fine, Course, LadderPc, Pc
  <2> QED BY <2>1, <2>2, <2>3, <2>4, <2>5, <2>6 DEF Fine
<1> QED BY <1>1, <1>2

\* A decision starts its statements.
LEMMA ActOnFine ==
    ASSUME Typed, NEW q \in Process, NEW w \in Job, Fine(q, w), w.pc \in LadderPc,
           ~Previewing(w), NEW d, Sane(d)
    PROVE  ActOn(w, d) \in Job /\ Fine(q, ActOn(w, d))
<1> DEFINE k == CASE d.kind = "merge"  -> "read"
                  [] d.kind = "create" -> "write"
                  [] d.kind = "review" -> "park"
           a == [w EXCEPT !.dec = d, !.pc = k]
<1>1. ActOn(w, d) = a
  BY DEF ActOn
<1>2. d \in Decision /\ d.kind \in {"merge", "create", "review"}
  BY DEF Sane, Decision
<1>3. /\ d.kind = "merge" => k = "read"
      /\ d.kind = "create" => k = "write"
      /\ d.kind = "review" => k = "park"
  OBVIOUS
<1> HIDE DEF k
<1>4. k \in {"read", "write", "park"} /\ k \in Pc
  BY <1>2, <1>3 DEF Pc
<1>5. a \in Job
  BY <1>2, <1>4 DEF Job
<1>6. /\ a.rec = w.rec /\ a.ver = w.ver /\ a.dec = d /\ a.pc = k /\ a.review = w.review
      /\ a.phase = w.phase /\ a.todo = w.todo /\ a.row = w.row /\ a.verdict = w.verdict
  BY DEF Job
<1> HIDE DEF a
<1>7. /\ w.rec \in Record /\ w.ver \in 1..Len(Stage[w.rec]) /\ version[w.rec] > 0 /\ w.row = Null
      /\ w.verdict # "merge" /\ w.phase \notin {"idle", "undo", "update"}
  BY DEF Fine, Local, Course, LadderPc, Pc
<1>8. Listed(a)
  BY <1>6 DEF Fine, Listed
<1>9. Local(a)
  BY <1>2, <1>3, <1>4, <1>6, <1>7 DEF Local, Sane, Pc, LadderPc
<1>10. w.phase = "reevaluate" => w.verdict \in {"merge", "reject"}
  BY DEF Previewing, Job
<1>11. Course(q, a)
  BY <1>4, <1>6, <1>7, <1>10 DEF Fine, Course, LadderPc
<1> QED BY <1>1, <1>5, <1>8, <1>9, <1>11 DEF Fine

\* A preview ends, or the review goes on to its check.
LEMMA PreviewFine ==
    ASSUME NEW q \in Process, NEW w \in Job, Fine(q, w), w.pc \in LadderPc, Previewing(w), NEW d
    PROVE  Preview(w, d) \in Job /\ Fine(q, Preview(w, d))
<1>1. w.phase = "reevaluate" /\ There(w.review) /\ w.row = Null
  BY DEF Previewing, Fine, Local
<1>2. Done(w) \in Job /\ Fine(q, Done(w))
  BY <1>1, DoneFine
<1>3. ASSUME NEW v \in {"merge", "reject"}
      PROVE  [w EXCEPT !.pc = "check", !.verdict = v] \in Job
             /\ Fine(q, [w EXCEPT !.pc = "check", !.verdict = v])
  <2> DEFINE n == [w EXCEPT !.pc = "check", !.verdict = v]
  <2>1. n \in Job
    BY DEF Job, Pc
  <2>2. /\ n.review = w.review /\ n.pc = "check" /\ n.verdict = v
        /\ n.phase = w.phase /\ n.todo = w.todo /\ n.row = w.row
    BY DEF Job
  <2> HIDE DEF n
  <2>3. Listed(n) /\ Local(n) /\ Course(q, n)
    BY <1>1, <2>2 DEF Fine, Listed, Local, Course, LadderPc
  <2> QED BY <2>1, <2>3 DEF Fine, n
<1>4. \/ Preview(w, d) = Done(w)
      \/ \E v \in {"merge", "reject"} : Preview(w, d) = [w EXCEPT !.pc = "check", !.verdict = v]
  BY DEF Preview
<1> QED BY <1>2, <1>3, <1>4

LEMMA ConcludeFine ==
    ASSUME Typed, NEW q \in Process, NEW w \in Job, Fine(q, w), w.pc \in LadderPc, NEW d, Sane(d)
    PROVE  Conclude(w, d) \in Job /\ Fine(q, Conclude(w, d))
BY ActOnFine, PreviewFine DEF Conclude

LEMMA OnwardFine ==
    ASSUME NEW q \in Process, NEW w \in Job, Fine(q, w), w.pc \in LadderPc, NEW x, Onward(w, x)
    PROVE  [w EXCEPT !.pc = x] \in Job /\ Fine(q, [w EXCEPT !.pc = x])
<1> DEFINE n == [w EXCEPT !.pc = x]
<1>1. x \in LadderPc /\ x \in Pc /\ (x = "twin" => w.verdict # "reject")
  BY DEF Onward, LadderPc, Pc
<1>2. n \in Job
  BY <1>1 DEF Job
<1>3. /\ n.pc = x /\ n.phase = w.phase /\ n.todo = w.todo /\ n.rec = w.rec /\ n.ver = w.ver
      /\ n.dec = w.dec /\ n.row = w.row /\ n.review = w.review /\ n.verdict = w.verdict
  BY DEF Job
<1> HIDE DEF n
<1>4. Listed(n)
  BY <1>3 DEF Fine, Listed
<1>5. Local(n)
  BY <1>1, <1>3 DEF Fine, Local, LadderPc, Pc
<1>6. Course(q, n)
  BY <1>1, <1>3 DEF Fine, Course, LadderPc
<1> QED BY <1>2, <1>4, <1>5, <1>6 DEF Fine, n

--------------------------------------------------------------------------------
(* The steps that only read.                                                *)

LEMMA LoopFine ==
    ASSUME NEW phase \in {"idle", "resolve", "update", "reevaluate"}, NEW todo \in SUBSET Todo,
           Listed([Idle EXCEPT !.phase = phase, !.todo = todo])
    PROVE  /\ [Idle EXCEPT !.phase = phase, !.todo = todo] \in Job
           /\ Fine("chain", [Idle EXCEPT !.phase = phase, !.todo = todo])
<1> DEFINE l == [Idle EXCEPT !.phase = phase, !.todo = todo]
<1>1. l \in Job
  <2>1. phase \in Phase
    BY DEF Phase
  <2> QED BY <2>1, IdleFine DEF Job
<1>2. l.phase = phase /\ l.todo = todo /\ l.pc = "take" /\ l.row = Null /\ l.verdict = Null
  BY DEF Idle
<1> HIDE DEF l
<1>3. Local(l) /\ Course("chain", l)
  BY <1>2 DEF Local, Course, LadderPc, Pc
<1> QED BY <1>1, <1>3 DEF Fine, l

LEMMA SelectionsIs == ASSUME NEW S, NEW T \in Selections(S) PROVE T \subseteq S
BY DEF Selections

LEMMA StartChainBase == ASSUME BaseInv, StartChain PROVE BaseInv'
<1>0. PICK R \in Selections({r \in Record : Unresolved(r)}) :
         Loop("resolve", {<<r, version[r]>> : r \in R})
  BY DEF StartChain
<1> DEFINE todo == {<<r, version[r]>> : r \in R}
<1>1. /\ work' = [work EXCEPT !["chain"] = [Idle EXCEPT !.phase = "resolve", !.todo = todo]]
      /\ UNCHANGED <<version, graph, queue, verdicts, faults, told>> /\ calm' = (calm /\ AllIdle)
  BY <1>0 DEF StartChain, Loop, Begin
<1>2. \A t \in todo : /\ t \in Record \X (0..MaxVersion) /\ t[2] \in 1..Len(Stage[t[1]])
                      /\ version[t[1]] > 0 /\ t[1] \in Record
  <2>1. ASSUME NEW r \in Record, Unresolved(r)
        PROVE  version[r] \in 0..MaxVersion /\ version[r] \in 1..Len(Stage[r]) /\ version[r] > 0
    BY <2>1, Numbers DEF Unresolved, BaseInv, Typed, Placed
  <2> SUFFICES ASSUME NEW t \in todo
               PROVE  /\ t \in Record \X (0..MaxVersion) /\ t[2] \in 1..Len(Stage[t[1]])
                      /\ version[t[1]] > 0 /\ t[1] \in Record
    OBVIOUS
  <2>2. PICK r \in Record : Unresolved(r) /\ t = <<r, version[r]>>
    BY <1>0, SelectionsIs
  <2>3. t[1] = r /\ t[2] = version[r]
    BY <2>2
  <2> HIDE DEF todo
  <2>4. version[r] \in 0..MaxVersion /\ version[r] \in 1..Len(Stage[r]) /\ version[r] > 0
    BY <2>1, <2>2
  <2>5. t \in Record \X (0..MaxVersion)
    BY <2>2, <2>4
  <2> QED BY <2>3, <2>4, <2>5
<1>3. todo \in SUBSET Todo
  BY <1>2 DEF Todo
<1> HIDE DEF todo
<1>4. Listed([Idle EXCEPT !.phase = "resolve", !.todo = todo])
  BY <1>2 DEF Listed, Idle
<1> DEFINE w == [Idle EXCEPT !.phase = "resolve", !.todo = todo]
<1>5. w \in Job /\ Fine("chain", w)
  BY <1>3, <1>4, LoopFine
<1> HIDE DEF w
<1> QED BY <1>1, <1>5, Frame DEF graph, queue, told, BaseInv, Typed, Process, w

LEMMA NextLoopBase == ASSUME BaseInv, NextLoop PROVE BaseInv'
<1>1. /\ UNCHANGED <<version, graph, queue, count>>
      /\ work["chain"].phase \in {"resolve", "update", "reevaluate"}
  BY DEF NextLoop, At, BaseInv, Fine, Course, Process
<1>2. PICK phase \in {"idle", "resolve", "update", "reevaluate"}, todo \in SUBSET Todo :
        /\ Listed([Idle EXCEPT !.phase = phase, !.todo = todo])
        /\ work' = [work EXCEPT !["chain"] = [Idle EXCEPT !.phase = phase, !.todo = todo]]
  <2>1. CASE Taking("resolve")
    <3>0. PICK R \in Selections({r \in Record : Drifted(r)}) :
             Loop("update", {<<r, version[r], resolutions[r]>> : r \in R})
      BY <2>1 DEF NextLoop, Taking
    <3> DEFINE todo == {<<r, version[r], resolutions[r]>> : r \in R}
    <3>1. work' = [work EXCEPT !["chain"] = [Idle EXCEPT !.phase = "update", !.todo = todo]]
      BY <3>0 DEF Loop
    <3>2. \A t \in todo : /\ t \in Record \X (0..MaxVersion) \X Resolved /\ t[2] \in 1..Len(Stage[t[1]])
                          /\ t[1] \in Record /\ t[3] \in Resolved
                          /\ t[3].project \in Rows /\ version[t[1]] > 0
      <4>1. ASSUME NEW r \in Record, Drifted(r)
            PROVE  /\ version[r] \in 0..MaxVersion /\ resolutions[r] \in Resolved
                   /\ version[r] \in 1..Len(Stage[r])
                   /\ resolutions[r].project \in Rows /\ version[r] > 0
        BY <4>1, Numbers DEF Drifted, BaseInv, Typed, Placed
      <4> SUFFICES ASSUME NEW t \in todo
                   PROVE  /\ t \in Record \X (0..MaxVersion) \X Resolved
                          /\ t[2] \in 1..Len(Stage[t[1]])
                          /\ t[1] \in Record /\ t[3] \in Resolved
                          /\ t[3].project \in Rows /\ version[t[1]] > 0
        OBVIOUS
      <4>2. PICK r \in Record : Drifted(r) /\ t = <<r, version[r], resolutions[r]>>
        BY <3>0, SelectionsIs
      <4>3. t[1] = r /\ t[2] = version[r] /\ t[3] = resolutions[r]
        BY <4>2
      <4> HIDE DEF todo
      <4>4. /\ version[r] \in 0..MaxVersion /\ resolutions[r] \in Resolved
            /\ version[r] \in 1..Len(Stage[r])
            /\ resolutions[r].project \in Rows /\ version[r] > 0
        BY <4>1, <4>2
      <4>5. t \in Record \X (0..MaxVersion) \X Resolved
        BY <4>2, <4>4
      <4> QED BY <4>3, <4>4, <4>5
    <3>3. todo \in SUBSET Todo
      BY <3>2 DEF Todo
    <3> HIDE DEF todo
    <3>4. Listed([Idle EXCEPT !.phase = "update", !.todo = todo])
      BY <3>2 DEF Listed, Idle
    <3> QED BY <3>1, <3>3, <3>4
  <2>2. CASE Taking("update")
    <3>1. work' = [work EXCEPT !["chain"] =
                      [Idle EXCEPT !.phase = "reevaluate", !.todo = OldestBatch(Pending)]]
      BY <2>2 DEF NextLoop, Loop, Taking
    <3>2. OldestBatch(Pending) \in SUBSET Todo /\ \A v \in OldestBatch(Pending) : There(v)
      BY DEF OldestBatch, Pending, Todo, There
    <3>3. Listed([Idle EXCEPT !.phase = "reevaluate", !.todo = OldestBatch(Pending)])
      BY <3>2 DEF Listed, Idle
    <3> QED BY <3>1, <3>2, <3>3
  <2>3. CASE Taking("reevaluate")
    <3>1. work' = [work EXCEPT !["chain"] = [Idle EXCEPT !.phase = "idle", !.todo = {}]]
      BY <2>3 DEF NextLoop, Loop, Taking
    <3>2. Listed([Idle EXCEPT !.phase = "idle", !.todo = {}])
      BY DEF Listed, Idle
    <3> QED BY <3>1, <3>2
  <2> QED BY <2>1, <2>2, <2>3 DEF NextLoop
<1> DEFINE w == [Idle EXCEPT !.phase = phase, !.todo = todo]
<1>3. w \in Job /\ Fine("chain", w) /\ work' = [work EXCEPT !["chain"] = w]
  BY <1>2, LoopFine
<1> HIDE DEF w
<1> QED BY <1>1, <1>3, Frame DEF graph, queue, count, told, BaseInv, Typed, Process

LEMMA WithoutFine ==
    ASSUME NEW q \in Process, NEW w \in Job, Fine(q, w), w.pc = "take", w.phase # "decide", NEW t
    PROVE  /\ [w EXCEPT !.todo = @ \ {t}] \in Job /\ Fine(q, [w EXCEPT !.todo = @ \ {t}])
           /\ \A f \in {w.todo} : [w EXCEPT !.todo = @ \ {t}].todo = f \ {t}
           /\ [w EXCEPT !.todo = @ \ {t}].phase = w.phase
           /\ [w EXCEPT !.todo = @ \ {t}].pc = "take"
           /\ [w EXCEPT !.todo = @ \ {t}].row = Null
           /\ [w EXCEPT !.todo = @ \ {t}].verdict = w.verdict
<1> DEFINE a == [w EXCEPT !.todo = @ \ {t}]
<1>1. a \in Job
  BY DEF Job
<1>2. a.phase = w.phase /\ a.pc = "take" /\ a.row = Null /\ a.verdict = w.verdict /\ a.todo = w.todo \ {t}
  BY DEF Job, Fine, Local
<1> HIDE DEF a
<1>3. Listed(a) /\ Local(a) /\ Course(q, a)
  BY <1>2 DEF Fine, Listed, Local, Course, LadderPc, Pc
<1> QED BY <1>1, <1>2, <1>3 DEF Fine, a

LEMMA FirstTyped ==
    ASSUME NEW w \in Job, NEW todo \in SUBSET Todo, NEW v \in Review \cup {Null},
           NEW r \in Record, NEW n \in 0..MaxVersion
    PROVE  [w EXCEPT !.todo = todo, !.review = v, !.rec = r, !.ver = n, !.pc = "official"] \in Job
<1> DEFINE b == [w EXCEPT !.todo = todo]
           c == [b EXCEPT !.review = v]
<1>1. b \in Job
  BY DEF Job
<1> HIDE DEF b
<1>2. c \in Job
  BY <1>1 DEF Job
<1> HIDE DEF c
<1>3. [c EXCEPT !.rec = r, !.ver = n, !.pc = "official"] \in Job
  BY <1>2 DEF Job, Pc
<1>4. [w EXCEPT !.todo = todo, !.review = v, !.rec = r, !.ver = n, !.pc = "official"]
        = [c EXCEPT !.rec = r, !.ver = n, !.pc = "official"]
  BY DEF b, c, Job
<1> QED BY <1>3, <1>4

\* The work on a row of the loop begins with the first pass.
LEMMA FirstFine ==
    ASSUME NEW w \in Job, Fine("chain", w), w.phase \in {"resolve", "reevaluate"}, w.pc = "take",
           NEW todo \in SUBSET w.todo, NEW v \in Review \cup {Null},
           NEW r \in Record, NEW n \in 1..Len(Stage[r]), version[r] > 0, w.verdict = Null,
           w.phase = "reevaluate" => There(v) /\ reviews[v].rec = r
    PROVE  LET a == [w EXCEPT !.todo = todo, !.review = v, !.rec = r, !.ver = n, !.pc = "official"]
           IN  a \in Job /\ Fine("chain", a)
<1> DEFINE a == [w EXCEPT !.todo = todo, !.review = v, !.rec = r, !.ver = n, !.pc = "official"]
<1>1. n \in 0..MaxVersion /\ todo \in SUBSET Todo /\ Null \notin {"merge", "reject"}
  BY Numbers, NullIsNothing DEF Job
<1>2. a \in Job
  BY <1>1, FirstTyped
<1>3. /\ a.rec = r /\ a.ver = n /\ a.pc = "official" /\ a.review = v /\ a.todo = todo
      /\ a.phase = w.phase /\ a.verdict = Null /\ a.row = Null
  BY DEF Job, Fine, Local
<1> HIDE DEF a
<1>4. Listed(a)
  BY <1>3 DEF Fine, Listed
<1>5. Local(a)
  BY <1>1, <1>3 DEF Fine, Local, LadderPc, Pc
<1>6. Course("chain", a)
  BY <1>1, <1>3 DEF Fine, Course, LadderPc
<1> QED BY <1>2, <1>4, <1>5, <1>6 DEF Fine, a

LEMMA TakeRecordBase == ASSUME BaseInv, TakeRecord PROVE BaseInv'
<1> DEFINE w == work["chain"]
<1>1. /\ w \in Job /\ Fine("chain", w) /\ "chain" \in Process
      /\ w.phase = "resolve" /\ w.pc = "take" /\ UNCHANGED <<version, graph, queue, count>>
      /\ w.verdict = Null
  BY DEF TakeRecord, Taking, At, BaseInv, Typed, Process, Fine, Course
<1>2. PICK t \in w.todo : work' = [work EXCEPT !["chain"] =
         [Without(t) EXCEPT !.rec = t[1], !.ver = t[2], !.pc = "official"]]
  BY DEF TakeRecord
<1>3. t[1] \in Record /\ t[2] \in 1..Len(Stage[t[1]]) /\ version[t[1]] > 0
  BY <1>1 DEF Fine, Listed
<1> DEFINE r == t[1]
           n == t[2]
           todo == w.todo \ {t}
           a == [w EXCEPT !.todo = todo, !.review = w.review, !.rec = r, !.ver = n, !.pc = "official"]
<1>4. work' = [work EXCEPT !["chain"] = a]
  BY <1>1, <1>2 DEF Without, Job
<1>5. w.review \in Review \cup {Null}
  BY <1>1 DEF Job
<1>6. a \in Job /\ Fine("chain", a)
  <2> HIDE DEF w, r, n
  <2> QED BY <1>1, <1>3, <1>5, FirstFine DEF r, n
<1> HIDE DEF a
<1> QED BY <1>1, <1>4, <1>6, Frame DEF graph, queue, count, told, BaseInv, Typed

LEMMA TakeUpdateBase == ASSUME BaseInv, TakeUpdate PROVE BaseInv'
<1> DEFINE w == work["chain"]
<1>1. "chain" \in Process /\ w \in Job /\ Fine("chain", w)
  BY DEF BaseInv, Typed, Process
<1>2. w.phase = "update" /\ w.pc = "take" /\ UNCHANGED <<version, graph, queue, count>>
  BY DEF TakeUpdate, Taking, At
<1>3. PICK t \in w.todo :
        work' = [work EXCEPT !["chain"] =
            [Without(t) EXCEPT !.rec = t[1], !.ver = t[2], !.res = t[3], !.pc = "read",
                               !.dec = Decide("merge", "new_project", t[3].project)]]
  BY DEF TakeUpdate
<1>4. /\ t[1] \in Record /\ t[2] \in 1..Len(Stage[t[1]]) /\ t[3] \in Resolved
      /\ t[3].project \in Rows /\ version[t[1]] > 0 /\ t[2] \in 0..MaxVersion
  BY <1>1, <1>2, Numbers DEF Fine, Listed
<1>5. /\ Without(t) \in Job /\ Fine("chain", Without(t)) /\ Without(t).phase = "update"
      /\ Without(t).verdict = Null
  BY <1>1, <1>2, WithoutFine DEF Without, Fine, Course
<1> DEFINE d == Decide("merge", "new_project", t[3].project)
<1>6. d \in Decision /\ d.kind = "merge" /\ d.project = t[3].project
  BY <1>4, DecideIs DEF Rule
<1> HIDE DEF d
<1> DEFINE o == Without(t)
           n == [o EXCEPT !.rec = t[1], !.ver = t[2], !.res = t[3], !.pc = "read", !.dec = d]
<1>7. o \in Job
  BY <1>5
<1> HIDE DEF o
<1>8. n \in Job
  BY <1>4, <1>6, <1>7 DEF Job, Pc
<1>9. /\ n.rec = t[1] /\ n.ver = t[2] /\ n.pc = "read" /\ n.dec = d
      /\ n.phase = o.phase /\ n.todo = o.todo /\ n.verdict = o.verdict
  BY <1>7 DEF Job
<1>10. work' = [work EXCEPT !["chain"] = n]
  BY <1>3 DEF d, o
<1> HIDE DEF n
<1>11. Fine("chain", n)
  <2>1. Listed(n)
    BY <1>5, <1>9 DEF Fine, Listed, o
  <2>2. Local(n)
    BY <1>4, <1>5, <1>6, <1>9, NullIsNothing DEF Local, o, LadderPc, Pc
  <2>3. Course("chain", n)
    BY <1>5, <1>9 DEF Fine, Course, o, LadderPc, Pc
  <2> QED BY <2>1, <2>2, <2>3 DEF Fine
<1> QED BY <1>1, <1>2, <1>8, <1>10, <1>11, Frame DEF graph, queue, count, told, BaseInv, Typed

\* A process at a row of the loop starts on a review.
LEMMA CheckFine ==
    ASSUME NEW q \in Process, NEW w \in Job, Fine(q, w), w.phase \in {"reevaluate", "decide"},
           w.pc = "take", NEW todo \in SUBSET w.todo, NEW v, There(v), NEW verdict \in {"merge", "reject"}
    PROVE  /\ [w EXCEPT !.todo = todo, !.review = v, !.pc = "check", !.verdict = verdict] \in Job
           /\ Fine(q, [w EXCEPT !.todo = todo, !.review = v, !.pc = "check", !.verdict = verdict])
<1> DEFINE n == [w EXCEPT !.todo = todo, !.review = v, !.pc = "check", !.verdict = verdict]
<1>1. n \in Job
  BY DEF Job, Pc, There
<1>2. /\ n.review = v /\ n.pc = "check" /\ n.verdict = verdict
      /\ n.phase = w.phase /\ n.todo = todo /\ n.row = w.row
  BY DEF Job
<1> HIDE DEF n
<1>3. Listed(n) /\ Local(n) /\ Course(q, n)
  BY <1>2 DEF Fine, Listed, Local, Course, LadderPc, Pc
<1> QED BY <1>1, <1>3 DEF Fine, n

LEMMA TakeReviewBase == ASSUME BaseInv, TakeReview PROVE BaseInv'
<1> DEFINE w == work["chain"]
<1>1. /\ w \in Job /\ Fine("chain", w) /\ "chain" \in Process
      /\ w.phase = "reevaluate" /\ w.pc = "take" /\ UNCHANGED <<version, graph, queue, count>>
  BY DEF TakeReview, Taking, At, BaseInv, Typed, Process
<1>2. PICK v \in w.todo : work' = [work EXCEPT !["chain"] =
         [Without(v) EXCEPT !.review = v, !.rec = reviews[v].rec, !.ver = version[reviews[v].rec],
                            !.pc = "official"]]
  BY DEF TakeReview
<1>3. There(v) /\ v \in Review
  BY <1>1 DEF Fine, Listed, There
<1>4. reviews[v].rec \in Record /\ version[reviews[v].rec] > 0
  BY <1>3 DEF There, BaseInv, Typed, Placed, ReviewRow
<1>5. version[reviews[v].rec] \in 1..Len(Stage[reviews[v].rec])
  BY <1>4, Numbers DEF BaseInv, Typed, Placed
<1>6. w.verdict = Null
  BY <1>1 DEF Fine, Course, LadderPc, Pc
<1> DEFINE r == reviews[v].rec
           n == version[reviews[v].rec]
           todo == w.todo \ {v}
           a == [w EXCEPT !.todo = todo, !.review = v, !.rec = r, !.ver = n, !.pc = "official"]
<1>7. work' = [work EXCEPT !["chain"] = a]
  BY <1>1, <1>2 DEF Without, Job
<1>8. a \in Job /\ Fine("chain", a)
  <2> HIDE DEF w, n
  <2>1. r \in Record /\ n \in 1..Len(Stage[r]) /\ version[r] > 0 /\ reviews[v].rec = r
    BY <1>4, <1>5 DEF n
  <2> HIDE DEF r
  <2> QED BY <1>1, <1>3, <1>6, <2>1, FirstFine
<1> HIDE DEF a
<1> QED BY <1>1, <1>7, <1>8, Frame DEF graph, queue, count, told, BaseInv, Typed

LEMMA TakeDecisionBase == ASSUME BaseInv, TakeDecision PROVE BaseInv'
<1> DEFINE w == work["reviewer"]
<1>1. "reviewer" \in Process /\ w \in Job /\ Fine("reviewer", w)
  BY DEF BaseInv, Typed, Process
<1>2. /\ w.phase = "decide" /\ w.pc = "take" /\ UNCHANGED <<version, graph, queue, count>>
      /\ work' = [work EXCEPT !["reviewer"] =
             [w EXCEPT !.todo = @ \ {Min(w.todo)}, !.review = Min(w.todo), !.pc = "check"]]
  BY DEF TakeDecision, At
<1>3. w.todo # {} /\ w.verdict \in {"merge", "reject"}
  BY <1>1, <1>2 DEF Fine, Course
<1>4. There(Min(w.todo))
  <2>1. \A v \in w.todo : There(v)
    BY <1>1, <1>2 DEF Fine, Listed
  <2>2. w.todo \in SUBSET Nat
    BY <2>1, Numbers DEF There, Review
  <2> QED BY <1>3, <2>1, <2>2, MinIn
<1> DEFINE t == Min(w.todo)
           n == [w EXCEPT !.todo = w.todo \ {t}, !.review = t, !.pc = "check", !.verdict = w.verdict]
<1>5. n = [w EXCEPT !.todo = @ \ {t}, !.review = t, !.pc = "check"]
  BY <1>1 DEF Job
<1>6. n \in Job /\ Fine("reviewer", n)
  BY <1>1, <1>2, <1>3, <1>4, CheckFine
<1> HIDE DEF n
<1> QED BY <1>1, <1>2, <1>5, <1>6, Frame DEF graph, queue, count, told, BaseInv, Typed

LEMMA GotoIs ==
    ASSUME NEW w \in Job, NEW x \in Pc
    PROVE  /\ [w EXCEPT !.pc = x] \in Job /\ [w EXCEPT !.pc = x].pc = x
           /\ [w EXCEPT !.pc = x].phase = w.phase /\ [w EXCEPT !.pc = x].todo = w.todo
           /\ [w EXCEPT !.pc = x].rec = w.rec /\ [w EXCEPT !.pc = x].ver = w.ver
           /\ [w EXCEPT !.pc = x].dec = w.dec /\ [w EXCEPT !.pc = x].row = w.row
           /\ [w EXCEPT !.pc = x].res = w.res /\ [w EXCEPT !.pc = x].review = w.review
           /\ [w EXCEPT !.pc = x].verdict = w.verdict
BY DEF Job

LEMMA ReadProjectBase == ASSUME BaseInv, NEW q \in Process, ReadProject(q) PROVE BaseInv'
<1> DEFINE w == work[q]
           x == IF w.phase = "update" THEN "advance" ELSE "write"
           row == projects[w.dec.project]
           n == [w EXCEPT !.row = row, !.pc = x]
<1>1. w \in Job /\ Fine(q, w)
  BY DEF BaseInv, Typed
<1>2. w.phase # "idle" /\ w.pc = "read" /\ UNCHANGED <<version, graph, queue, count>>
  BY DEF ReadProject, At
<1>3. w.dec \in Decision /\ w.dec.kind = "merge" /\ w.dec.project \in Rows
  BY <1>1, <1>2 DEF Fine, Local, Pc, LadderPc
<1>4. row \in ProjectRow
  BY <1>3, RowsAre DEF BaseInv, Typed
<1>5. work' = [work EXCEPT ![q] = n]
  BY DEF ReadProject, BaseInv, Typed
<1> HIDE DEF row
<1>5a. x \in {"advance", "write"} /\ x \in Pc /\ (x = "advance" <=> w.phase = "update")
  BY DEF Pc
<1> HIDE DEF x
<1>6. /\ n \in Job /\ n.pc = x /\ n.row = row /\ n.phase = w.phase /\ n.todo = w.todo
      /\ n.rec = w.rec /\ n.ver = w.ver /\ n.dec = w.dec /\ n.review = w.review /\ n.verdict = w.verdict
  BY <1>1, <1>4, <1>5a DEF Job
<1> HIDE DEF n
<1>8. Listed(n) /\ Local(n) /\ Course(q, n)
  BY <1>1, <1>2, <1>3, <1>4, <1>5a, <1>6 DEF Fine, Listed, Local, Course, Pc, LadderPc
<1> QED BY <1>1, <1>2, <1>5, <1>6, <1>8, Frame DEF graph, queue, count, told, BaseInv, Typed, Fine

\* A row is done, or a statement has thrown.
LEMMA ReturnBase ==
    ASSUME BaseInv, NEW q \in Process, work[q].phase # "idle", Return(q),
           UNCHANGED <<version, projects, extIds, roles, events, resolutions, reviews>>,
           verdicts' \in 0..MaxVerdict, faults' \in 0..MaxFault, refused' \in BOOLEAN, calm' \in BOOLEAN,
           UNCHANGED <<crossed, undone>>
    PROVE  BaseInv'
<1>1. work[q] \in Job /\ Fine(q, work[q])
  BY DEF BaseInv, Typed
<1>2. work' = [work EXCEPT ![q] = Done(work[q])]
  BY DEF Return
<1>3. Done(work[q]) \in Job /\ Fine(q, Done(work[q]))
  BY <1>1, DoneFine
<1> QED BY <1>2, <1>3, Frame

LEMMA FaultBase == ASSUME BaseInv, NEW q \in Process, Fault(q) PROVE BaseInv'
<1>1. faults' \in 0..MaxFault
  BY Numbers DEF Fault, BaseInv, Typed
<1> QED BY <1>1, ReturnBase DEF Fault, graph, queue, told, BaseInv, Typed

LEMMA CrashBase == ASSUME BaseInv, CrashChain PROVE BaseInv'
<1> DEFINE w == [Idle EXCEPT !.phase = "idle", !.todo = {}]
<1>1. faults' \in 0..MaxFault
  BY Numbers DEF CrashChain, BaseInv, Typed
<1>2. work' = [work EXCEPT !["chain"] = w] /\ UNCHANGED <<version, graph, queue, verdicts, told, calm>>
  BY DEF CrashChain, Loop
<1>3. w \in Job /\ Fine("chain", w)
  BY LoopFine DEF Listed, Idle
<1> HIDE DEF w
<1> QED BY <1>1, <1>2, <1>3, Frame DEF graph, queue, told, BaseInv, Typed, Process

LEMMA RequestBase ==
    ASSUME BaseInv, NEW V \in SUBSET Pending, V # {}, NEW verdict \in {"merge", "reject"},
           Request(V, verdict)
    PROVE  BaseInv'
<1> DEFINE w == work["reviewer"]
           n == [w EXCEPT !.phase = "decide", !.todo = V, !.verdict = verdict]
<1>1. w \in Job /\ Fine("reviewer", w) /\ "reviewer" \in Process
  BY DEF BaseInv, Typed, Process
<1>2. /\ w.phase = "idle" /\ work' = [work EXCEPT !["reviewer"] = n]
      /\ UNCHANGED <<version, graph, queue, faults, told>> /\ calm' = (calm /\ AllIdle)
  BY <1>1 DEF Request, Begin
<1>3. verdicts' \in 0..MaxVerdict
  BY Numbers DEF Request, BaseInv, Typed
<1>4. V \in SUBSET Todo /\ \A v \in V : There(v)
  BY DEF Pending, Todo, There
<1>5. n \in Job
  BY <1>1, <1>4 DEF Job, Phase
<1>6. n.phase = "decide" /\ n.todo = V /\ n.verdict = verdict /\ n.pc = "take" /\ n.row = Null
  BY <1>1, <1>2 DEF Job, Fine, Local, Course
<1> HIDE DEF n
<1>7. Listed(n) /\ Local(n) /\ Course("reviewer", n)
  BY <1>4, <1>6 DEF Listed, Local, Course, LadderPc, Pc
<1> QED BY <1>1, <1>2, <1>3, <1>5, <1>7, Frame DEF graph, queue, told, BaseInv, Typed, Fine

LEMMA RequestUndoBase == ASSUME BaseInv, NEW r \in Record, RequestUndo(r) PROVE BaseInv'
<1> DEFINE w == work["operator"]
           n == [w EXCEPT !.phase = "undo", !.pc = "undo", !.rec = r, !.res = resolutions[r]]
<1>1. w \in Job /\ Fine("operator", w) /\ "operator" \in Process
  BY DEF BaseInv, Typed, Process
<1>2. /\ w.phase = "idle" /\ work' = [work EXCEPT !["operator"] = n] /\ resolutions[r] \in Resolved
      /\ UNCHANGED <<version, graph, queue, faults, told>> /\ calm' = (calm /\ AllIdle)
  BY <1>1 DEF RequestUndo, Begin, BaseInv, Typed
<1>3. verdicts' \in 0..MaxVerdict
  BY Numbers DEF RequestUndo, BaseInv, Typed
<1>4. n \in Job
  BY <1>1, <1>2 DEF Job, Phase, Pc
<1>5. n.phase = "undo" /\ n.pc = "undo" /\ n.rec = r /\ n.res = resolutions[r]
      /\ n.todo = w.todo /\ n.verdict = w.verdict
  BY <1>1 DEF Job
<1> HIDE DEF n
<1>6. Listed(n) /\ Course("operator", n)
  BY <1>1, <1>2, <1>5 DEF Listed, Fine, Course, LadderPc, Pc
<1>7. Local(n)
  <2>1. w.verdict = Null /\ Null # "merge"
    BY <1>1, <1>2, NullIsNothing DEF Fine, Course
  <2> QED BY <1>2, <1>5, <2>1 DEF Local, LadderPc, Pc
<1> QED BY <1>1, <1>2, <1>3, <1>4, <1>6, <1>7, Frame DEF graph, queue, told, BaseInv, Typed, Fine

LEMMA CheckPendingBase == ASSUME BaseInv, NEW q \in Process, CheckPending(q) PROVE BaseInv'
<1> DEFINE w == work[q]
           rv == reviews[w.review]
<1>1. w \in Job /\ Fine(q, w)
  BY DEF BaseInv, Typed
<1>2. w.phase \in {"reevaluate", "decide"} /\ w.pc = "check" /\ UNCHANGED <<version, graph, queue, count>>
  BY <1>1 DEF CheckPending, At, Fine, Course
<1>3. There(w.review) /\ w.verdict \in {"merge", "reject"} /\ w.row = Null
  BY <1>1, <1>2 DEF Fine, Local, Course
<1>4. CASE w.review \notin Pending \/ (w.verdict = "merge" /\ rv.candidate = Null)
  <2>1. work' = [work EXCEPT ![q] = Done(w)]
    BY <1>4 DEF CheckPending
  <2>2. Done(w) \in Job /\ Fine(q, Done(w))
    BY <1>1, <1>2, DoneFine
  <2> QED BY <1>2, <2>1, <2>2, Frame DEF graph, queue, count, told, BaseInv, Typed
<1>5. CASE ~(w.review \notin Pending \/ (w.verdict = "merge" /\ rv.candidate = Null))
  <2>1. /\ rv \in ReviewRow /\ rv.candidate \in Rows /\ version[rv.rec] > 0
        /\ rv.rec \in Record /\ rv.rule \in Rule
    BY <1>3 DEF There, BaseInv, Typed, Placed, ReviewRow
  <2>2. version[rv.rec] \in 1..Len(Stage[rv.rec]) /\ version[rv.rec] \in 0..MaxVersion
    BY <2>1, Numbers DEF BaseInv, Typed, Placed
  <2> DEFINE d == Decide("merge", rv.rule, rv.candidate)
             x == IF w.verdict = "merge" THEN "read" ELSE "reject"
             n == [w EXCEPT !.rec = rv.rec, !.ver = version[rv.rec], !.dec = d, !.pc = x]
  <2>3. work' = [work EXCEPT ![q] = n]
    BY <1>5 DEF CheckPending
  <2>4. d \in Decision /\ d.kind = "merge" /\ d.project = rv.candidate
    BY <2>1, DecideIs
  <2>5. /\ x \in {"read", "reject"} /\ x \in Pc
        /\ x = "read" => w.verdict = "merge" /\ rv.candidate \in Rows
        /\ x = "reject" => w.verdict = "reject"
    <3>1. x \in {"read", "reject"} /\ x \in Pc
      BY DEF Pc
    <3>2. x = "read" => w.verdict = "merge"
      OBVIOUS
    <3>3. x = "reject" => w.verdict = "reject"
      BY <1>3
    <3>4. w.verdict = "merge" => rv.candidate # Null
      BY <1>5
    <3> QED BY <2>1, <3>1, <3>2, <3>3, <3>4
  <2> HIDE DEF d, x
  <2> HIDE <1>5
  <2> DEFINE r == rv.rec
             ver == version[rv.rec]
  <2>6. r \in Record /\ ver \in 1..Len(Stage[r]) /\ ver \in 0..MaxVersion /\ version[r] > 0
    BY <2>1, <2>2
  <2>7. n = [w EXCEPT !.rec = r, !.ver = ver, !.dec = d, !.pc = x]
    OBVIOUS
  <2> HIDE DEF r, ver, n
  <2>8. /\ n \in Job /\ n.rec = r /\ n.ver = ver /\ n.dec = d /\ n.pc = x /\ n.phase = w.phase
        /\ n.todo = w.todo /\ n.row = w.row /\ n.review = w.review /\ n.verdict = w.verdict
    BY <1>1, <2>4, <2>5, <2>6, <2>7 DEF Job
  <2>9. Listed(n) /\ Course(q, n)
    BY <1>1, <1>2, <2>5, <2>8 DEF Fine, Listed, Course, LadderPc, Pc
  <2>10. Local(n)
    <3>1. d.project \in Rows /\ reviews[w.review].rec = r
      BY <2>1, <2>4 DEF r
    <3> QED BY <1>3, <2>4, <2>5, <2>6, <2>8, <3>1 DEF Local
  <2> QED BY <1>2, <2>3, <2>8, <2>9, <2>10, Frame DEF graph, queue, count, told, BaseInv, Typed, Fine
<1> QED BY <1>4, <1>5

\* What one query of the ladder can lead to.
LEMMA LadderIs ==
    ASSUME BaseInv, NEW q \in Process, Ladder(q)
    PROVE  /\ work[q].pc \in LadderPc /\ work[q].phase # "idle"
           /\ UNCHANGED <<version, graph, queue, count>>
           /\ \E w1 : /\ work' = [work EXCEPT ![q] = w1]
                     /\ \/ w1 = Done(work[q])
                        \/ \E x : Onward(work[q], x) /\ w1 = [work[q] EXCEPT !.pc = x]
                        \/ \E d : Finding(work[q], d) /\ w1 = Conclude(work[q], d)
<1> DEFINE w == work[q]
           Leads(w1) == \/ w1 = Done(w)
                        \/ \E x : Onward(w, x) /\ w1 = [w EXCEPT !.pc = x]
                        \/ \E d : Finding(w, d) /\ w1 = Conclude(w, d)
<1> SUFFICES ASSUME NEW x \in LadderPc, NEW W, Query(q, x, W), \A w1 \in W : w.pc = x => Leads(w1)
             PROVE  /\ w.pc \in LadderPc /\ w.phase # "idle"
                    /\ UNCHANGED <<version, graph, queue, count>>
                    /\ \E w1 : work' = [work EXCEPT ![q] = w1] /\ Leads(w1)
  <2>1. w \in Job /\ Fine(q, w) /\ Placed /\ Typed
    BY DEF BaseInv, Typed
  <2>2. w.pc \in LadderPc => w.rec \in Record
    BY <2>1 DEF Fine, Local, LadderPc, Pc
  <2>a. w.verdict = "reject" => ~(w.pc = "twin")
    BY <2>1 DEF Fine, Course
  <2> HIDE DEF w
  <2>3. CASE OfficialPass(q)
    <3> DEFINE W == IF w.rec \in Canary THEN {Done(w)}
                    ELSE IF Official(w.rec) = {} THEN {[w EXCEPT !.pc = "cite"]}
                    ELSE {ByIds(w, Decide("merge", "official_id", p)) : p \in Official(w.rec)}
    <3>1. Query(q, "official", W)
      BY <2>3 DEF OfficialPass, w
    <3>2. ASSUME NEW w1 \in W, w.pc = "official" PROVE Leads(w1)
      <4>1. CASE w.rec \in Canary
        BY <4>1
      <4>2. CASE w.rec \notin Canary /\ Official(w.rec) = {}
        <5>1. w1 = [w EXCEPT !.pc = "cite"] /\ Onward(w, "cite")
          BY <3>2, <4>2 DEF Onward
        <5> QED BY <5>1
      <4>3. CASE w.rec \notin Canary /\ Official(w.rec) # {}
        <5>1. PICK p \in Official(w.rec) : w1 = ByIds(w, Decide("merge", "official_id", p))
          BY <4>3
        <5> DEFINE d == Decide("merge", "official_id", p)
        <5>2. p \in Rows
          BY <2>1, <2>2, <3>2, IdsAre DEF LadderPc
        <5>3. Sane(d) /\ d.kind = "merge" /\ d.project = p
          BY <5>2, DecideIs DEF Sane, Rule
        <5> HIDE DEF d
        <5>4. Finding(w, d)
          BY <3>2, <5>3 DEF Finding
        <5>5. w.verdict = "reject" => Onward(w, "parcel")
          BY DEF Onward
        <5> QED BY <5>1, <5>4, <5>5, ByIdsIs DEF d
      <4> QED BY <4>1, <4>2, <4>3
    <3> HIDE DEF W
    <3> QED BY <3>1, <3>2 DEF LadderPc, w
  <2>4. CASE ReferencePass(q)
    <3> DEFINE W == IF Cardinality(Cited(w.rec)) # 1 THEN {WithoutId(w)}
                    ELSE {ByIds(w, Decide("merge", "explicit_reference", p)) : p \in Cited(w.rec)}
    <3>1. Query(q, "cite", W)
      BY <2>4 DEF ReferencePass, w
    <3>2. ASSUME NEW w1 \in W, w.pc = "cite" PROVE Leads(w1)
      <4>1. CASE Cardinality(Cited(w.rec)) # 1
        <5>1. w1 = WithoutId(w)
          BY <4>1
        <5>2. CASE w.verdict = "reject"
          <6>1. w1 = [w EXCEPT !.pc = "parcel"] /\ Onward(w, "parcel")
            BY <5>1, <5>2 DEF WithoutId, Adjudicating, Onward
          <6> QED BY <6>1
        <5>3. CASE w.verdict # "reject"
          <6>1. w1 = [w EXCEPT !.pc = "twin"] /\ Onward(w, "twin")
            BY <3>2, <4>1, <5>1, <5>3 DEF WithoutId, Adjudicating, Onward
          <6> QED BY <6>1
        <5> QED BY <5>2, <5>3
      <4>2. CASE ~(Cardinality(Cited(w.rec)) # 1)
        <5>1. PICK p \in Cited(w.rec) : w1 = ByIds(w, Decide("merge", "explicit_reference", p))
          BY <4>2
        <5> DEFINE d == Decide("merge", "explicit_reference", p)
        <5>2. p \in Rows
          BY <2>1, <2>2, <3>2, IdsAre DEF LadderPc
        <5>3. Sane(d) /\ d.kind = "merge" /\ d.project = p
          BY <5>2, DecideIs DEF Sane, Rule
        <5> HIDE DEF d
        <5>4. Finding(w, d)
          BY <3>2, <5>3 DEF Finding
        <5>5. w.verdict = "reject" => Onward(w, "parcel")
          BY DEF Onward
        <5> QED BY <5>1, <5>4, <5>5, ByIdsIs DEF d
      <4> QED BY <4>1, <4>2
    <3> HIDE DEF W
    <3> QED BY <3>1, <3>2 DEF LadderPc, w
  <2>5. CASE TwinPass(q)
    <3> DEFINE W == {IF Twins(w.rec) = {} THEN [w EXCEPT !.pc = "parcel"]
                     ELSE Conclude(w, Decide("review", "official_id",
                                             reviews[Min(Twins(w.rec))].candidate))}
    <3>1. Query(q, "twin", W)
      BY <2>5 DEF TwinPass, w
    <3>2. ASSUME NEW w1 \in W, w.pc = "twin" PROVE Leads(w1)
      <4>1. CASE Twins(w.rec) = {}
        <5>1. w1 = [w EXCEPT !.pc = "parcel"] /\ Onward(w, "parcel")
          BY <3>2, <4>1 DEF Onward
        <5> QED BY <5>1
      <4>2. CASE Twins(w.rec) # {}
        <5> DEFINE p == reviews[Min(Twins(w.rec))].candidate
                   d == Decide("review", "official_id", p)
        <5>1. w1 = Conclude(w, d)
          BY <4>2
        <5>2. p \in Rows
          BY <2>1, <2>2, <3>2, <4>2, TwinIs, NullIsNothing DEF Placed, Pending, LadderPc
        <5>3. Sane(d) /\ d.kind = "review" /\ d.project = p
          <6> HIDE DEF p
          <6> QED BY <5>2, DecideIs DEF Sane, Rule
        <5> HIDE DEF d
        <5>4. Finding(w, d)
          BY <3>2, <4>2, <5>3 DEF Finding, Weak
        <5> QED BY <5>1, <5>4
      <4> QED BY <4>1, <4>2
    <3> HIDE DEF W
    <3> QED BY <3>1, <3>2 DEF LadderPc, w
  <2>6. CASE ParcelPass(q)
    <3> DEFINE found == ByParcels(w.rec, Excluded(w))
               W == IF found = {} THEN {[w EXCEPT !.pc = "address"]}
                    ELSE {Conclude(w, d) : d \in found}
    <3>1. Query(q, "parcel", W)
      BY <2>6 DEF ParcelPass, w
    <3>2. ASSUME NEW w1 \in W, w.pc = "parcel" PROVE Leads(w1)
      <4>1. w.pc = "parcel" => Onward(w, "address")
        BY DEF Onward
      <4>2. \A d \in found : Finding(w, d)
        BY <3>2, ParcelWeak DEF Finding, Weak
      <4> QED BY <3>2, <4>1, <4>2
    <3> HIDE DEF W
    <3> QED BY <3>1, <3>2 DEF LadderPc, w
  <2>b. ASSUME NEW d, Weak(d), NEW w1, w1 = ByFuzzy(w, d), w.pc \in {"address", "near"}
        PROVE  Leads(w1)
    <3>1. \E c : Weak(c) /\ w1 = Conclude(w, c)
      BY <2>b, NewProjectWeak DEF ByFuzzy
    <3>2. \A c : Weak(c) => Finding(w, c)
      BY <2>b DEF Finding, Weak
    <3> QED BY <3>1, <3>2
  <2>7. CASE AddressPass(q)
    <3> DEFINE found == ByAddress(w.rec)
               W == IF found = {} THEN {[w EXCEPT !.pc = "near"]} ELSE {ByFuzzy(w, d) : d \in found}
    <3>1. Query(q, "address", W)
      BY <2>7 DEF AddressPass, w
    <3>2. ASSUME NEW w1 \in W, w.pc = "address" PROVE Leads(w1)
      <4>1. Onward(w, "near")
        BY <3>2 DEF Onward
      <4>2. \A d \in found : Weak(d)
        BY FuzzyWeak
      <4> HIDE DEF found
      <4>3. \/ w1 = [w EXCEPT !.pc = "near"]
            \/ \E d \in found : w1 = ByFuzzy(w, d)
        BY <3>2
      <4> QED BY <2>b, <3>2, <4>1, <4>2, <4>3
    <3> HIDE DEF W
    <3> QED BY <3>1, <3>2 DEF LadderPc, w
  <2>8. CASE ProximityPass(q)
    <3> DEFINE found == ByProximity(w.rec)
               W == IF found = {} THEN {Conclude(w, NewProject)} ELSE {ByFuzzy(w, d) : d \in found}
    <3>1. Query(q, "near", W)
      BY <2>8 DEF ProximityPass, w
    <3>2. ASSUME NEW w1 \in W, w.pc = "near" PROVE Leads(w1)
      <4>1. Finding(w, NewProject)
        BY <3>2, NewProjectWeak DEF Finding, Weak
      <4>2. \A d \in found : Weak(d)
        BY FuzzyWeak
      <4> HIDE DEF found
      <4>3. \/ w1 = Conclude(w, NewProject)
            \/ \E d \in found : w1 = ByFuzzy(w, d)
        BY <3>2
      <4> QED BY <2>b, <3>2, <4>1, <4>2, <4>3
    <3> HIDE DEF W
    <3> QED BY <3>1, <3>2 DEF LadderPc, w
  <2> QED BY <2>3, <2>4, <2>5, <2>6, <2>7, <2>8 DEF Ladder
<1>1. At(q, x) /\ UNCHANGED <<version, graph, queue, count>>
  BY DEF Query
<1>2. PICK w1 \in W : work' = [work EXCEPT ![q] = w1]
  BY DEF Query
<1> QED BY <1>1, <1>2 DEF At

LEMMA LadderBase == ASSUME BaseInv, NEW q \in Process, Ladder(q) PROVE BaseInv'
<1> DEFINE w == work[q]
<1>1. w \in Job /\ Fine(q, w) /\ Typed
  BY DEF BaseInv, Typed
<1>2. w.pc \in LadderPc /\ w.phase # "idle" /\ UNCHANGED <<version, graph, queue, count>>
  BY LadderIs
<1>3. PICK w1 : /\ work' = [work EXCEPT ![q] = w1]
                /\ \/ w1 = Done(w)
                   \/ \E x : Onward(w, x) /\ w1 = [w EXCEPT !.pc = x]
                   \/ \E d : Finding(w, d) /\ w1 = Conclude(w, d)
  BY LadderIs
<1> HIDE DEF w
<1>4. w1 \in Job /\ Fine(q, w1)
  BY <1>1, <1>2, <1>3, DoneFine, OnwardFine, ConcludeFine DEF Finding
<1> QED BY <1>1, <1>2, <1>3, <1>4, Frame DEF graph, queue, count, told, BaseInv, Typed

--------------------------------------------------------------------------------
(* The steps that write.                                                    *)

\* What a step that writes has to show.
LEMMA Written ==
    ASSUME BaseInv, NEW q \in Process, NEW w \in Job, work' = [work EXCEPT ![q] = w], Fine(q, w)',
           work' \in [Process -> Job] => Typed', Placed', Lasts
    PROVE  BaseInv'
BY Turn DEF BaseInv

LEMMA FetchBase == ASSUME BaseInv, NEW r \in Record, Fetch(r) PROVE BaseInv'
<1>1. /\ version[r] < Len(Stage[r]) /\ version' = [version EXCEPT ![r] = @ + 1]
      /\ UNCHANGED <<graph, queue, work, verdicts, faults, told>> /\ calm' \in BOOLEAN
  BY DEF Fetch, Begin, AllIdle
<1>2. version[r] \in Nat /\ version[r] + 1 \in 0..MaxVersion /\ version[r] + 1 <= Len(Stage[r])
  BY <1>1, Numbers DEF BaseInv, Typed
<1>3. /\ version'[r] = version[r] + 1 /\ \A s \in Record : s # r => version'[s] = version[s]
      /\ version' \in [Record -> 0..MaxVersion]
  BY <1>1, <1>2 DEF BaseInv, Typed
<1>4. Typed'
  BY <1>1, <1>3 DEF BaseInv, Typed, graph, queue, told
<1>5. Lasts
  <2>1. ASSUME NEW s \in Record PROVE version[s] <= version'[s]
    <3>1. version[s] \in Nat
      BY Numbers DEF BaseInv, Typed
    <3> QED BY <1>2, <1>3, <3>1
  <2> QED BY <1>1, <2>1 DEF Lasts, Rows, There, graph, queue
<1>6. Placed'
  <2>1. Rows' = Rows
    BY <1>1 DEF Rows, graph
  <2>2. \A s \in Record : version'[s] <= Len(Stage[s]) /\ (version[s] > 0 => version'[s] > 0)
    <3> TAKE s \in Record
    <3>1. version[s] <= Len(Stage[s])
      BY DEF BaseInv, Placed
    <3> QED BY <1>2, <1>3, <3>1
  <2>3. /\ \A e \in extIds' : e.project \in Rows'
        /\ \A s \in Record : resolutions'[s] # Null => resolutions'[s].project \in Rows' /\ version'[s] > 0
    BY <1>1, <2>1, <2>2 DEF BaseInv, Placed, graph, queue
  <2>4. \A v \in Review : reviews'[v] # Null =>
          reviews'[v].candidate \in Rows' /\ version'[reviews'[v].rec] > 0
    <3> SUFFICES ASSUME NEW v \in Review, reviews[v] # Null
                 PROVE  reviews[v].candidate \in Rows /\ version'[reviews[v].rec] > 0
      BY <1>1, <2>1 DEF queue
    <3>1. reviews[v] \in ReviewRow
      BY DEF BaseInv, Typed
    <3>2. reviews[v].rec \in Record
      BY <3>1 DEF ReviewRow
    <3> QED BY <2>2, <3>2 DEF BaseInv, Placed
  <2> QED BY <2>2, <2>3, <2>4 DEF Placed
<1>7. ASSUME NEW q \in Process PROVE Fine(q, work[q])'
  <2>1. work[q] \in Job /\ Fine(q, work[q]) /\ work'[q] = work[q]
    BY <1>1 DEF BaseInv, Typed
  <2>2. \A w \in Job : Fine(q, w) => Fine(q, w)'
    BY <1>4, <1>5, StillFine DEF BaseInv
  <2> QED BY <2>1, <2>2
<1> QED BY <1>4, <1>6, <1>7 DEF BaseInv

LEMMA FreeRow == ASSUME BaseInv, Rows # Project PROVE Min(Project \ Rows) \in Project \ Rows
<1>1. Project \ Rows \in SUBSET Nat
  BY Numbers DEF Project
<1>2. Project \ Rows # {}
  BY RowsAre
<1> QED BY <1>1, <1>2, MinIn

\* What a process has when it writes a project row.
LEMMA WriteIs ==
    ASSUME BaseInv, NEW q \in Process, WriteProject(q)
    PROVE  \E p \in Project, row \in ProjectRow :
             /\ p \in Rows \/ work[q].dec.kind = "create"
             /\ projects' = [projects EXCEPT ![p] = row]
             /\ work' = [work EXCEPT ![q] = [work[q] EXCEPT !.dec = [work[q].dec EXCEPT !.project = p],
                                                            !.pc = "register"]]
<1> DEFINE w == work[q]
           p == IF w.dec.kind = "merge" THEN w.dec.project ELSE Min(Project \ Rows)
<1>1. w \in Job /\ Fine(q, w) /\ w.phase # "idle" /\ w.pc = "write"
  BY DEF BaseInv, Typed, WriteProject, At
<1>2. /\ w.rec \in Record /\ w.ver \in 1..Len(Stage[w.rec]) /\ w.dec \in Decision
      /\ \/ w.dec.kind = "create" /\ w.row = Null
         \/ w.dec.kind = "merge" /\ w.dec.project \in Rows /\ w.row \in ProjectRow
  BY <1>1 DEF Fine, Local, Pc, LadderPc
<1>3. work' = [work EXCEPT ![q] = [w EXCEPT !.dec = [w.dec EXCEPT !.project = p], !.pc = "register"]]
  BY <1>1 DEF WriteProject, After, BaseInv, Typed, Job
<1>4. Stage[w.rec][w.ver] \in Nat
  BY <1>2, Numbers
<1>5. CASE w.dec.kind = "create"
  <2>1. Rows # Project /\ projects' = [projects EXCEPT ![p] = Created(w.rec, w.ver)]
        /\ p = Min(Project \ Rows)
    BY <1>5 DEF WriteProject
  <2>2. Created(w.rec, w.ver) \in ProjectRow
    BY <1>2, <1>4 DEF Created, ProjectRow, Known
  <2> QED BY <1>3, <1>5, <2>1, <2>2, FreeRow
<1>6. CASE w.dec.kind = "merge"
  <2> DEFINE row == [Merged(w.row, w.rec, w.ver) EXCEPT !.point = projects[p].point]
  <2>1. projects' = [projects EXCEPT ![p] = row] /\ p = w.dec.project /\ p \in Rows /\ w.row \in ProjectRow
    BY <1>2, <1>6 DEF WriteProject
  <2>2. projects[p] \in ProjectRow
    BY <2>1, RowsAre DEF BaseInv, Typed
  <2>3. Merged(w.row, w.rec, w.ver) \in ProjectRow
    <3>1. w.row.parcels \cup Parcels[w.rec] \in SUBSET Known(Parcels)
      BY <1>2, <2>1 DEF ProjectRow, Known
    <3>2. LaterStage(w.row.stage, Stage[w.rec][w.ver]) \in Nat
      BY <1>4, <2>1 DEF ProjectRow, LaterStage
    <3> DEFINE a == IF w.row.address = Null THEN Address[w.rec] ELSE w.row.address
               s == LaterStage(w.row.stage, Stage[w.rec][w.ver])
    <3>3. a \in {Address[r] : r \in Record} \cup {Null}
      BY <1>2, <2>1 DEF ProjectRow
    <3>4. Merged(w.row, w.rec, w.ver) =
            [w.row EXCEPT !.parcels = w.row.parcels \cup Parcels[w.rec], !.stage = s, !.address = a]
      BY <2>1 DEF Merged, ProjectRow
    <3> HIDE DEF a, s
    <3> QED BY <2>1, <3>1, <3>2, <3>3, <3>4 DEF ProjectRow, s
  <2>4. row \in ProjectRow
    <3> DEFINE m == Merged(w.row, w.rec, w.ver)
               x == projects[p].point
    <3>1. m \in ProjectRow /\ x \in {Point[r] : r \in Record} \cup {Null}
      BY <2>2, <2>3 DEF ProjectRow
    <3> HIDE DEF m, x
    <3>2. [m EXCEPT !.point = x] \in ProjectRow
      BY <3>1 DEF ProjectRow
    <3> QED BY <3>2 DEF m, x
  <2> HIDE DEF row
  <2> QED BY <1>3, <2>1, <2>4, RowsAre
<1> QED BY <1>2, <1>5, <1>6

LEMMA ProjectsOnly ==
    ASSUME BaseInv, Rows \subseteq Rows', projects' \in [Project -> ProjectRow \cup {Null}],
           UNCHANGED <<version, reviews>>,
           \A e \in extIds' : e.project \in Rows',
           \A r \in Record : resolutions'[r] # Null => resolutions'[r].project \in Rows' /\ version[r] > 0
    PROVE  Placed' /\ Lasts
<1>1. \A v \in Review : reviews[v] # Null =>
         reviews[v].candidate \in Rows' /\ version[reviews[v].rec] > 0
  BY DEF BaseInv, Placed
<1>2. \A r \in Record : version[r] <= Len(Stage[r])
  BY DEF BaseInv, Placed
<1>3. \A r \in Record : version[r] \in Nat
  BY Numbers DEF BaseInv, Typed
<1>4. Lasts
  BY <1>3 DEF Lasts, There
<1> QED BY <1>1, <1>2, <1>4 DEF Placed

LEMMA WriteProjectBase == ASSUME BaseInv, NEW q \in Process, WriteProject(q) PROVE BaseInv'
<1>0. PICK w \in Job : w = work[q]
  BY DEF BaseInv, Typed
<1>1. PICK p \in Project, row \in ProjectRow :
             /\ p \in Rows \/ w.dec.kind = "create"
             /\ projects' = [projects EXCEPT ![p] = row]
             /\ work' = [work EXCEPT ![q] = [w EXCEPT !.dec = [w.dec EXCEPT !.project = p],
                                                            !.pc = "register"]]
  BY <1>0, WriteIs
<1>2. /\ w \in Job /\ Fine(q, w) /\ w.phase # "idle" /\ w.pc = "write"
      /\ UNCHANGED <<version, extIds, roles, events, queue, count>>
  BY <1>0 DEF BaseInv, Typed, WriteProject, At
<1>3. /\ w.rec \in Record /\ w.ver \in 1..Len(Stage[w.rec]) /\ w.dec \in Decision
      /\ version[w.rec] > 0
  BY <1>2 DEF Fine, Local, Pc, LadderPc
<1>4. /\ projects' \in [Project -> ProjectRow \cup {Null}] /\ projects'[p] = row
      /\ \A o \in Project : o # p => projects'[o] = projects[o]
  BY <1>1 DEF BaseInv, Typed
<1>5. Rows \subseteq Rows' /\ p \in Rows'
  BY <1>4, NullIsNothing DEF Rows
<1>6. Placed' /\ Lasts
  BY <1>2, <1>4, <1>5, ProjectsOnly DEF queue, BaseInv, Placed
<1> DEFINE d == [w.dec EXCEPT !.project = p]
           n == [w EXCEPT !.dec = d, !.pc = "register"]
<1>7. d \in Decision /\ d.project = p
  BY <1>3 DEF Decision
<1> HIDE DEF d
<1>8. /\ n \in Job /\ n.dec = d /\ n.pc = "register" /\ n.phase = w.phase /\ n.todo = w.todo
      /\ n.rec = w.rec /\ n.ver = w.ver /\ n.row = w.row
      /\ n.review = w.review /\ n.verdict = w.verdict
  BY <1>2, <1>7 DEF Job, Pc
<1>9. work' = [work EXCEPT ![q] = n]
  BY <1>1 DEF d
<1> HIDE DEF n
<1>10. work' \in [Process -> Job] => Typed'
  BY <1>2, <1>4 DEF queue, count, told, BaseInv, Typed
<1>11. work' \in [Process -> Job]
  BY <1>8, <1>9 DEF BaseInv, Typed
<1>12. Fine(q, n)'
  <2>1. Fine(q, w)'
    BY <1>0, <1>2, <1>6, <1>10, <1>11, StillFine DEF BaseInv
  <2>2. Listed(n)' /\ Course(q, n)'
    BY <1>2, <1>8, <2>1 DEF Fine, Listed, Course, LadderPc, Pc
  <2>3. Local(n)'
    BY <1>2, <1>3, <1>5, <1>7, <1>8, <2>1 DEF Fine, Local, queue, LadderPc, Pc
  <2> QED BY <2>2, <2>3 DEF Fine
<1> QED BY <1>6, <1>8, <1>9, <1>10, <1>12, Written

\* A process goes on to its next statement.
LEMMA Moved ==
    ASSUME BaseInv, NEW q \in Process, NEW w \in Job, w = work[q], NEW x \in Pc, Goto(q, x),
           work' \in [Process -> Job] => Typed', Placed', Lasts,
           Local([w EXCEPT !.pc = x])', Course(q, [w EXCEPT !.pc = x])
    PROVE  BaseInv'
<1> DEFINE n == [w EXCEPT !.pc = x]
<1>1. n \in Job /\ n.phase = w.phase /\ n.todo = w.todo
  BY GotoIs
<1>2. work' = [work EXCEPT ![q] = n]
  BY DEF Goto, BaseInv, Typed
<1>3. Local(n)' /\ Course(q, n)
  OBVIOUS
<1> HIDE DEF n
<1>4. work' \in [Process -> Job]
  BY <1>1, <1>2 DEF BaseInv, Typed
<1>5. Fine(q, w)'
  BY <1>4, StillFine DEF BaseInv
<1>6. Fine(q, n)'
  BY <1>1, <1>3, <1>5 DEF Fine, Listed, Course
<1> QED BY <1>1, <1>2, <1>6, Written

LEMMA RegisterIdsBase == ASSUME BaseInv, NEW q \in Process, RegisterIds(q) PROVE BaseInv'
<1>1. PICK w \in Job : w = work[q]
  BY DEF BaseInv, Typed
<1>2. Fine(q, w) /\ w.pc = "register" /\ UNCHANGED <<version, projects, roles, events, queue, count>>
  BY <1>1 DEF BaseInv, RegisterIds, At
<1>3. w.rec \in Record /\ w.dec.project \in Rows /\ version[w.rec] > 0
  BY <1>2 DEF Fine, Local, Pc
<1>4. \A e \in extIds' : e \in extIds \/ (e \in IdRow /\ e.project \in Rows)
  <2> DEFINE Row(n, t) == [authority |-> Authority[w.rec], number |-> n, type |-> t, project |-> w.dec.project]
  <2>1. \A n \in {Number[w.rec]} \cup Refs[w.rec], t \in {"primary", "reference"} :
          Row(n, t) \in IdRow /\ Row(n, t).project \in Rows
    BY <1>3, RowsAre DEF IdRow, Known
  <2>2. \A e \in extIds' : e \in extIds \/ e = Row(Number[w.rec], "primary")
                           \/ \E n \in Refs[w.rec] : e = Row(n, "reference")
    BY <1>1 DEF RegisterIds
  <2> HIDE DEF Row
  <2> QED BY <2>1, <2>2
<1>5. Rows' = Rows
  BY <1>2 DEF Rows
<1>6. work' \in [Process -> Job] => Typed'
  BY <1>2, <1>4 DEF queue, count, told, BaseInv, Typed
<1>7. Placed' /\ Lasts
  BY <1>2, <1>4, <1>5, ProjectsOnly DEF queue, BaseInv, Typed, Placed
<1>8. Goto(q, "derive") /\ "derive" \in Pc
  BY DEF RegisterIds, After, Pc
<1>9. Local([w EXCEPT !.pc = "derive"])' /\ Course(q, [w EXCEPT !.pc = "derive"])
  <2> DEFINE n == [w EXCEPT !.pc = "derive"]
  <2>1. /\ n.pc = "derive" /\ n.phase = w.phase /\ n.todo = w.todo /\ n.rec = w.rec /\ n.ver = w.ver
        /\ n.dec = w.dec /\ n.row = w.row /\ n.res = w.res /\ n.review = w.review /\ n.verdict = w.verdict
    BY <1>8, GotoIs
  <2> HIDE DEF n
  <2>2. Local(n)'
    BY <1>2, <1>3, <1>5, <2>1 DEF Fine, Local, Pc, queue, There, LadderPc
  <2>3. Course(q, n)
    BY <1>2, <2>1 DEF Fine, Course, LadderPc, Pc
  <2> QED BY <2>2, <2>3 DEF n
<1> QED BY <1>1, <1>6, <1>7, <1>8, <1>9, Moved

\* The point of a row is filled in.
LEMMA PointIs ==
    ASSUME BaseInv, NEW p \in Rows, NEW r \in Record,
           projects' = [projects EXCEPT ![p].point = IF @ = Null THEN Point[r] ELSE @]
    PROVE  /\ projects' \in [Project -> ProjectRow \cup {Null}]
           /\ Rows' = Rows
<1> DEFINE x == IF projects[p].point = Null THEN Point[r] ELSE projects[p].point
<1>1. projects[p] \in ProjectRow /\ p \in Project
  BY RowsAre DEF BaseInv, Typed
<1>2. x \in {Point[s] : s \in Record} \cup {Null}
  BY <1>1 DEF ProjectRow
<1>3. projects' = [projects EXCEPT ![p] = [projects[p] EXCEPT !.point = x]]
  BY <1>1 DEF BaseInv, Typed, ProjectRow
<1> HIDE DEF x
<1>4. [projects[p] EXCEPT !.point = x] \in ProjectRow
  BY <1>1, <1>2 DEF ProjectRow
<1> DEFINE row == [projects[p] EXCEPT !.point = x]
<1>5. row \in ProjectRow /\ row # Null
  BY <1>4, NullIsNothing
<1> HIDE DEF row
<1>6. projects' \in [Project -> ProjectRow \cup {Null}]
  BY <1>1, <1>3, <1>5 DEF BaseInv, Typed, row
<1>7. projects'[p] = row /\ \A o \in Project : o # p => projects'[o] = projects[o]
  BY <1>1, <1>3 DEF BaseInv, Typed, row
<1> QED BY <1>5, <1>6, <1>7 DEF Rows

LEMMA DeriveBase == ASSUME BaseInv, NEW q \in Process, Derive(q) PROVE BaseInv'
<1>1. PICK w \in Job : w = work[q]
  BY DEF BaseInv, Typed
<1>2. Fine(q, w) /\ w.pc = "derive" /\ UNCHANGED <<version, extIds, queue, count>>
  BY <1>1 DEF BaseInv, Derive, At
<1>3. /\ w.rec \in Record /\ w.dec.project \in Rows /\ version[w.rec] > 0
      /\ w.ver \in 1..Len(Stage[w.rec]) /\ w.dec.project \in Project
  BY <1>2, RowsAre DEF Fine, Local, Pc
<1> DEFINE p == w.dec.project
<1>4. roles' \subseteq Role
  <2>1. roles' = roles \cup {<<p, o, w.rec>> : o \in Orgs[w.rec] \ OrgsOf(p)}
    BY <1>1 DEF Derive
  <2>2. \A o \in Orgs[w.rec] : <<p, o, w.rec>> \in Role
    BY <1>3 DEF Role, Known
  <2> QED BY <2>1, <2>2 DEF BaseInv, Typed
<1>5. events' \subseteq Event
  <2> DEFINE reached == IF w.row = Null THEN Stage[w.rec][w.ver]
                        ELSE LaterStage(w.row.stage, Stage[w.rec][w.ver])
             advanced == w.row = Null \/ reached # w.row.stage
             seen == IF w.phase = "update" THEN w.ver ELSE 1
             stage == IF advanced THEN reached ELSE 0
             event == [project |-> p, rec |-> w.rec, seen |-> seen, stage |-> stage]
  <2>1. events' = events \/ events' = events \cup {event}
    BY <1>1 DEF Derive
  <2>2. Stage[w.rec][w.ver] \in Nat /\ w.ver \in 1..MaxVersion
    BY <1>3, Numbers
  <2>3. reached \in Nat
    <3>1. w.row = Null \/ w.row.stage \in Nat
      BY DEF Job, ProjectRow
    <3> QED BY <2>2, <3>1 DEF LaterStage
  <2> HIDE DEF reached
  <2>4. seen \in 1..MaxVersion /\ stage \in Nat
    <3>1. 1 \in 1..MaxVersion
      BY <2>2, Numbers
    <3> QED BY <2>2, <2>3, <3>1
  <2> HIDE DEF seen, stage
  <2>5. event \in Event
    BY <1>3, <2>4 DEF Event
  <2> HIDE DEF event
  <2> QED BY <2>1, <2>5 DEF BaseInv, Typed
<1>6. projects' = [projects EXCEPT ![p].point = IF @ = Null THEN Point[w.rec] ELSE @]
  BY <1>1 DEF Derive
<1>7. projects' \in [Project -> ProjectRow \cup {Null}] /\ Rows' = Rows
  BY <1>3, <1>6, PointIs
<1>8. work' \in [Process -> Job] => Typed'
  BY <1>2, <1>4, <1>5, <1>7 DEF queue, count, told, BaseInv, Typed
<1>9. Placed' /\ Lasts
  BY <1>2, <1>7, ProjectsOnly DEF queue, BaseInv, Placed
<1> DEFINE x == IF w.phase = "update" THEN "stamp" ELSE "insert"
<1>10. Goto(q, x)
  BY <1>1 DEF Derive, After
<1>11. x \in Pc /\ x \in {"stamp", "insert"} /\ (x = "stamp" <=> w.phase = "update")
  BY DEF Pc
<1> HIDE DEF x
<1>12. Local([w EXCEPT !.pc = x])' /\ Course(q, [w EXCEPT !.pc = x])
  <2> DEFINE n == [w EXCEPT !.pc = x]
  <2>1. /\ n.pc = x /\ n.phase = w.phase /\ n.todo = w.todo /\ n.rec = w.rec /\ n.ver = w.ver
        /\ n.dec = w.dec /\ n.row = w.row /\ n.res = w.res /\ n.review = w.review /\ n.verdict = w.verdict
    BY <1>11, GotoIs
  <2> HIDE DEF n
  <2>2. Local(n)'
    BY <1>2, <1>3, <1>7, <1>11, <2>1 DEF Fine, Local, Pc, queue, There, LadderPc
  <2>3. Course(q, n)
    BY <1>2, <1>11, <2>1 DEF Fine, Course, LadderPc, Pc
  <2> QED BY <2>2, <2>3 DEF n
<1> QED BY <1>1, <1>8, <1>9, <1>10, <1>11, <1>12, Moved

\* A process leaves its row.
LEMMA Returned ==
    ASSUME BaseInv, NEW q \in Process, NEW w \in Job, w = work[q], w.phase # "idle", Return(q),
           work' \in [Process -> Job] => Typed', Placed', Lasts
    PROVE  BaseInv'
<1>1. Done(w) \in Job /\ Fine(q, Done(w))
  BY DoneFine DEF BaseInv
<1>2. PICK n \in Job : n = Done(w)
  BY <1>1
<1>3. work' = [work EXCEPT ![q] = n]
  BY <1>2 DEF Return
<1>4. work' \in [Process -> Job]
  BY <1>3 DEF BaseInv, Typed
<1>5. Fine(q, n)'
  BY <1>1, <1>2, <1>4, StillFine DEF BaseInv
<1> QED BY <1>3, <1>5, Written

\* The reviews change; the rows of the others stay.
LEMMA ReviewsOnly ==
    ASSUME BaseInv, UNCHANGED <<version, graph, resolutions>>,
           \A v \in Review :
              \/ reviews'[v] = reviews[v]
              \/ /\ reviews'[v] \in ReviewRow
                 /\ reviews'[v].candidate \in Rows /\ version[reviews'[v].rec] > 0
                 /\ reviews[v] # Null => reviews'[v].rec = reviews[v].rec
    PROVE  Placed' /\ Lasts
<1>1. Rows' = Rows
  BY DEF Rows, graph
<1>2. \A v \in Review : reviews[v] # Null => reviews'[v] # Null /\ reviews'[v].rec = reviews[v].rec
  BY NullIsNothing
<1>3. \A r \in Record : version[r] <= version[r]
  BY Numbers DEF BaseInv, Typed
<1>4. Lasts
  BY <1>1, <1>2, <1>3 DEF Lasts, There
<1>5. \A v \in Review : reviews'[v] # Null =>
         reviews'[v].candidate \in Rows /\ version[reviews'[v].rec] > 0
  BY DEF BaseInv, Placed
<1> QED BY <1>1, <1>4, <1>5 DEF BaseInv, Placed, graph

\* The resolutions change.
LEMMA ResolutionsOnly ==
    ASSUME BaseInv, UNCHANGED <<version, graph, reviews>>,
           \A r \in Record : resolutions'[r] # Null => resolutions'[r].project \in Rows /\ version[r] > 0
    PROVE  Placed' /\ Lasts
<1>1. Rows' = Rows
  BY DEF Rows, graph
<1> QED BY <1>1, ProjectsOnly DEF graph, BaseInv, Placed, Typed

LEMMA InsertResolutionBase == ASSUME BaseInv, NEW q \in Process, InsertResolution(q) PROVE BaseInv'
<1>1. PICK w \in Job : w = work[q]
  BY DEF BaseInv, Typed
<1>2. Fine(q, w) /\ w.phase # "idle" /\ w.pc = "insert" /\ UNCHANGED <<version, graph, reviews, count>>
  BY <1>1 DEF BaseInv, InsertResolution, At
<1>3. w.rec \in Record /\ w.dec.project \in Rows /\ version[w.rec] > 0
  BY <1>2 DEF Fine, Local, Pc
<1>4. CASE resolutions[w.rec] # Null
  <2>1. Return(q) /\ UNCHANGED resolutions
    BY <1>1, <1>4 DEF InsertResolution
  <2> QED BY <1>1, <1>2, <2>1, ReturnBase DEF graph, count, told, BaseInv, Typed
<1>5. CASE resolutions[w.rec] = Null
  <2> DEFINE ver == IF w.verdict = "merge" THEN 0 ELSE version[w.rec]
             row == [project |-> w.dec.project, id |-> verdicts, ver |-> ver]
  <2>1. resolutions' = [resolutions EXCEPT ![w.rec] = row]
    BY <1>1, <1>5 DEF InsertResolution
  <2>2. ver \in 0..MaxVersion
    BY <1>3, Numbers DEF BaseInv, Typed
  <2> HIDE DEF ver
  <2>3. row \in Resolved /\ row.project = w.dec.project
    BY <1>3, <2>2, RowsAre DEF Resolved, BaseInv, Typed
  <2> HIDE DEF row
  <2>4. /\ resolutions' \in [Record -> Resolved \cup {Null}]
        /\ \A r \in Record : resolutions'[r] = resolutions[r] \/ (r = w.rec /\ resolutions'[r] = row)
    BY <1>3, <2>1, <2>3 DEF BaseInv, Typed
  <2>5. Placed' /\ Lasts
    BY <1>2, <1>3, <2>3, <2>4, ResolutionsOnly DEF BaseInv, Placed
  <2>6. work' \in [Process -> Job] => Typed'
    BY <1>2, <2>4 DEF graph, count, told, BaseInv, Typed
  <2>7. CASE w.verdict = "merge"
    <3>1. Goto(q, "mark") /\ "mark" \in Pc
      BY <1>1, <1>5, <2>7 DEF InsertResolution, Pc
    <3>2. w.phase \in {"reevaluate", "decide"}
      BY <1>2, <2>7, NullIsNothing DEF Fine, Course, Job, Phase
    <3> DEFINE n == [w EXCEPT !.pc = "mark"]
    <3>3. /\ n.pc = "mark" /\ n.phase = w.phase /\ n.todo = w.todo /\ n.rec = w.rec /\ n.ver = w.ver
          /\ n.dec = w.dec /\ n.row = w.row /\ n.res = w.res /\ n.review = w.review /\ n.verdict = w.verdict
      BY <3>1, GotoIs
    <3> HIDE DEF n
    <3>4. Rows' = Rows /\ \A v : There(v) => There(v)' /\ reviews'[v].rec = reviews[v].rec
      BY <1>2, <2>5 DEF Lasts, Rows, graph
    <3>5. Local(n)'
      BY <1>2, <1>3, <2>7, <3>3, <3>4 DEF Fine, Local, Pc, LadderPc
    <3>6. Course(q, n)
      BY <1>2, <2>7, <3>2, <3>3 DEF Fine, Course, LadderPc, Pc
    <3> QED BY <1>1, <2>5, <2>6, <3>1, <3>5, <3>6, Moved DEF n
  <2>8. CASE w.verdict # "merge"
    <3>1. Return(q)
      BY <1>1, <1>5, <2>8 DEF InsertResolution
    <3> QED BY <1>1, <1>2, <2>5, <2>6, <3>1, Returned
  <2> QED BY <2>7, <2>8
<1> QED BY <1>4, <1>5

LEMMA ParkBase == ASSUME BaseInv, NEW q \in Process, Park(q) PROVE BaseInv'
<1>1. PICK w \in Job : w = work[q]
  BY DEF BaseInv, Typed
<1>2. /\ Fine(q, w) /\ w.phase # "idle" /\ w.pc = "park" /\ Return(q)
      /\ UNCHANGED <<version, graph, resolutions, count>>
  BY <1>1 DEF BaseInv, Park, At
<1>3. /\ w.rec \in Record /\ w.dec \in Decision /\ w.dec.project \in Rows
      /\ version[w.rec] > 0
  BY <1>2 DEF Fine, Local, Pc, LadderPc
<1> DEFINE free == {v \in Review : reviews[v] = Null}
           row  == [rec |-> w.rec, candidate |-> w.dec.project, rule |-> w.dec.rule, status |-> "pending"]
<1>4. free # {} /\ reviews' = [reviews EXCEPT ![Min(free)] = row]
  BY <1>1 DEF Park
<1>5. Min(free) \in Review /\ reviews[Min(free)] = Null
  <2>1. free \in SUBSET Nat
    BY Numbers DEF Review
  <2> QED BY <1>4, <2>1, MinIn
<1>6. row \in ReviewRow /\ row.rec = w.rec /\ row.candidate = w.dec.project
  BY <1>3, RowsAre DEF ReviewRow, Decision
<1> HIDE DEF row
<1>7. /\ reviews' \in [Review -> ReviewRow \cup {Null}]
      /\ \A v \in Review : reviews'[v] = reviews[v] \/ (reviews'[v] = row /\ reviews[v] = Null)
  BY <1>4, <1>5, <1>6 DEF BaseInv, Typed
<1>8. Placed' /\ Lasts
  BY <1>2, <1>3, <1>6, <1>7, ReviewsOnly
<1>9. work' \in [Process -> Job] => Typed'
  BY <1>2, <1>7 DEF graph, count, told, BaseInv, Typed
<1> QED BY <1>1, <1>2, <1>8, <1>9, Returned

\* A review gets its outcome.
LEMMA OutcomeIs ==
    ASSUME BaseInv, NEW v \in Review, reviews[v] # Null, NEW status \in {"merged", "rejected"},
           reviews' = [reviews EXCEPT ![v].status = status]
    PROVE  /\ reviews' \in [Review -> ReviewRow \cup {Null}]
           /\ reviews'[v] = [reviews[v] EXCEPT !.status = status]
           /\ \A u \in Review : u # v => reviews'[u] = reviews[u]
           /\ reviews'[v] \in ReviewRow /\ reviews'[v].rec = reviews[v].rec /\ reviews'[v].status = status
           /\ reviews'[v].candidate = reviews[v].candidate
<1> DEFINE row == [reviews[v] EXCEPT !.status = status]
<1>1. reviews[v] \in ReviewRow /\ reviews' = [reviews EXCEPT ![v] = row]
  BY DEF BaseInv, Typed
<1>2. row \in ReviewRow /\ row.rec = reviews[v].rec /\ row.status = status /\ row.candidate = reviews[v].candidate
  BY <1>1 DEF ReviewRow
<1> HIDE DEF row
<1>3. reviews'[v] = row /\ \A u \in Review : u # v => reviews'[u] = reviews[u]
  BY <1>1 DEF BaseInv, Typed
<1>4. reviews' \in [Review -> ReviewRow \cup {Null}]
  BY <1>1, <1>2 DEF BaseInv, Typed
<1> QED BY <1>2, <1>3, <1>4 DEF row

LEMMA OutcomeLasts ==
    ASSUME BaseInv, NEW v \in Review, reviews[v] # Null, NEW status \in {"merged", "rejected"},
           reviews' = [reviews EXCEPT ![v].status = status], UNCHANGED <<version, graph, resolutions>>
    PROVE  Placed' /\ Lasts
<1>1. /\ \A u \in Review : u # v => reviews'[u] = reviews[u]
      /\ reviews'[v] \in ReviewRow /\ reviews'[v].rec = reviews[v].rec
      /\ reviews'[v].candidate = reviews[v].candidate
  BY OutcomeIs
<1>2. reviews[v].candidate \in Rows /\ version[reviews[v].rec] > 0
  BY DEF BaseInv, Placed
<1> QED BY <1>1, <1>2, ReviewsOnly

LEMMA MarkMergedBase == ASSUME BaseInv, NEW q \in Process, MarkMerged(q) PROVE BaseInv'
<1>1. PICK w \in Job : w = work[q]
  BY DEF BaseInv, Typed
<1>2. /\ Fine(q, w) /\ w.phase # "idle" /\ w.pc = "mark" /\ Return(q)
      /\ UNCHANGED <<version, graph, resolutions, verdicts, faults, refused, undone, calm>>
      /\ reviews' = [reviews EXCEPT ![w.review].status = "merged"] /\ crossed' \in BOOLEAN
  BY <1>1 DEF BaseInv, Typed, MarkMerged, At
<1>3. w.review \in Review /\ reviews[w.review] # Null
  BY <1>2 DEF Fine, Local, There
<1>4. reviews' \in [Review -> ReviewRow \cup {Null}] /\ Placed' /\ Lasts
  BY <1>2, <1>3, OutcomeIs, OutcomeLasts
<1>5. work' \in [Process -> Job] => Typed'
  BY <1>2, <1>4 DEF graph, count, told, BaseInv, Typed
<1> QED BY <1>1, <1>2, <1>4, <1>5, Returned

LEMMA MarkRejectedBase == ASSUME BaseInv, NEW q \in Process, MarkRejected(q) PROVE BaseInv'
<1>1. PICK w \in Job : w = work[q]
  BY DEF BaseInv, Typed
<1>2. /\ Fine(q, w) /\ w.phase # "idle" /\ w.pc = "reject" /\ Goto(q, "official") /\ "official" \in Pc
      /\ UNCHANGED <<version, graph, resolutions, verdicts, faults, crossed, undone, calm>>
      /\ reviews' = [reviews EXCEPT ![w.review].status = "rejected"] /\ refused' \in BOOLEAN
  BY <1>1 DEF BaseInv, Typed, MarkRejected, At, Pc
<1>3. w.review \in Review /\ reviews[w.review] # Null
  BY <1>2 DEF Fine, Local, There
<1>4. reviews' \in [Review -> ReviewRow \cup {Null}] /\ Placed' /\ Lasts
  BY <1>2, <1>3, OutcomeIs, OutcomeLasts
<1>5. work' \in [Process -> Job] => Typed'
  BY <1>2, <1>4 DEF graph, BaseInv, Typed
<1>6. Local([w EXCEPT !.pc = "official"])' /\ Course(q, [w EXCEPT !.pc = "official"])
  <2> DEFINE n == [w EXCEPT !.pc = "official"]
  <2>1. /\ n.pc = "official" /\ n.phase = w.phase /\ n.todo = w.todo /\ n.rec = w.rec /\ n.ver = w.ver
        /\ n.dec = w.dec /\ n.row = w.row /\ n.res = w.res /\ n.review = w.review /\ n.verdict = w.verdict
    BY <1>2, GotoIs
  <2> HIDE DEF n
  <2>2. Rows' = Rows /\ \A v : There(v) => There(v)' /\ reviews'[v].rec = reviews[v].rec
    BY <1>2, <1>4 DEF Lasts, Rows, graph
  <2>3. Local(n)'
    BY <1>2, <2>1, <2>2 DEF Fine, Local, Course, Pc
  <2>4. Course(q, n)
    BY <1>2, <2>1 DEF Fine, Course
  <2> QED BY <2>3, <2>4 DEF n
<1> QED BY <1>1, <1>2, <1>4, <1>5, <1>6, Moved

LEMMA AdvanceStageBase == ASSUME BaseInv, AdvanceStage PROVE BaseInv'
<1>1. PICK w \in Job : w = work["chain"]
  BY DEF BaseInv, Typed, Process
<1>2. /\ Fine("chain", w) /\ w.pc = "advance" /\ Goto("chain", "derive") /\ "derive" \in Pc
      /\ "chain" \in Process /\ UNCHANGED <<version, extIds, roles, events, queue, count>>
  BY <1>1 DEF BaseInv, AdvanceStage, At, Pc, Process
<1>3. /\ w.rec \in Record /\ w.ver \in 1..Len(Stage[w.rec]) /\ w.dec.project \in Rows
      /\ w.row \in ProjectRow /\ w.phase = "update"
  BY <1>2 DEF Fine, Local, Course, Pc
<1> DEFINE reached == LaterStage(w.row.stage, Stage[w.rec][w.ver])
           p == w.dec.project
<1>4. reached \in Nat
  <2>1. w.row.stage \in Nat /\ Stage[w.rec][w.ver] \in Nat
    BY <1>3, Numbers DEF ProjectRow
  <2> QED BY <2>1 DEF LaterStage
<1>5. projects' = projects \/ projects' = [projects EXCEPT ![p].stage = reached]
  BY <1>1 DEF AdvanceStage
<1> HIDE DEF reached
<1>6. projects' \in [Project -> ProjectRow \cup {Null}] /\ Rows' = Rows
  <2>1. projects[p] \in ProjectRow /\ p \in Project
    BY <1>3, RowsAre DEF BaseInv, Typed
  <2> DEFINE row == [projects[p] EXCEPT !.stage = reached]
  <2>2. row \in ProjectRow /\ row # Null
    BY <1>4, <2>1, NullIsNothing DEF ProjectRow
  <2>3. projects' = projects \/ projects' = [projects EXCEPT ![p] = row]
    BY <1>5, <2>1 DEF BaseInv, Typed
  <2> HIDE DEF row
  <2>4. projects' \in [Project -> ProjectRow \cup {Null}]
    BY <2>2, <2>3 DEF BaseInv, Typed
  <2>5. \A o \in Project : projects'[o] = projects[o] \/ (o = p /\ projects'[o] = row)
    BY <2>1, <2>3 DEF BaseInv, Typed
  <2>6. \A o \in Project : projects'[o] # Null <=> projects[o] # Null
    BY <2>1, <2>2, <2>5, NullIsNothing
  <2> QED BY <2>4, <2>6 DEF Rows
<1>7. work' \in [Process -> Job] => Typed'
  BY <1>2, <1>6 DEF queue, count, told, BaseInv, Typed
<1>8. Placed' /\ Lasts
  BY <1>2, <1>6, ProjectsOnly DEF queue, BaseInv, Placed
<1>9. Local([w EXCEPT !.pc = "derive"])' /\ Course("chain", [w EXCEPT !.pc = "derive"])
  <2> DEFINE n == [w EXCEPT !.pc = "derive"]
  <2>1. /\ n.pc = "derive" /\ n.phase = w.phase /\ n.todo = w.todo /\ n.rec = w.rec /\ n.ver = w.ver
        /\ n.dec = w.dec /\ n.row = w.row /\ n.res = w.res /\ n.review = w.review /\ n.verdict = w.verdict
    BY <1>2, GotoIs
  <2> HIDE DEF n
  <2>2. Course("chain", n)
    BY <1>2, <1>3, <2>1 DEF Fine, Course, LadderPc, Pc
  <2>3. version[w.rec] > 0 /\ w.verdict # "merge"
    BY <1>2, <1>3, NullIsNothing DEF Fine, Local, Course
  <2>4. Local(n)'
    BY <1>2, <1>3, <1>6, <2>1, <2>3 DEF Fine, Local, Pc, LadderPc
  <2> QED BY <2>2, <2>4 DEF n
<1> QED BY <1>1, <1>2, <1>7, <1>8, <1>9, Moved

LEMMA StampProcessedBase == ASSUME BaseInv, StampProcessed PROVE BaseInv'
<1>1. PICK w \in Job : w = work["chain"]
  BY DEF BaseInv, Typed, Process
<1>2. /\ Fine("chain", w) /\ w.phase # "idle" /\ w.pc = "stamp" /\ Return("chain") /\ "chain" \in Process
      /\ UNCHANGED <<version, graph, reviews, count>>
  BY <1>1 DEF BaseInv, StampProcessed, At, Process
<1>3. w.rec \in Record /\ w.ver \in 0..MaxVersion
  BY <1>2 DEF Fine, Local, Pc, Job
<1>4. \/ resolutions' = resolutions
      \/ resolutions[w.rec] # Null /\ resolutions' = [resolutions EXCEPT ![w.rec].ver = w.ver]
  BY <1>1 DEF StampProcessed
<1>5. /\ resolutions' \in [Record -> Resolved \cup {Null}]
      /\ \A r \in Record : resolutions'[r] # Null =>
           resolutions[r] # Null /\ resolutions'[r].project = resolutions[r].project
  <2>1. CASE resolutions' = resolutions
    BY <2>1 DEF BaseInv, Typed
  <2>2. CASE resolutions[w.rec] # Null /\ resolutions' = [resolutions EXCEPT ![w.rec].ver = w.ver]
    <3> DEFINE row == [resolutions[w.rec] EXCEPT !.ver = w.ver]
    <3>1. resolutions[w.rec] \in Resolved
      BY <1>3, <2>2 DEF BaseInv, Typed
    <3>2. row \in Resolved /\ row.project = resolutions[w.rec].project
      BY <1>3, <3>1 DEF Resolved
    <3>3. resolutions' = [resolutions EXCEPT ![w.rec] = row]
      BY <1>3, <2>2 DEF BaseInv, Typed
    <3> HIDE DEF row
    <3>4. \A r \in Record : resolutions'[r] = IF r = w.rec THEN row ELSE resolutions[r]
      BY <1>3, <3>3 DEF BaseInv, Typed
    <3>5. resolutions' \in [Record -> Resolved \cup {Null}]
      BY <1>3, <3>2, <3>3 DEF BaseInv, Typed
    <3> QED BY <2>2, <3>2, <3>4, <3>5
  <2> QED BY <1>4, <2>1, <2>2
<1>6. Placed' /\ Lasts
  BY <1>2, <1>5, ResolutionsOnly DEF BaseInv, Placed
<1>7. work' \in [Process -> Job] => Typed'
  BY <1>2, <1>5 DEF graph, count, told, BaseInv, Typed
<1> QED BY <1>1, <1>2, <1>6, <1>7, Returned

LEMMA UndoDerivedBase == ASSUME BaseInv, UndoDerived PROVE BaseInv'
<1>1. PICK w \in Job : w = work["operator"]
  BY DEF BaseInv, Typed, Process
<1>2. /\ Fine("operator", w) /\ w.phase # "idle" /\ w.pc = "undo" /\ Goto("operator", "unmark")
      /\ "operator" \in Process /\ "unmark" \in Pc
      /\ UNCHANGED <<version, projects, extIds, queue, count>>
      /\ events' \subseteq events /\ roles' \subseteq roles
  BY <1>1 DEF BaseInv, UndoDerived, At, Process, Pc
<1>3. work' \in [Process -> Job] => Typed'
  BY <1>2 DEF queue, count, told, BaseInv, Typed
<1>4. Rows' = Rows
  BY <1>2 DEF Rows
<1>5. Placed' /\ Lasts
  BY <1>2, <1>4, ProjectsOnly DEF queue, BaseInv, Placed, Typed
<1>6. Local([w EXCEPT !.pc = "unmark"])' /\ Course("operator", [w EXCEPT !.pc = "unmark"])
  <2> DEFINE n == [w EXCEPT !.pc = "unmark"]
  <2>1. /\ n.pc = "unmark" /\ n.phase = w.phase /\ n.todo = w.todo /\ n.rec = w.rec /\ n.ver = w.ver
        /\ n.dec = w.dec /\ n.row = w.row /\ n.res = w.res /\ n.review = w.review /\ n.verdict = w.verdict
    BY <1>2, GotoIs
  <2> HIDE DEF n
  <2>2. Course("operator", n)
    BY <1>2, <2>1 DEF Fine, Course, LadderPc, Pc
  <2>3. w.rec \in Record /\ w.res \in Resolved /\ w.verdict # "merge"
    BY <1>2, NullIsNothing DEF Fine, Local, Course
  <2>4. Local(n)'
    BY <2>1, <2>3 DEF Local, Pc, LadderPc
  <2> QED BY <2>2, <2>4 DEF n
<1> QED BY <1>1, <1>2, <1>3, <1>5, <1>6, Moved

LEMMA MarkUndoneBase == ASSUME BaseInv, MarkUndone PROVE BaseInv'
<1>1. PICK w \in Job : w = work["operator"]
  BY DEF BaseInv, Typed, Process
<1>2. /\ Fine("operator", w) /\ w.phase # "idle" /\ w.pc = "unmark" /\ Return("operator")
      /\ "operator" \in Process /\ w.rec \in Record
      /\ UNCHANGED <<version, graph, reviews, verdicts, faults, refused, crossed, calm>>
  BY <1>1 DEF BaseInv, MarkUndone, At, Process, Fine, Local
<1>3. /\ resolutions' = resolutions \/ resolutions' = [resolutions EXCEPT ![w.rec] = Null]
      /\ undone' \in {undone, undone \cup {w.rec}}
  BY <1>1 DEF MarkUndone
<1>4. /\ resolutions' \in [Record -> Resolved \cup {Null}]
      /\ \A r \in Record : resolutions'[r] # Null => resolutions'[r] = resolutions[r]
  BY <1>3 DEF BaseInv, Typed
<1>5. Placed' /\ Lasts
  BY <1>2, <1>4, ResolutionsOnly DEF BaseInv, Placed
<1>6. work' \in [Process -> Job] => Typed'
  BY <1>2, <1>3, <1>4 DEF graph, BaseInv, Typed
<1> QED BY <1>1, <1>2, <1>5, <1>6, Returned

LEMMA BaseNext == ASSUME BaseInv, [ResolutionNext]_resolutionVars PROVE BaseInv'
<1>1. CASE UNCHANGED resolutionVars
  <2>1. /\ UNCHANGED <<version, projects, extIds, roles, events, resolutions, reviews, work,
                       verdicts, faults, refused, crossed, undone, calm>>
    BY <1>1 DEF resolutionVars
  <2>2. Typed' /\ Placed'
    BY <2>1 DEF BaseInv, Typed, Placed, Rows
  <2>3. Lasts
    BY <2>1, Numbers DEF Lasts, Rows, There, BaseInv, Typed
  <2>4. ASSUME NEW q \in Process PROVE Fine(q, work[q])'
    <3>1. PICK w \in Job : w = work[q]
      BY DEF BaseInv, Typed
    <3>2. Fine(q, w)'
      BY <2>2, <2>3, <3>1, StillFine DEF BaseInv
    <3> QED BY <2>1, <3>1, <3>2
  <2> QED BY <2>2, <2>4 DEF BaseInv
<1>2. ASSUME NEW q \in Process, Statement(q) PROVE BaseInv'
  BY <1>2, ReadProjectBase, WriteProjectBase, RegisterIdsBase, DeriveBase, InsertResolutionBase, ParkBase,
     CheckPendingBase, MarkMergedBase, MarkRejectedBase, LadderBase DEF Statement
<1>3. CASE ChainStep
  BY <1>2, <1>3, StartChainBase, NextLoopBase, TakeRecordBase, TakeUpdateBase, TakeReviewBase, AdvanceStageBase,
     StampProcessedBase DEF ChainStep, Process
<1>4. CASE ReviewerStep
  BY <1>2, <1>4, TakeDecisionBase DEF ReviewerStep, Process
<1>5. CASE OperatorStep
  BY <1>5, UndoDerivedBase, MarkUndoneBase DEF OperatorStep
<1>6. CASE \E v \in Pending, verdict \in {"merge", "reject"} :
             Request({v}, verdict) \/ Request(Cluster(v), verdict)
  <2>1. PICK v \in Pending, verdict \in {"merge", "reject"} :
             Request({v}, verdict) \/ Request(Cluster(v), verdict)
    BY <1>6
  <2>2. {v} \in SUBSET Pending /\ {v} # {} /\ Cluster(v) \in SUBSET Pending /\ Cluster(v) # {}
    BY DEF Cluster
  <2> QED BY <2>1, <2>2, RequestBase
<1> QED BY <1>1, <1>3, <1>4, <1>5, <1>6, FetchBase, RequestUndoBase, FaultBase, CrashBase DEF ResolutionNext

\* What a process carries exists and is in order: a project it writes to has its row, its decision is
\* one the ladder makes of its record, its phase allows its next statement; whoever else is at work.
THEOREM BaseInvariant == ResolutionSpec => []BaseInv
<1>1. ResolutionInit => BaseInv
  BY BaseInit
<1>2. BaseInv /\ [ResolutionNext]_resolutionVars => BaseInv'
  BY BaseNext
<1> QED BY <1>1, <1>2, PTL DEF ResolutionSpec

\* Every row and every local of a process has its type (TypeOK), whatever the steps, the
\* faults and the decisions (resolver.ts:303-409, 499-544, 699-1022, review.ts:94-205).
THEOREM TypeCorrect == ResolutionSpec => []ResolutionTypeOK
BY BaseInvariant, TypesOK, PTL

--------------------------------------------------------------------------------
(* What each step does to the locals of the process that takes it.          *)

Busy(q)   == work[q].phase # "idle"
Others(q) == \A p \in Process : p # q => work'[p] = work[p]
Ended(q)  == work'[q] = Done(work[q])

\* The process goes on with the same row.
Keeps(q) ==
    /\ work'[q].phase = work[q].phase /\ work'[q].todo = work[q].todo /\ work'[q].rec = work[q].rec
    /\ work'[q].dec = work[q].dec /\ work'[q].res = work[q].res /\ work'[q].review = work[q].review
    /\ work'[q].verdict = work[q].verdict /\ work'[q].ver = work[q].ver

LEMMA DoneIs ==
    ASSUME NEW w \in Job
    PROVE  /\ Done(w).pc = "take" /\ Done(w).rec = Null /\ Done(w).dec = Null
           /\ \/ Done(w).phase = "idle" /\ Done(w).todo = {}
              \/ Done(w).phase = w.phase /\ Done(w).todo = w.todo
           /\ w.phase # "decide" => Done(w).verdict = Null
           /\ w.phase \in {"resolve", "update", "reevaluate"} => Done(w).phase = w.phase
<1>1. CASE w.phase = "undo" \/ (w.phase = "decide" /\ w.todo = {})
  BY <1>1 DEF Done, Idle
<1>2. CASE ~(w.phase = "undo" \/ (w.phase = "decide" /\ w.todo = {}))
  <2> DEFINE verdict == IF w.phase = "decide" THEN w.verdict ELSE Null
  <2>1. Done(w) = [Idle EXCEPT !.phase = w.phase, !.todo = w.todo, !.verdict = verdict]
    BY <1>2 DEF Done
  <2>2. w.phase # "decide" => verdict = Null
    OBVIOUS
  <2> HIDE DEF verdict
  <2> QED BY <2>1, <2>2 DEF Idle
<1> QED BY <1>1, <1>2

LEMMA ActOnIs ==
    ASSUME NEW w \in Job, NEW d, Sane(d)
    PROVE  /\ ActOn(w, d).rec = w.rec /\ ActOn(w, d).ver = w.ver /\ ActOn(w, d).dec = d
           /\ ActOn(w, d).phase = w.phase /\ ActOn(w, d).todo = w.todo
           /\ ActOn(w, d).review = w.review /\ ActOn(w, d).verdict = w.verdict
           /\ \/ d.kind = "merge" /\ ActOn(w, d).pc = "read"
              \/ d.kind = "create" /\ ActOn(w, d).pc = "write"
              \/ d.kind = "review" /\ ActOn(w, d).pc = "park"
<1> DEFINE k == CASE d.kind = "merge"  -> "read"
                  [] d.kind = "create" -> "write"
                  [] d.kind = "review" -> "park"
<1>1. ActOn(w, d) = [w EXCEPT !.dec = d, !.pc = k]
  BY DEF ActOn
<1>2. \/ d.kind = "merge" /\ k = "read"
      \/ d.kind = "create" /\ k = "write"
      \/ d.kind = "review" /\ k = "park"
  BY DEF Sane, Decision
<1> HIDE DEF k
<1> QED BY <1>1, <1>2 DEF Job

\* What a query of the ladder makes of the work: it ends, goes on to the next pass, turns a
\* preview into a verdict, or leaves the ladder with a decision.
Passes(q)  == Keeps(q) /\ \E x : Onward(work[q], x) /\ work'[q].pc = x
Settled(q) ==
    /\ Previewing(work[q]) /\ work'[q].pc = "check" /\ work'[q].verdict \in {"merge", "reject"}
    /\ work'[q].phase = work[q].phase /\ work'[q].todo = work[q].todo /\ work'[q].review = work[q].review
    /\ work'[q].rec = work[q].rec /\ work'[q].dec = work[q].dec
    /\ \E d : /\ Finding(work[q], d) /\ d.kind = "merge" /\ d.rule \in StrongRule
              /\ work'[q].verdict = IF d.project = reviews[work[q].review].candidate
                                      THEN "merge" ELSE "reject"
Leaves(q, d) ==
    /\ ~Previewing(work[q]) /\ Finding(work[q], d) /\ work'[q].dec = d
    /\ work'[q].phase = work[q].phase /\ work'[q].todo = work[q].todo /\ work'[q].review = work[q].review
    /\ work'[q].rec = work[q].rec /\ work'[q].verdict = work[q].verdict
    /\ \/ d.kind = "merge" /\ work'[q].pc = "read"
       \/ d.kind = "create" /\ work'[q].pc = "write"
       \/ d.kind = "review" /\ work'[q].pc = "park"

LEMMA LadderReads ==
    ASSUME NEW q, Ladder(q)
    PROVE  UNCHANGED <<version, graph, queue, count>>
<1>1. \A x, W : Query(q, x, W) => UNCHANGED <<version, graph, queue, count>>
  BY DEF Query
<1> QED BY <1>1 DEF Ladder, OfficialPass, ReferencePass, TwinPass, ParcelPass, AddressPass,
                 ProximityPass

LEMMA LadderGoes ==
    ASSUME BaseInv, NEW q \in Process, Ladder(q)
    PROVE  /\ Busy(q) /\ work[q].pc \in LadderPc /\ Others(q) /\ work[q].rec \in Record
           /\ UNCHANGED <<version, graph, queue, count>>
           /\ \/ Ended(q) \/ Passes(q)
              \/ Settled(q) /\ work[q].phase = "reevaluate" /\ Null = work[q].verdict
              \/ \E d : Leaves(q, d)
<1>1. PICK w \in Job : w = work[q]
  BY DEF BaseInv, Typed
<1>2. /\ w.pc \in LadderPc /\ w.phase # "idle" /\ UNCHANGED <<version, graph, queue, count>>
  BY <1>1, LadderIs
<1>3. PICK w1 : /\ work' = [work EXCEPT ![q] = w1]
                /\ \/ w1 = Done(w)
                   \/ \E x : Onward(w, x) /\ w1 = [w EXCEPT !.pc = x]
                   \/ \E d : Finding(w, d) /\ w1 = Conclude(w, d)
  BY <1>1, LadderIs
<1>4. Others(q) /\ work'[q] = w1
  BY <1>3 DEF Others, BaseInv, Typed
<1>5. w.rec \in Record
  BY <1>1, <1>2 DEF BaseInv, Fine, Local, LadderPc, Pc
<1>6. CASE w1 = Done(w)
  BY <1>1, <1>2, <1>4, <1>5, <1>6 DEF Ended, Busy
<1>7. ASSUME NEW x, Onward(w, x), w1 = [w EXCEPT !.pc = x] PROVE Passes(q)
  <2>1. /\ w1.pc = x /\ w1.phase = w.phase /\ w1.todo = w.todo /\ w1.rec = w.rec /\ w1.dec = w.dec
        /\ w1.res = w.res /\ w1.review = w.review /\ w1.verdict = w.verdict /\ w1.ver = w.ver
    BY <1>7 DEF Job
  <2> QED BY <1>1, <1>4, <1>7, <2>1 DEF Passes, Keeps
<1>8. ASSUME NEW d, Finding(w, d), w1 = Conclude(w, d), ~Previewing(w) PROVE Leaves(q, d)
  <2>1. w1 = ActOn(w, d) /\ Sane(d)
    BY <1>8 DEF Conclude, Finding
  <2> QED BY <1>1, <1>4, <1>8, <2>1, ActOnIs DEF Leaves
<1>9. ASSUME NEW d, Finding(w, d), w1 = Conclude(w, d), Previewing(w)
      PROVE  Ended(q) \/ (Settled(q) /\ w.phase = "reevaluate" /\ Null = w.verdict)
  <2> DEFINE v == IF d.project = reviews[w.review].candidate THEN "merge" ELSE "reject"
  <2>1. \/ w1 = Done(w)
        \/ /\ w1 = [w EXCEPT !.pc = "check", !.verdict = v]
           /\ d.kind = "merge" /\ d.rule \in StrongRule
    BY <1>9 DEF Conclude, Preview
  <2>2. CASE w1 = Done(w)
    BY <1>1, <1>4, <2>2 DEF Ended
  <2>3. v \in {"merge", "reject"}
    OBVIOUS
  <2>4. v = IF d.project = reviews[w.review].candidate THEN "merge" ELSE "reject"
    OBVIOUS
  <2> HIDE DEF v
  <2>5. ASSUME w1 = [w EXCEPT !.pc = "check", !.verdict = v], d.kind = "merge", d.rule \in StrongRule
        PROVE  Settled(q)
    <3>1. /\ w1.pc = "check" /\ w1.verdict = v /\ w1.phase = w.phase /\ w1.todo = w.todo
          /\ w1.review = w.review /\ w1.rec = w.rec /\ w1.dec = w.dec
      BY <2>5 DEF Job
    <3> QED BY <1>1, <1>4, <1>9, <2>3, <2>4, <2>5, <3>1 DEF Settled
  <2> QED BY <1>9, <2>1, <2>2, <2>5 DEF Previewing
<1> QED BY <1>1, <1>2, <1>3, <1>4, <1>5, <1>6, <1>7, <1>8, <1>9 DEF Busy

LEMMA ReadProjectIs ==
    ASSUME BaseInv, NEW q \in Process, ReadProject(q)
    PROVE  /\ Busy(q) /\ work[q].pc = "read" /\ Others(q) /\ Keeps(q)
           /\ work'[q].pc = IF work[q].phase = "update" THEN "advance" ELSE "write"
           /\ work'[q].row = projects[work[q].dec.project]
<1>1. work[q] \in Job /\ work \in [Process -> Job]
  BY DEF BaseInv, Typed
<1> QED BY <1>1 DEF ReadProject, At, Busy, Others, Keeps, Job

LEMMA WriteProjectIs ==
    ASSUME BaseInv, NEW q \in Process, WriteProject(q)
    PROVE  /\ Busy(q) /\ work[q].pc = "write" /\ Others(q) /\ work'[q].pc = "register"
           /\ work'[q].phase = work[q].phase /\ work'[q].todo = work[q].todo
           /\ work'[q].rec = work[q].rec /\ work'[q].review = work[q].review
           /\ work'[q].verdict = work[q].verdict
           /\ \E p \in Project :
                /\ work'[q].dec = [work[q].dec EXCEPT !.project = p] /\ work'[q].dec.project = p
                /\ IF work[q].dec.kind = "merge" THEN p = work[q].dec.project
                   ELSE p \notin Rows /\ work[q].dec.kind = "create"
<1>1. PICK w \in Job : w = work[q]
  BY DEF BaseInv, Typed
<1>2. /\ Fine(q, w) /\ w.pc = "write" /\ w.phase # "idle"
      /\ w.dec \in Decision
      /\ (w.dec.kind = "create") \/ (w.dec.kind = "merge" /\ w.dec.project \in Rows)
  BY <1>1 DEF WriteProject, At, BaseInv, Fine, Local, Pc, LadderPc
<1> DEFINE p == IF w.dec.kind = "merge" THEN w.dec.project ELSE Min(Project \ Rows)
           n == [w EXCEPT !.dec.project = p, !.pc = After["write"]]
<1>3. work' = [work EXCEPT ![q] = n] /\ (w.dec.kind = "create" => Rows # Project)
  BY <1>1 DEF WriteProject, BaseInv, Typed
<1>4. /\ p \in Project
      /\ IF w.dec.kind = "merge" THEN p = w.dec.project ELSE p \notin Rows /\ w.dec.kind = "create"
  BY <1>2, <1>3, RowsAre, FreeRow
<1> HIDE DEF p
<1>5. /\ n.phase = w.phase /\ n.todo = w.todo /\ n.rec = w.rec /\ n.review = w.review
      /\ n.verdict = w.verdict /\ n.pc = "register" /\ n.dec = [w.dec EXCEPT !.project = p]
      /\ n.dec.project = p
  BY <1>2 DEF Job, Decision, After
<1> HIDE DEF n
<1>6. work'[q] = n /\ Others(q)
  BY <1>3 DEF BaseInv, Typed, Others
<1> QED BY <1>1, <1>2, <1>4, <1>5, <1>6 DEF Busy

LEMMA GoesOn ==
    ASSUME BaseInv, NEW q \in Process, NEW x, Goto(q, x)
    PROVE  Others(q) /\ Keeps(q) /\ work'[q].pc = x /\ work'[q].row = work[q].row
<1>1. work[q] \in Job /\ work \in [Process -> Job]
  BY DEF BaseInv, Typed
<1> QED BY <1>1 DEF Goto, Others, Keeps, Job

LEMMA ComesBack ==
    ASSUME BaseInv, NEW q \in Process, Return(q)
    PROVE  Others(q) /\ Ended(q)
<1>1. work \in [Process -> Job]
  BY DEF BaseInv, Typed
<1> QED BY <1>1 DEF Return, Others, Ended

LEMMA CheckPendingIs ==
    ASSUME BaseInv, NEW q \in Process, CheckPending(q)
    PROVE  /\ Busy(q) /\ work[q].pc = "check" /\ Others(q)
           /\ \/ Ended(q)
              \/ /\ work[q].review \in Pending
                 /\ work'[q].rec = reviews[work[q].review].rec
                 /\ work'[q].dec.project = reviews[work[q].review].candidate /\ work'[q].dec.kind = "merge"
                 /\ work'[q].phase = work[q].phase /\ work'[q].todo = work[q].todo
                 /\ work'[q].review = work[q].review /\ work'[q].verdict = work[q].verdict
                 /\ work'[q].pc = IF work[q].verdict = "merge" THEN "read" ELSE "reject"
<1>1. PICK w \in Job : w = work[q]
  BY DEF BaseInv, Typed
<1> DEFINE rv == reviews[w.review]
           d  == Decide("merge", rv.rule, rv.candidate)
           x  == IF w.verdict = "merge" THEN "read" ELSE "reject"
           n  == [w EXCEPT !.rec = rv.rec, !.ver = version[rv.rec], !.dec = d, !.pc = x]
<1>2. /\ w.phase # "idle" /\ w.pc = "check"
      /\ \/ work' = [work EXCEPT ![q] = Done(w)]
         \/ w.review \in Pending /\ work' = [work EXCEPT ![q] = n]
  BY <1>1 DEF CheckPending, At
<1>3. d.project = rv.candidate /\ d.kind = "merge"
  BY DEF Decide
<1> HIDE DEF d, x
<1>4. /\ n.rec = rv.rec /\ n.dec = d /\ n.pc = x /\ n.phase = w.phase /\ n.todo = w.todo
      /\ n.review = w.review /\ n.verdict = w.verdict
  BY DEF Job
<1> HIDE DEF n
<1>5. Others(q) /\ (work'[q] = Done(w) \/ (w.review \in Pending /\ work'[q] = n))
  BY <1>2 DEF BaseInv, Typed, Others
<1> QED BY <1>1, <1>2, <1>3, <1>4, <1>5 DEF Busy, Ended, x

LEMMA TakeRecordIs ==
    ASSUME BaseInv, TakeRecord
    PROVE  /\ work["chain"].phase = "resolve" /\ work["chain"].pc = "take" /\ Others("chain")
           /\ work'["chain"].phase = "resolve" /\ work'["chain"].verdict = Null
           /\ work'["chain"].pc = "official"
           /\ \E t \in work["chain"].todo :
                /\ t[1] \in Record /\ work'["chain"].rec = t[1]
                /\ work'["chain"].todo = work["chain"].todo \ {t}
<1>1. PICK w \in Job : w = work["chain"] /\ work \in [Process -> Job]
  BY DEF BaseInv, Typed, Process
<1>2. "chain" \in Process /\ Fine("chain", w) /\ w.phase = "resolve" /\ w.pc = "take"
  BY <1>1 DEF BaseInv, Process, TakeRecord, Taking, At
<1>3. PICK t \in w.todo : work' = [work EXCEPT !["chain"] =
         [Without(t) EXCEPT !.rec = t[1], !.ver = t[2], !.pc = "official"]]
  BY <1>1 DEF TakeRecord
<1>4. /\ Without(t) \in Job /\ Without(t).phase = "resolve" /\ Without(t).verdict = Null
      /\ Without(t).todo = w.todo \ {t}
  BY <1>1, <1>2, WithoutFine DEF Without, Fine, Course, LadderPc
<1> DEFINE o == Without(t)
           n == [o EXCEPT !.rec = t[1], !.ver = t[2], !.pc = "official"]
<1>5. work' = [work EXCEPT !["chain"] = n]
  BY <1>3
<1> HIDE DEF o
<1>6. o \in Job /\ o.phase = "resolve" /\ o.verdict = Null /\ o.todo = w.todo \ {t}
  BY <1>4 DEF o
<1>7. /\ n.rec = t[1] /\ n.pc = "official" /\ n.phase = "resolve" /\ n.verdict = Null
      /\ n.todo = w.todo \ {t}
  BY <1>6 DEF Job
<1> HIDE DEF n
<1>8. Others("chain") /\ work'["chain"] = n
  BY <1>1, <1>2, <1>5 DEF Others
<1>9. t[1] \in Record
  BY <1>2 DEF Fine, Listed
<1> QED BY <1>1, <1>2, <1>7, <1>8, <1>9

LEMMA TakeUpdateIs ==
    ASSUME BaseInv, TakeUpdate
    PROVE  /\ work["chain"].phase = "update" /\ work["chain"].pc = "take" /\ Others("chain")
           /\ work'["chain"].phase = "update" /\ work'["chain"].verdict = Null
           /\ work'["chain"].pc = "read"
           /\ \E t \in work["chain"].todo :
                /\ t[1] \in Record /\ work'["chain"].rec = t[1] /\ work'["chain"].dec.project = t[3].project
                /\ work'["chain"].dec.kind = "merge"
                /\ work'["chain"].todo = work["chain"].todo \ {t}
<1>1. PICK w \in Job : w = work["chain"] /\ work \in [Process -> Job]
  BY DEF BaseInv, Typed, Process
<1>2. "chain" \in Process /\ Fine("chain", w) /\ w.phase = "update" /\ w.pc = "take"
  BY <1>1 DEF BaseInv, Process, TakeUpdate, Taking, At
<1>3. PICK t \in w.todo :
        work' = [work EXCEPT !["chain"] =
            [Without(t) EXCEPT !.rec = t[1], !.ver = t[2], !.res = t[3], !.pc = "read",
                               !.dec = Decide("merge", "new_project", t[3].project)]]
  BY <1>1 DEF TakeUpdate
<1>4. /\ Without(t) \in Job /\ Without(t).phase = "update" /\ Without(t).verdict = Null
      /\ Without(t).todo = w.todo \ {t}
  BY <1>1, <1>2, WithoutFine DEF Without, Fine, Course, LadderPc
<1> DEFINE d == Decide("merge", "new_project", t[3].project)
           o == Without(t)
           n == [o EXCEPT !.rec = t[1], !.ver = t[2], !.res = t[3], !.pc = "read", !.dec = d]
<1>5. d.kind = "merge" /\ d.project = t[3].project
  BY DEF Decide
<1>6. work' = [work EXCEPT !["chain"] = n]
  BY <1>3
<1> HIDE DEF d, o
<1>7. o \in Job /\ o.phase = "update" /\ o.verdict = Null /\ o.todo = w.todo \ {t}
  BY <1>4 DEF o
<1>8. /\ n.rec = t[1] /\ n.dec = d /\ n.pc = "read" /\ n.phase = "update" /\ n.verdict = Null
      /\ n.todo = w.todo \ {t}
  BY <1>7 DEF Job
<1> HIDE DEF n
<1>9. Others("chain") /\ work'["chain"] = n
  BY <1>1, <1>2, <1>6 DEF Others
<1>10. t[1] \in Record
  BY <1>2 DEF Fine, Listed
<1> QED BY <1>1, <1>2, <1>5, <1>8, <1>9, <1>10

LEMMA TakeReviewIs ==
    ASSUME BaseInv, TakeReview
    PROVE  /\ work["chain"].phase = "reevaluate" /\ work["chain"].pc = "take" /\ Others("chain")
           /\ work'["chain"].phase = "reevaluate" /\ work'["chain"].verdict = Null
           /\ work'["chain"].pc = "official"
<1>1. PICK w \in Job : w = work["chain"] /\ work \in [Process -> Job]
  BY DEF BaseInv, Typed, Process
<1>2. "chain" \in Process /\ Fine("chain", w) /\ w.phase = "reevaluate" /\ w.pc = "take"
  BY <1>1 DEF BaseInv, Process, TakeReview, Taking, At
<1>3. PICK v \in w.todo : work' = [work EXCEPT !["chain"] =
         [Without(v) EXCEPT !.review = v, !.rec = reviews[v].rec, !.ver = version[reviews[v].rec],
                            !.pc = "official"]]
  BY <1>1 DEF TakeReview
<1>4. Without(v) \in Job /\ Without(v).phase = "reevaluate" /\ Without(v).verdict = Null
  BY <1>1, <1>2, WithoutFine DEF Without, Fine, Course, LadderPc
<1> DEFINE o == Without(v)
           n == [o EXCEPT !.review = v, !.rec = reviews[v].rec, !.ver = version[reviews[v].rec],
                          !.pc = "official"]
<1>5. work' = [work EXCEPT !["chain"] = n]
  BY <1>3
<1> HIDE DEF o
<1>6. o \in Job /\ o.phase = "reevaluate" /\ o.verdict = Null
  BY <1>4 DEF o
<1>7. n.pc = "official" /\ n.phase = "reevaluate" /\ n.verdict = Null
  BY <1>6 DEF Job
<1> HIDE DEF n
<1>8. Others("chain") /\ work'["chain"] = n
  BY <1>1, <1>2, <1>5 DEF Others
<1> QED BY <1>1, <1>2, <1>7, <1>8

LEMMA TakeDecisionIs ==
    ASSUME BaseInv, TakeDecision
    PROVE  /\ work["reviewer"].phase = "decide" /\ work["reviewer"].pc = "take" /\ Others("reviewer")
           /\ work'["reviewer"].phase = "decide" /\ work'["reviewer"].pc = "check"
           /\ work'["reviewer"].verdict = work["reviewer"].verdict
<1>1. work["reviewer"] \in Job /\ work \in [Process -> Job] /\ "reviewer" \in Process
  BY DEF BaseInv, Typed, Process
<1> QED BY <1>1 DEF TakeDecision, At, Others, Job

LEMMA LoopIs ==
    ASSUME BaseInv, NEW phase, NEW todo, Loop(phase, todo)
    PROVE  /\ Others("chain") /\ work'["chain"].phase = phase /\ work'["chain"].todo = todo
           /\ work'["chain"].pc = "take" /\ work'["chain"].verdict = Null
<1>1. work \in [Process -> Job] /\ "chain" \in Process
  BY DEF BaseInv, Typed, Process
<1> QED BY <1>1 DEF Loop, Others, Idle

LEMMA NextLoopIs ==
    ASSUME BaseInv, NextLoop
    PROVE  /\ Busy("chain") /\ work["chain"].pc = "take" /\ Others("chain") /\ work'["chain"].pc = "take"
           /\ \/ /\ work'["chain"].phase = "update"
                 /\ \E R \in SUBSET {s \in Record : Drifted(s)} :
                       work'["chain"].todo = {<<r, version[r], resolutions[r]>> : r \in R}
              \/ work'["chain"].phase = "reevaluate"
              \/ work'["chain"].phase = "idle"
           /\ work'["chain"].verdict = Null
<1>1. work["chain"].phase \in {"resolve", "update", "reevaluate"} /\ work["chain"].pc = "take"
  BY DEF NextLoop, At, BaseInv, Fine, Course, Process
<1>2. \/ \E R \in SUBSET {s \in Record : Drifted(s)} :
            Loop("update", {<<r, version[r], resolutions[r]>> : r \in R})
      \/ Loop("reevaluate", OldestBatch(Pending)) \/ Loop("idle", {})
  BY SelectionsIs DEF NextLoop
<1>3. CASE \E R \in SUBSET {s \in Record : Drifted(s)} :
             Loop("update", {<<r, version[r], resolutions[r]>> : r \in R})
  BY <1>1, <1>3, LoopIs DEF Busy
<1>4. CASE Loop("reevaluate", OldestBatch(Pending)) \/ Loop("idle", {})
  BY <1>1, <1>4, LoopIs DEF Busy
<1> QED BY <1>2, <1>3, <1>4

LEMMA InsertResolutionIs ==
    ASSUME BaseInv, NEW q \in Process, InsertResolution(q)
    PROVE  /\ Busy(q) /\ work[q].pc = "insert" /\ Others(q) /\ work[q].rec \in Record
           /\ Ended(q) \/ (work[q].verdict = "merge" /\ work'[q].pc = "mark" /\ Keeps(q))
           /\ \/ /\ resolutions[work[q].rec] # Null /\ Ended(q) /\ UNCHANGED resolutions
              \/ /\ resolutions[work[q].rec] = Null /\ (Ended(q) => work[q].verdict # "merge")
                 /\ resolutions'[work[q].rec].project = work[q].dec.project
                 /\ \A r \in Record : r # work[q].rec => resolutions'[r] = resolutions[r]
<1>1. PICK w \in Job : w = work[q]
  BY DEF BaseInv, Typed
<1>2. Fine(q, w) /\ w.phase # "idle" /\ w.pc = "insert"
  BY <1>1 DEF BaseInv, InsertResolution, At
<1>3. w.rec \in Record
  BY <1>2 DEF Fine, Local, Pc
<1>4. CASE resolutions[w.rec] # Null
  <2>1. Return(q) /\ UNCHANGED resolutions
    BY <1>1, <1>4 DEF InsertResolution
  <2> QED BY <1>1, <1>2, <1>3, <1>4, <2>1, ComesBack DEF Busy
<1>5. CASE resolutions[w.rec] = Null
  <2> DEFINE row == [project |-> w.dec.project, id |-> verdicts,
                     ver |-> IF w.verdict = "merge" THEN 0 ELSE version[w.rec]]
  <2>1. resolutions' = [resolutions EXCEPT ![w.rec] = row]
    BY <1>1, <1>5 DEF InsertResolution
  <2>2. row.project = w.dec.project
    OBVIOUS
  <2> HIDE DEF row
  <2>3. /\ resolutions'[w.rec].project = w.dec.project
        /\ \A r \in Record : r # w.rec => resolutions'[r] = resolutions[r]
    BY <1>3, <2>1, <2>2 DEF BaseInv, Typed
  <2>4. CASE w.verdict = "merge"
    <3>1. Goto(q, "mark")
      BY <1>1, <1>5, <2>4 DEF InsertResolution
    <3>2. Others(q) /\ Keeps(q) /\ work'[q].pc = "mark"
      BY <3>1, GoesOn
    <3>3. ~Ended(q)
      <4>1. Done(w).pc = "take"
        BY DoneIs
      <4> QED BY <1>1, <3>2, <4>1 DEF Ended
    <3> QED BY <1>1, <1>2, <1>3, <1>5, <2>3, <2>4, <3>2, <3>3 DEF Busy
  <2>5. CASE w.verdict # "merge"
    <3>1. Return(q)
      BY <1>1, <1>5, <2>5 DEF InsertResolution
    <3> QED BY <1>1, <1>2, <1>3, <1>5, <2>3, <2>5, <3>1, ComesBack DEF Busy
  <2> QED BY <2>4, <2>5
<1> QED BY <1>4, <1>5

\* A step that begins something, and one that goes on with it.
LEMMA RequestIs ==
    ASSUME BaseInv, NEW V, NEW verdict, Request(V, verdict)
    PROVE  /\ ~Busy("reviewer") /\ Others("reviewer") /\ work'["reviewer"].pc = "take"
           /\ work'["reviewer"].phase = "decide" /\ work'["reviewer"].verdict = verdict
<1>1. work \in [Process -> Job] /\ "reviewer" \in Process /\ Fine("reviewer", work["reviewer"])
  BY DEF BaseInv, Typed, Process
<1> QED BY <1>1 DEF Request, Busy, Others, Fine, Course, Job

LEMMA RequestUndoIs ==
    ASSUME BaseInv, NEW r, RequestUndo(r)
    PROVE  ~Busy("operator") /\ Others("operator") /\ work'["operator"].pc = "undo"
<1>1. work \in [Process -> Job] /\ "operator" \in Process
  BY DEF BaseInv, Typed, Process
<1> QED BY <1>1 DEF RequestUndo, Busy, Others, Job

--------------------------------------------------------------------------------
(* While it is calm, one process is at work, and what it read is what is    *)
(* there.                                                                   *)

Alone    == \A p, q \in Process : Busy(p) /\ Busy(q) => p = q
Fresh(w) == (w.pc = "advance" \/ (w.pc = "write" /\ w.dec.kind = "merge")) => w.row = projects[w.dec.project]
CalmInv  == calm => Alone /\ \A q \in Process : Fresh(work[q])

\* Who takes a step.
Begins(q) ==
    /\ ~Busy(q) /\ Others(q) /\ work'[q].pc \in {"take", "undo"} /\ calm' = (calm /\ AllIdle)
Acts(q) ==
    /\ Busy(q) /\ Others(q) /\ calm' = calm
    /\ work'[q].pc = "advance" => ReadProject(q)
    /\ work'[q].pc = "write" => ReadProject(q) \/ work'[q].dec.kind = "create"

LEMMA ActsIs ==
    ASSUME BaseInv, NEW q \in Process, Statement(q)
    PROVE  Acts(q)
<1>1. work[q] \in Job
  BY DEF BaseInv, Typed
<1>2. CASE ReadProject(q)
  BY <1>2, ReadProjectIs DEF Acts, ReadProject, count
<1>3. CASE WriteProject(q)
  BY <1>3, WriteProjectIs DEF Acts, WriteProject, count
<1>4. CASE RegisterIds(q)
  BY <1>4, GoesOn DEF Acts, RegisterIds, count, After, At, Busy
<1>5. CASE Derive(q)
  <2>1. Goto(q, IF work[q].phase = "update" THEN "stamp" ELSE "insert") /\ Busy(q) /\ calm' = calm
    BY <1>5 DEF Derive, count, After, At, Busy
  <2> QED BY <2>1, GoesOn DEF Acts
<1>6. CASE InsertResolution(q)
  <2>1. work'[q].pc \in {"take", "mark"}
    BY <1>1, <1>6, InsertResolutionIs, DoneIs DEF Ended
  <2> QED BY <1>6, <2>1, InsertResolutionIs DEF Acts, InsertResolution, count
<1>7. ASSUME Return(q), Busy(q), calm' = calm PROVE Acts(q)
  <2>1. work'[q].pc = "take" /\ Others(q)
    BY <1>1, <1>7, ComesBack, DoneIs DEF Ended
  <2> QED BY <1>7, <2>1 DEF Acts
<1>8. CASE Park(q)
  BY <1>7, <1>8 DEF Park, count, At, Busy
<1>9. CASE MarkMerged(q)
  BY <1>7, <1>9 DEF MarkMerged, count, At, Busy
<1>10. CASE MarkRejected(q)
  BY <1>10, GoesOn DEF Acts, MarkRejected, At, Busy
<1>11. CASE CheckPending(q)
  <2>1. work'[q].pc \in {"take", "read", "reject"}
    BY <1>1, <1>11, CheckPendingIs, DoneIs DEF Ended
  <2> QED BY <1>11, <2>1, CheckPendingIs DEF Acts, CheckPending, count
<1>12. CASE Ladder(q)
  <2>1. /\ Busy(q) /\ Others(q) /\ calm' = calm
        /\ \/ Ended(q) \/ Passes(q) \/ Settled(q) \/ \E d : Leaves(q, d)
    BY <1>12, LadderGoes DEF count
  <2>2. work'[q].pc \in {"take", "check", "read", "park"} \cup LadderPc
        \/ (work'[q].pc = "write" /\ work'[q].dec.kind = "create")
    BY <1>1, <2>1, DoneIs DEF Ended, Passes, Onward, Settled, Leaves, LadderPc
  <2> QED BY <2>1, <2>2 DEF Acts, LadderPc
<1> QED BY <1>2, <1>3, <1>4, <1>5, <1>6, <1>8, <1>9, <1>10, <1>11, <1>12 DEF Statement

LEMMA ActorIs ==
    ASSUME BaseInv, ResolutionNext
    PROVE  \/ \E q \in Process : Begins(q) /\ UNCHANGED projects
           \/ calm' = (calm /\ AllIdle) /\ UNCHANGED <<work, projects>>
           \/ \E q \in Process : Acts(q)
<1>1. Process = {"chain", "reviewer", "operator"}
  BY DEF Process
<1>2. \A q \in Process : work[q] \in Job
  BY DEF BaseInv, Typed
<1>3. CASE \E r \in Record : Fetch(r)
  BY <1>3 DEF Fetch, Begin, graph
<1>4. CASE \E r \in Record : RequestUndo(r)
  BY <1>1, <1>4, RequestUndoIs DEF Begins, RequestUndo, Begin, graph
<1>5. CASE \E v \in Pending, verdict \in {"merge", "reject"} :
             Request({v}, verdict) \/ Request(Cluster(v), verdict)
  <2>1. PICK V, verdict : Request(V, verdict)
    BY <1>5
  <2>2. Begins("reviewer")
    BY <2>1, RequestIs DEF Begins, Request, Begin
  <2> QED BY <1>1, <2>1, <2>2 DEF Request, graph
<1>6. CASE \E q \in Process : Statement(q)
  BY <1>6, ActsIs
<1>7. CASE StartChain
  <2>1. PICK todo : Loop("resolve", todo)
    BY <1>7, SMTT(30) DEF StartChain
  <2>2. Begins("chain") /\ UNCHANGED projects
    BY <1>7, <2>1, LoopIs DEF Begins, StartChain, Begin, Busy, graph
  <2> QED BY <1>1, <2>2
<1>8. CASE NextLoop
  BY <1>1, <1>8, NextLoopIs DEF Acts, NextLoop, count
<1>9. CASE TakeRecord
  BY <1>1, <1>9, TakeRecordIs DEF Acts, TakeRecord, count, Busy
<1>10. CASE TakeUpdate
  BY <1>1, <1>10, TakeUpdateIs DEF Acts, TakeUpdate, count, Busy
<1>11. CASE TakeReview
  BY <1>1, <1>11, TakeReviewIs DEF Acts, TakeReview, count, Busy
<1>12. CASE TakeDecision
  BY <1>1, <1>12, TakeDecisionIs DEF Acts, TakeDecision, count, Busy
<1>13. CASE AdvanceStage
  <2>1. Goto("chain", "derive") /\ Busy("chain") /\ calm' = calm
    BY <1>13 DEF AdvanceStage, At, count, Busy
  <2> QED BY <1>1, <2>1, GoesOn DEF Acts
<1>14. ASSUME NEW q \in Process, Return(q), Busy(q), calm' = calm PROVE \E p \in Process : Acts(p)
  <2>1. work'[q].pc = "take" /\ Others(q)
    BY <1>2, <1>14, ComesBack, DoneIs DEF Ended
  <2> QED BY <1>14, <2>1 DEF Acts
<1>15. CASE StampProcessed
  BY <1>1, <1>14, <1>15 DEF StampProcessed, At, Busy, count
<1>16. CASE UndoDerived
  <2>1. Goto("operator", "unmark") /\ Busy("operator") /\ calm' = calm
    BY <1>16 DEF UndoDerived, At, count, Busy
  <2> QED BY <1>1, <2>1, GoesOn DEF Acts
<1>17. CASE MarkUndone
  BY <1>1, <1>14, <1>17 DEF MarkUndone, At, Busy, count
<1>18. CASE \E q \in Process : Fault(q)
  BY <1>14, <1>18 DEF Fault, Busy
<1>19. CASE CrashChain
  BY <1>1, <1>19, LoopIs DEF Acts, CrashChain, Busy
<1> QED BY <1>1, <1>3, <1>4, <1>5, <1>6, <1>7, <1>8, <1>9, <1>10, <1>11, <1>12, <1>13, <1>15, <1>16, <1>17,
           <1>18, <1>19 DEF ResolutionNext, ChainStep, ReviewerStep, OperatorStep

LEMMA CalmInit == ResolutionInit => CalmInv
BY DEF ResolutionInit, Idle, CalmInv, Alone, Fresh, Busy

LEMMA CalmNext == ASSUME BaseInv, CalmInv, [ResolutionNext]_resolutionVars PROVE CalmInv'
<1> SUFFICES ASSUME calm' PROVE Alone' /\ \A q \in Process : Fresh(work[q])'
  BY DEF CalmInv
<1>1. \A p \in Process : ~Busy(p) => work[p].pc = "take"
  BY DEF BaseInv, Fine, Course, Busy
<1>2. CASE UNCHANGED resolutionVars
  BY <1>2 DEF resolutionVars, CalmInv, Alone, Fresh, Busy
<1>3. ASSUME NEW q \in Process, Begins(q), UNCHANGED projects
      PROVE  Alone' /\ \A p \in Process : Fresh(work[p])'
  <2>1. \A p \in Process : ~Busy(p) /\ (p # q => ~Busy(p)' /\ work'[p].pc = "take")
    BY <1>1, <1>3 DEF Begins, AllIdle, Busy, Others
  <2> QED BY <1>3, <2>1 DEF Alone, Fresh, Begins
<1>4. CASE calm' = (calm /\ AllIdle) /\ UNCHANGED <<work, projects>>
  BY <1>4 DEF CalmInv, Alone, Fresh, Busy
<1>5. ASSUME NEW q \in Process, Acts(q)
      PROVE  Alone' /\ \A p \in Process : Fresh(work[p])'
  <2>1. \A p \in Process : p # q => ~Busy(p) /\ ~Busy(p)' /\ work'[p].pc = "take"
    BY <1>1, <1>5 DEF Acts, CalmInv, Alone, Busy, Others
  <2>2. Fresh(work[q])'
    <3>1. CASE ReadProject(q)
      BY <3>1, ReadProjectIs DEF Fresh, Keeps, ReadProject, graph
    <3>2. CASE ~ReadProject(q)
      BY <1>5, <3>2 DEF Fresh, Acts
    <3> QED BY <3>1, <3>2
  <2> QED BY <2>1, <2>2 DEF Alone, Fresh
<1> QED BY <1>2, <1>3, <1>4, <1>5, ActorIs

\* While nothing is begun beside anything else, one process is at work, and the row it has read
\* (resolver.ts:303-316) is the row that is there when it writes.
THEOREM CalmInvariant == ResolutionSpec => []CalmInv
<1>1. ResolutionInit => CalmInv
  BY CalmInit
<1>2. BaseInv /\ CalmInv /\ [ResolutionNext]_resolutionVars => CalmInv'
  BY CalmNext
<1> QED BY <1>1, <1>2, BaseInvariant, PTL DEF ResolutionSpec

\* A project keeps its parcels and does not go back to an earlier stage.
Grows(p) == projects'[p].stage >= projects[p].stage /\ projects[p].parcels \subseteq projects'[p].parcels

LEMMA StageGrows ==
    ASSUME NEW s \in Nat, NEW t \in Nat
    PROVE  LaterStage(s, t) \in Nat /\ LaterStage(s, t) >= s
BY DEF LaterStage

\* A project grows if its row is left alone, or its point is set.
LEMMA SameGrows ==
    ASSUME BaseInv, NEW p \in Rows,
           \/ projects'[p] = projects[p]
           \/ \E x : projects'[p] = [projects[p] EXCEPT !.point = x]
    PROVE  Grows(p)
<1>1. projects[p] \in ProjectRow
  BY RowsAre DEF BaseInv, Typed
<1>2. projects[p].stage \in Nat
  BY <1>1 DEF ProjectRow
<1>3. projects'[p].stage = projects[p].stage /\ projects'[p].parcels = projects[p].parcels
  <2>1. CASE projects'[p] = projects[p]
    BY <2>1
  <2>2. ASSUME NEW x, projects'[p] = [projects[p] EXCEPT !.point = x]
        PROVE  projects'[p].stage = projects[p].stage /\ projects'[p].parcels = projects[p].parcels
    BY <1>1, <2>2 DEF ProjectRow
  <2> QED BY <2>1, <2>2
<1> QED BY <1>2, <1>3 DEF Grows

LEMMA WriteGrows == ASSUME BaseInv, CalmInv, calm, NEW q \in Process, WriteProject(q), NEW p \in Rows PROVE Grows(p)
<1>1. PICK w \in Job : w = work[q]
  BY DEF BaseInv, Typed
<1>2. /\ w.pc = "write" /\ w.rec \in Record /\ w.ver \in 1..Len(Stage[w.rec])
      /\ \/ w.dec.kind = "create"
         \/ w.dec.kind = "merge" /\ w.dec.project \in Rows /\ w.row \in ProjectRow
  BY <1>1 DEF WriteProject, At, BaseInv, Fine, Local, Pc, LadderPc
<1>3. CASE w.dec.kind = "create"
  <2> DEFINE o == Min(Project \ Rows)
  <2>1. o \notin Rows /\ projects' = [projects EXCEPT ![o] = Created(w.rec, w.ver)]
    BY <1>1, <1>3, FreeRow DEF WriteProject
  <2> HIDE DEF o
  <2>2. projects'[p] = projects[p]
    BY <2>1, RowsAre DEF BaseInv, Typed
  <2> QED BY <2>2, SameGrows
<1>4. CASE w.dec.kind = "merge"
  <2> DEFINE o   == w.dec.project
             x   == projects[o].point
             m   == Merged(w.row, w.rec, w.ver)
             row == [m EXCEPT !.point = x]
  <2>1. projects' = [projects EXCEPT ![o] = row]
    BY <1>1, <1>4 DEF WriteProject
  <2>2. o \in Rows /\ w.row = projects[o] /\ w.row \in ProjectRow
    BY <1>1, <1>2, <1>4 DEF CalmInv, Fresh
  <2>3. w.row.stage \in Nat /\ Stage[w.rec][w.ver] \in Nat
    BY <1>2, <2>2, Numbers DEF ProjectRow
  <2> DEFINE s == LaterStage(w.row.stage, Stage[w.rec][w.ver])
             a == IF w.row.address = Null THEN Address[w.rec] ELSE w.row.address
  <2>4. s >= w.row.stage
    BY <2>3, StageGrows
  <2>5. m = [w.row EXCEPT !.parcels = w.row.parcels \cup Parcels[w.rec], !.stage = s, !.address = a]
    BY <2>2 DEF Merged, ProjectRow
  <2> HIDE DEF s, a, x, m
  <2>6. row.stage = s /\ row.parcels = w.row.parcels \cup Parcels[w.rec]
    BY <2>2, <2>5 DEF ProjectRow
  <2> HIDE DEF row
  <2>7. p # o => projects'[p] = projects[p]
    BY <2>1, RowsAre DEF BaseInv, Typed
  <2>8. p = o => projects'[p] = row
    BY <2>1, RowsAre DEF BaseInv, Typed
  <2> QED BY <2>2, <2>4, <2>6, <2>7, <2>8, SameGrows DEF Grows
<1> QED BY <1>2, <1>3, <1>4

LEMMA AdvanceGrows == ASSUME BaseInv, CalmInv, calm, AdvanceStage, NEW p \in Rows PROVE Grows(p)
<1>1. PICK w \in Job : w = work["chain"]
  BY DEF BaseInv, Typed, Process
<1>2. /\ w.pc = "advance" /\ w.rec \in Record /\ w.ver \in 1..Len(Stage[w.rec]) /\ w.dec.project \in Rows
      /\ w.row \in ProjectRow /\ w.row = projects[w.dec.project]
  BY <1>1 DEF AdvanceStage, At, BaseInv, Fine, Local, Pc, CalmInv, Fresh, Process
<1>3. w.row.stage \in Nat /\ Stage[w.rec][w.ver] \in Nat
  BY <1>2, Numbers DEF ProjectRow
<1> DEFINE s == LaterStage(w.row.stage, Stage[w.rec][w.ver])
           o == w.dec.project
<1>4. s >= w.row.stage
  BY <1>3, StageGrows
<1>5. projects' = projects \/ projects' = [projects EXCEPT ![o].stage = s]
  BY <1>1 DEF AdvanceStage
<1> HIDE DEF s
<1>6. projects'[p] = projects[p] \/ (p = o /\ projects'[p] = [w.row EXCEPT !.stage = s])
  BY <1>2, <1>5, RowsAre DEF BaseInv, Typed
<1>7. p = o => [w.row EXCEPT !.stage = s].stage = s /\ [w.row EXCEPT !.stage = s].parcels = w.row.parcels
  BY <1>2 DEF ProjectRow
<1> QED BY <1>2, <1>4, <1>6, <1>7, SameGrows DEF Grows

LEMMA DeriveGrows == ASSUME BaseInv, NEW q \in Process, Derive(q), NEW p \in Rows PROVE Grows(p)
<1> DEFINE o == work[q].dec.project
           x == IF projects[o].point = Null THEN Point[work[q].rec] ELSE projects[o].point
<1>1. projects' = [projects EXCEPT ![o].point = x]
  BY DEF Derive
<1> HIDE DEF x
<1>2. projects'[p] = projects[p] \/ projects'[p] = [projects[p] EXCEPT !.point = x]
  BY <1>1, RowsAre DEF BaseInv, Typed
<1> QED BY <1>2, SameGrows

LEMMA OthersGrow == ASSUME BaseInv, UNCHANGED projects, NEW p \in Rows PROVE Grows(p)
BY SameGrows

LEMMA StepGrows == ASSUME BaseInv, CalmInv, ResolutionNext, calm', NEW p \in Rows PROVE Grows(p)
<1>1. calm
  BY ActorIs DEF Begins, Acts
<1>2. CASE UNCHANGED projects
  BY <1>2, OthersGrow
<1>3. CASE \E q \in Process : WriteProject(q) \/ Derive(q)
  BY <1>1, <1>3, WriteGrows, DeriveGrows
<1>4. CASE AdvanceStage
  BY <1>1, <1>4, AdvanceGrows
<1>5. \A q \in Process : Statement(q) => WriteProject(q) \/ Derive(q) \/ UNCHANGED projects
  BY LadderReads DEF Statement, ReadProject, RegisterIds, InsertResolution, Park, CheckPending,
         MarkMerged, MarkRejected, graph
<1>6. ChainStep => \/ AdvanceStage \/ UNCHANGED projects \/ Statement("chain")
  BY DEF ChainStep, StartChain, NextLoop, TakeRecord, TakeUpdate, TakeReview, StampProcessed, graph
<1>7. ReviewerStep => UNCHANGED projects \/ Statement("reviewer")
  BY DEF ReviewerStep, TakeDecision, graph
<1>8. OperatorStep => UNCHANGED projects
  BY DEF OperatorStep, UndoDerived, MarkUndone, graph
<1>9. \A q \in Process : Fault(q) => UNCHANGED projects
  BY DEF Fault, graph
<1>10. CrashChain => UNCHANGED projects
  BY DEF CrashChain, graph
<1>11. \A r \in Record : Fetch(r) \/ RequestUndo(r) => UNCHANGED projects
  BY DEF Fetch, RequestUndo, graph
<1>12. \A V, verdict : Request(V, verdict) => UNCHANGED projects
  BY DEF Request, graph
<1>13. "chain" \in Process /\ "reviewer" \in Process
  BY DEF Process
<1> QED BY <1>2, <1>3, <1>4, <1>5, <1>6, <1>7, <1>8, <1>9, <1>10, <1>11, <1>12, <1>13 DEF ResolutionNext

\* No step takes a parcel from a project or sets its stage back, while people do not decide
\* as the chain writes: what a process writes is computed from the row it finds
\* (resolver.ts:303-336, 976-1013).
THEOREM ProjectsGrow == ResolutionSpec => ProjectsOnlyGrow
<1>1. ASSUME BaseInv, CalmInv, ResolutionNext
      PROVE  \A p \in Rows : calm' => /\ projects'[p].stage >= projects[p].stage
                                      /\ projects[p].parcels \subseteq projects'[p].parcels
  BY <1>1, StepGrows DEF Grows
<1>2. BaseInv /\ CalmInv /\ [ResolutionNext]_resolutionVars =>
        [\A p \in Rows : calm' => /\ projects'[p].stage >= projects[p].stage
                                  /\ projects[p].parcels \subseteq projects'[p].parcels]_resolutionVars
  BY <1>1
<1> QED BY <1>2, BaseInvariant, CalmInvariant, PTL DEF ResolutionSpec, ProjectsOnlyGrow

--------------------------------------------------------------------------------
(* The official ids: who has a project can be found by its number.          *)

\* Every id was filed by a record, of its jurisdiction.
IdsInv == \A e \in extIds : \E s \in Record :
             e.authority = Authority[s] /\ (e.number = Number[s] \/ e.number \in Refs[s])

Found(w) ==
    /\ \/ w.pc \in {"derive", "insert", "mark", "advance", "stamp"}
       \/ w.phase = "update" /\ w.pc = "read"
       => Official(w.rec) # {}
    /\ w.phase = "update" => \A t \in w.todo : Official(t[1]) # {}

FoundInv ==
    /\ IdsInv
    /\ \A r \in Record : resolutions[r] # Null => Official(r) # {}
    /\ \A e \in events : Official(e.rec) # {}
    /\ \A q \in Process : Found(work[q])

LEMMA FoundInit == ResolutionInit => FoundInv
BY DEF ResolutionInit, FoundInv, IdsInv, Found, Idle

LEMMA OfficialGrows == ASSUME extIds \subseteq extIds', NEW r PROVE Official(r) \subseteq Official(r)'
BY DEF Official

LEMMA FoundGrows == ASSUME extIds \subseteq extIds', NEW w, Found(w) PROVE Found(w)'
BY OfficialGrows DEF Found

\* What a step has to show.
LEMMA FoundStep ==
    ASSUME FoundInv, extIds \subseteq extIds', IdsInv', NEW q \in Process, Others(q),
           NEW n, n = work'[q], Found(n) \/ Found(n)',
           \A r \in Record : resolutions'[r] # Null => resolutions[r] # Null \/ Official(r) # {},
           \A e \in events' : e \in events \/ Official(e.rec) # {}
    PROVE  FoundInv'
<1>1. ASSUME NEW p \in Process PROVE Found(work[p])'
  <2>1. CASE p = q
    <3>1. Found(n)'
      BY FoundGrows
    <3> QED BY <2>1, <3>1
  <2>2. CASE p # q
    <3>1. PICK w : w = work[p]
      OBVIOUS
    <3>2. Found(w)' /\ work'[p] = w
      BY <2>2, <3>1, FoundGrows DEF FoundInv, Others
    <3> QED BY <3>2
  <2> QED BY <2>1, <2>2
<1>2. \A r : Official(r) # {} => Official(r)' # {}
  BY OfficialGrows
<1>3. \A r \in Record : resolutions'[r] # Null => Official(r)' # {}
  BY <1>2 DEF FoundInv
<1>4. \A e \in events' : Official(e.rec)' # {}
  BY <1>2 DEF FoundInv
<1> QED BY <1>1, <1>3, <1>4 DEF FoundInv

\* A step that leaves ids, resolutions and events as they are.
LEMMA FoundSame ==
    ASSUME FoundInv, UNCHANGED <<extIds, resolutions, events>>, NEW q \in Process, Others(q),
           NEW n, n = work'[q], Found(n)
    PROVE  FoundInv'
<1>1. IdsInv'
  BY DEF FoundInv, IdsInv
<1> QED BY <1>1, FoundStep

LEMMA FoundEnded ==
    ASSUME NEW w \in Job, Found(w)
    PROVE  Found(Done(w))
<1>1. \/ Done(w).phase = "idle"
      \/ Done(w).phase = w.phase /\ Done(w).todo = w.todo
  BY DoneIs
<1>2. Done(w).pc = "take"
  BY DoneIs
<1> QED BY <1>1, <1>2 DEF Found

\* The last statement of a row.
LEMMA FoundReturn ==
    ASSUME BaseInv, FoundInv, NEW q \in Process, Return(q), UNCHANGED extIds,
           \A r \in Record : resolutions'[r] # Null => resolutions[r] # Null \/ Official(r) # {},
           events' \subseteq events
    PROVE  FoundInv'
<1>1. Others(q) /\ Ended(q)
  BY ComesBack
<1>2. work[q] \in Job /\ Found(work[q])
  BY DEF BaseInv, Typed, FoundInv
<1>3. PICK n : n = work'[q]
  OBVIOUS
<1>4. Found(n)
  BY <1>1, <1>2, <1>3, FoundEnded DEF Ended
<1>5. IdsInv'
  BY DEF FoundInv, IdsInv
<1> QED BY <1>1, <1>3, <1>4, <1>5, FoundStep

LEMMA RegisteredIs ==
    ASSUME BaseInv, NEW q \in Process, RegisterIds(q), NEW w, w = work[q], NEW r, r = w.rec
    PROVE  /\ extIds \subseteq extIds' /\ r \in Record
           /\ \A e \in extIds' : e \in extIds \/
                (/\ e.authority = Authority[r] /\ e.project = w.dec.project
                 /\ (e.number = Number[r] \/ e.number \in Refs[r]))
           /\ Official(r)' # {}
<1> DEFINE Row(n, t) == [authority |-> Authority[r], number |-> n, type |-> t,
                         project |-> w.dec.project]
           new == {Row(Number[r], "primary")} \cup {Row(n, "reference") : n \in Refs[r]}
           kept(e) == \A f \in extIds : <<f.authority, f.number, f.type>> # <<e.authority, e.number, e.type>>
<1>1. extIds' = extIds \cup {e \in new : kept(e)}
  BY DEF RegisterIds
<1>2. r \in Record
  BY DEF RegisterIds, At, BaseInv, Fine, Local, Pc
<1>3. \A n, t : Row(n, t).authority = Authority[r] /\ Row(n, t).number = n /\ Row(n, t).type = t
                /\ Row(n, t).project = w.dec.project
  OBVIOUS
<1>4. \A e \in new : /\ e.authority = Authority[r] /\ e.project = w.dec.project
                     /\ (e.number = Number[r] \/ e.number \in Refs[r])
  BY <1>3
<1>5. \E e \in extIds' : e.authority = Authority[r] /\ e.number = Number[r]
  <2> DEFINE e == Row(Number[r], "primary")
  <2>1. e \in new /\ e.authority = Authority[r] /\ e.number = Number[r]
    BY <1>3
  <2>2. CASE kept(e)
    BY <1>1, <2>1, <2>2
  <2>3. CASE ~kept(e)
    <3>1. PICK f \in extIds : <<f.authority, f.number, f.type>> = <<e.authority, e.number, e.type>>
      BY <2>3
    <3>2. f.authority = e.authority /\ f.number = e.number /\ f \in extIds'
      BY <1>1, <3>1
    <3> QED BY <2>1, <3>2
  <2> QED BY <2>2, <2>3
<1>6. Official(r)' # {}
  BY <1>5 DEF Official
<1> HIDE DEF new
<1> QED BY <1>1, <1>2, <1>4, <1>6

LEMMA FoundStatement == ASSUME BaseInv, FoundInv, NEW q \in Process, Statement(q) PROVE FoundInv'
<1>1. PICK w \in Job : w = work[q]
  BY DEF BaseInv, Typed
<1>2. PICK n : n = work'[q]
  OBVIOUS
<1>3. Found(w) /\ Fine(q, w)
  BY <1>1 DEF FoundInv, BaseInv
<1>4. CASE ReadProject(q)
  <2>1. /\ Others(q) /\ w.pc = "read" /\ n.phase = w.phase /\ n.todo = w.todo /\ n.rec = w.rec
        /\ n.pc = IF w.phase = "update" THEN "advance" ELSE "write"
    BY <1>1, <1>2, <1>4, ReadProjectIs DEF Keeps
  <2>2. Found(n)
    BY <1>3, <2>1 DEF Found
  <2> QED BY <1>2, <1>4, <2>1, <2>2, FoundSame DEF ReadProject, graph, queue
<1>5. CASE WriteProject(q)
  <2>1. /\ Others(q) /\ w.pc = "write" /\ n.phase = w.phase /\ n.todo = w.todo /\ n.rec = w.rec
        /\ n.pc = "register"
    BY <1>1, <1>2, <1>5, WriteProjectIs
  <2>2. Found(n)
    BY <1>3, <2>1 DEF Found
  <2> QED BY <1>2, <1>5, <2>1, <2>2, FoundSame DEF WriteProject, queue
<1>6. CASE RegisterIds(q)
  <2>1. Others(q) /\ Keeps(q) /\ work'[q].pc = "derive"
    BY <1>6, GoesOn DEF RegisterIds, After
  <2>2. n.phase = w.phase /\ n.todo = w.todo /\ n.rec = w.rec /\ n.pc = "derive"
    BY <1>1, <1>2, <2>1 DEF Keeps
  <2>r. PICK r : r = w.rec
    OBVIOUS
  <2>o. /\ extIds \subseteq extIds' /\ Official(r)' # {} /\ r \in Record
        /\ \A e \in extIds' : e \in extIds \/
                (/\ e.authority = Authority[r]
                 /\ (e.number = Number[r] \/ e.number \in Refs[r]))
    BY <1>1, <1>6, <2>r, RegisteredIs
  <2>3. /\ extIds \subseteq extIds' /\ Official(w.rec)' # {} /\ w.rec \in Record
        /\ \A e \in extIds' : e \in extIds \/
                (/\ e.authority = Authority[w.rec]
                 /\ (e.number = Number[w.rec] \/ e.number \in Refs[w.rec]))
    BY <2>r, <2>o
  <2>4. IdsInv'
    BY <2>3 DEF FoundInv, IdsInv
  <2>5. Found(w)'
    BY <1>3, <2>3, FoundGrows
  <2>6. Found(n)'
    BY <2>2, <2>3, <2>5 DEF Found
  <2> QED BY <1>2, <1>6, <2>1, <2>3, <2>4, <2>6, FoundStep DEF RegisterIds, queue
<1>7. CASE Derive(q)
  <2>1. Goto(q, IF work[q].phase = "update" THEN "stamp" ELSE "insert")
    BY <1>7 DEF Derive, After
  <2>2. Others(q) /\ Keeps(q) /\ work'[q].pc \in {"stamp", "insert"}
    BY <2>1, GoesOn
  <2>3. n.phase = w.phase /\ n.todo = w.todo /\ n.rec = w.rec /\ n.pc \in {"stamp", "insert"} /\ w.pc = "derive"
    BY <1>1, <1>2, <1>7, <2>2 DEF Keeps, Derive, At
  <2>4. Found(n) /\ Official(w.rec) # {}
    BY <1>3, <2>3 DEF Found
  <2>5. \A e \in events' : e \in events \/ e.rec = w.rec
    BY <1>1, <1>7 DEF Derive
  <2>6. IdsInv'
    BY <1>7 DEF FoundInv, IdsInv, Derive
  <2> QED BY <1>2, <1>7, <2>2, <2>4, <2>5, <2>6, FoundStep DEF Derive, queue
<1>8. CASE InsertResolution(q)
  <2>1. /\ w.pc = "insert" /\ Others(q)
        /\ Ended(q) \/ (work'[q].pc = "mark" /\ Keeps(q))
    BY <1>1, <1>8, InsertResolutionIs
  <2>2. Official(w.rec) # {}
    BY <1>1, <1>3, <1>8, InsertResolutionIs DEF Found
  <2>3. Found(n)
    <3>1. CASE Ended(q)
      BY <1>1, <1>2, <1>3, <3>1, FoundEnded DEF Ended
    <3>2. CASE work'[q].pc = "mark" /\ Keeps(q)
      BY <1>1, <1>2, <1>3, <2>2, <3>2 DEF Found, Keeps
    <3> QED BY <1>1, <1>8, <3>1, <3>2, InsertResolutionIs
  <2>4. \A r \in Record : resolutions'[r] # Null => resolutions[r] # Null \/ r = w.rec
    BY <1>1, <1>8, InsertResolutionIs
  <2>5. IdsInv' /\ UNCHANGED <<extIds, events>>
    BY <1>8 DEF FoundInv, IdsInv, InsertResolution, graph
  <2> QED BY <1>2, <1>8, <2>2, <2>3, <2>4, <2>5, FoundStep, InsertResolutionIs
<1>9. CASE Park(q) \/ MarkMerged(q)
  BY <1>9, FoundReturn DEF Park, MarkMerged, graph
<1>10. CASE MarkRejected(q)
  <2>1. Others(q) /\ Keeps(q) /\ work'[q].pc = "official"
    BY <1>10, GoesOn DEF MarkRejected
  <2>2. n.phase = w.phase /\ n.todo = w.todo /\ n.pc = "official"
    BY <1>1, <1>2, <2>1 DEF Keeps
  <2>3. Found(n)
    BY <1>3, <2>2 DEF Found
  <2> QED BY <1>2, <1>10, <2>1, <2>3, FoundSame DEF MarkRejected, graph
<1>11. CASE CheckPending(q)
  <2>1. Others(q) /\ w.phase # "update"
    BY <1>1, <1>3, <1>11, CheckPendingIs DEF Fine, Course
  <2>2. Found(n)
    <3>1. CASE Ended(q)
      BY <1>1, <1>2, <1>3, <3>1, FoundEnded DEF Ended
    <3>2. CASE ~Ended(q)
      <4>1. n.phase = w.phase /\ n.pc \in {"read", "reject"}
        BY <1>1, <1>2, <1>11, <3>2, CheckPendingIs
      <4> QED BY <2>1, <4>1 DEF Found
    <3> QED BY <3>1, <3>2
  <2> QED BY <1>2, <1>11, <2>1, <2>2, FoundSame DEF CheckPending, graph, queue
<1>12. CASE Ladder(q)
  <2>1. Others(q) /\ w.phase # "update"
    BY <1>1, <1>3, <1>12, LadderGoes DEF Fine, Course, LadderPc
  <2>2. Found(n)
    <3>1. CASE Ended(q)
      BY <1>1, <1>2, <1>3, <3>1, FoundEnded DEF Ended
    <3>2. CASE ~Ended(q)
      <4>1. n.phase = w.phase /\ n.pc \in {"read", "write", "park", "check"} \cup LadderPc
        BY <1>1, <1>2, <1>12, <3>2, LadderGoes
        DEF Passes, Keeps, Onward, Settled, Leaves, LadderPc
      <4> QED BY <2>1, <4>1 DEF Found, LadderPc
    <3> QED BY <3>1, <3>2
  <2> QED BY <1>2, <1>12, <2>1, <2>2, FoundSame, LadderReads DEF graph, queue
<1> QED BY <1>4, <1>5, <1>6, <1>7, <1>8, <1>9, <1>10, <1>11, <1>12 DEF Statement

LEMMA FoundChain == ASSUME BaseInv, FoundInv, ChainStep PROVE FoundInv'
<1> "chain" \in Process
  BY DEF Process
<1>1. PICK w \in Job : w = work["chain"]
  BY DEF BaseInv, Typed
<1>2. PICK n : n = work'["chain"]
  OBVIOUS
<1>3. Found(w)
  BY <1>1 DEF FoundInv
<1>4. CASE StartChain
  <2>1. Others("chain") /\ n.phase = "resolve" /\ n.pc = "take"
    BY <1>2, <1>4, LoopIs DEF StartChain
  <2> QED BY <1>2, <1>4, <2>1, FoundSame DEF StartChain, graph, queue, Found
<1>5. CASE NextLoop
  <2>1. Others("chain") /\ n.pc = "take"
    BY <1>2, <1>5, NextLoopIs
  <2>2. n.phase = "update" => \A t \in n.todo : Official(t[1]) # {}
    <3>1. n.phase = "update" => \E R \in SUBSET {s \in Record : Drifted(s)} :
            n.todo = {<<r, version[r], resolutions[r]>> : r \in R}
      BY <1>2, <1>5, NextLoopIs
    <3> QED BY <3>1 DEF Drifted, FoundInv
  <2>3. Found(n)
    BY <2>1, <2>2 DEF Found
  <2> QED BY <1>2, <1>5, <2>1, <2>3, FoundSame DEF NextLoop, graph, queue
<1>6. CASE TakeRecord
  <2>1. Others("chain") /\ n.phase = "resolve" /\ n.pc = "official"
    BY <1>2, <1>6, TakeRecordIs
  <2>2. Found(n)
    BY <2>1 DEF Found
  <2> QED BY <1>2, <1>6, <2>1, <2>2, FoundSame DEF TakeRecord, graph, queue
<1>7. CASE TakeUpdate
  <2>1. /\ Others("chain") /\ n.phase = "update" /\ n.pc = "read" /\ w.phase = "update"
        /\ \E t \in w.todo : n.rec = t[1] /\ n.todo = w.todo \ {t}
    BY <1>1, <1>2, <1>7, TakeUpdateIs
  <2>2. Found(n)
    BY <1>3, <2>1 DEF Found
  <2> QED BY <1>2, <1>7, <2>1, <2>2, FoundSame DEF TakeUpdate, graph, queue
<1>8. CASE TakeReview
  <2>1. Others("chain") /\ n.phase = "reevaluate" /\ n.pc = "official"
    BY <1>2, <1>8, TakeReviewIs
  <2>2. Found(n)
    BY <2>1 DEF Found
  <2> QED BY <1>2, <1>8, <2>1, <2>2, FoundSame DEF TakeReview, graph, queue
<1>9. CASE AdvanceStage
  <2>1. Others("chain") /\ Keeps("chain") /\ n.pc = "derive" /\ w.pc = "advance"
    BY <1>1, <1>2, <1>9, GoesOn DEF AdvanceStage, At
  <2>2. n.phase = w.phase /\ n.todo = w.todo /\ n.rec = w.rec
    BY <1>1, <1>2, <2>1 DEF Keeps
  <2>3. Found(n)
    BY <1>3, <2>1, <2>2 DEF Found
  <2> QED BY <1>2, <1>9, <2>1, <2>3, FoundSame DEF AdvanceStage, queue
<1>10. CASE StampProcessed
  <2>1. \A r \in Record : resolutions'[r] # Null => resolutions[r] # Null
    BY <1>10 DEF StampProcessed, BaseInv, Typed
  <2> QED BY <1>10, <2>1, FoundReturn DEF StampProcessed, graph
<1> QED BY <1>4, <1>5, <1>6, <1>7, <1>8, <1>9, <1>10, FoundStatement DEF ChainStep

LEMMA FoundPeople == ASSUME BaseInv, FoundInv, ReviewerStep \/ OperatorStep PROVE FoundInv'
<1> "reviewer" \in Process /\ "operator" \in Process
  BY DEF Process
<1>1. CASE TakeDecision
  <2>1. PICK n : n = work'["reviewer"]
    OBVIOUS
  <2>2. Others("reviewer") /\ n.phase = "decide" /\ n.pc = "check"
    BY <1>1, <2>1, TakeDecisionIs
  <2>3. Found(n)
    BY <2>2 DEF Found
  <2> QED BY <1>1, <2>1, <2>2, <2>3, FoundSame DEF TakeDecision, graph, queue
<1>2. CASE Statement("reviewer")
  BY <1>2, FoundStatement
<1>3. CASE UndoDerived
  <2>1. PICK n : n = work'["operator"]
    OBVIOUS
  <2>2. Others("operator") /\ Keeps("operator") /\ n.pc = "unmark" /\ work["operator"].pc = "undo"
    BY <1>3, <2>1, GoesOn DEF UndoDerived, At
  <2>3. n.phase = "undo"
    BY <2>1, <2>2 DEF Keeps, BaseInv, Fine, Course
  <2>4. Found(n) /\ IdsInv'
    BY <1>3, <2>2, <2>3 DEF Found, FoundInv, IdsInv, UndoDerived
  <2> QED BY <1>3, <2>1, <2>2, <2>4, FoundStep DEF UndoDerived, queue
<1>4. CASE MarkUndone
  <2>1. \A r \in Record : resolutions'[r] # Null => resolutions[r] # Null
    BY <1>4 DEF MarkUndone, BaseInv, Typed
  <2> QED BY <1>4, <2>1, FoundReturn DEF MarkUndone, graph
<1> QED BY <1>1, <1>2, <1>3, <1>4 DEF ReviewerStep, OperatorStep

LEMMA FoundNext == ASSUME BaseInv, FoundInv, [ResolutionNext]_resolutionVars, BaseInv' PROVE FoundInv'
<1> "chain" \in Process /\ "reviewer" \in Process /\ "operator" \in Process
  BY DEF Process
<1>1. CASE UNCHANGED <<work, extIds, resolutions, events>>
  BY <1>1 DEF FoundInv, IdsInv, Found, Official
<1>2. ASSUME NEW r \in Record, RequestUndo(r) PROVE FoundInv'
  <2>1. PICK n : n = work'["operator"]
    OBVIOUS
  <2>2. Others("operator") /\ n.pc = "undo"
    BY <1>2, <2>1, RequestUndoIs
  <2>3. n.phase = "undo"
    BY <2>1, <2>2 DEF BaseInv, Fine, Course
  <2>4. Found(n)
    BY <2>2, <2>3 DEF Found
  <2> QED BY <1>2, <2>1, <2>2, <2>4, FoundSame DEF RequestUndo, graph, queue
<1>3. ASSUME NEW V, NEW verdict, Request(V, verdict) PROVE FoundInv'
  <2>1. PICK n : n = work'["reviewer"]
    OBVIOUS
  <2>2. Others("reviewer") /\ n.phase = "decide" /\ n.pc = "take"
    BY <1>3, <2>1, RequestIs
  <2>3. Found(n)
    BY <2>2 DEF Found
  <2> QED BY <1>3, <2>1, <2>2, <2>3, FoundSame DEF Request, graph, queue
<1>4. ASSUME NEW q \in Process, Fault(q) PROVE FoundInv'
  BY <1>4, FoundReturn DEF Fault, graph, queue
<1>5. CASE CrashChain
  <2>1. PICK n : n = work'["chain"]
    OBVIOUS
  <2>2. Others("chain") /\ n.phase = "idle" /\ n.pc = "take"
    BY <1>5, <2>1, LoopIs DEF CrashChain
  <2>3. Found(n)
    BY <2>2 DEF Found
  <2> QED BY <1>5, <2>1, <2>2, <2>3, FoundSame DEF CrashChain, graph, queue
<1>6. ASSUME NEW r \in Record, Fetch(r) PROVE FoundInv'
  BY <1>1, <1>6 DEF Fetch, graph, queue
<1> QED BY <1>1, <1>2, <1>3, <1>4, <1>5, <1>6, FoundChain, FoundPeople DEF ResolutionNext, resolutionVars

\* A record that is resolved, or has caused an event, has its permit number registered: it is found by
\* pass 1 (resolver.ts:93-114, 416-428).
THEOREM FoundInvariant == ResolutionSpec => []FoundInv
<1>1. ResolutionInit => FoundInv
  BY FoundInit
<1>2. BaseInv /\ BaseInv' /\ FoundInv /\ [ResolutionNext]_resolutionVars => FoundInv'
  BY FoundNext
<1> QED BY <1>1, <1>2, BaseInvariant, PTL DEF ResolutionSpec

--------------------------------------------------------------------------------
(* The ways taken while no person has refused a candidate.                  *)

\* A person who refuses nothing approves.
Approves(w) ==
    \/ w.pc \in {"take", "check", "reject"}
    \/ /\ w.verdict = "merge" /\ w.pc \in {"read", "write", "register", "derive", "insert", "mark"}
       /\ w.pc = "write" => w.dec.kind = "merge"

\* The records the resolver has selected are different ones, and nobody is asked about them.
Listing(w) ==
    w.phase = "resolve" =>
      /\ \A t, u \in w.todo : t[1] = u[1] => t = u
      /\ \A t \in w.todo : /\ w.pc # "take" => w.rec # t[1]
                           /\ ~refused => ~IsPending(t[1])
      /\ w.pc \in LadderPc /\ ~refused => ~IsPending(w.rec)

PathInv == (~refused => Approves(work["reviewer"])) /\ Listing(work["chain"])

LEMMA PathInit == ResolutionInit => PathInv
BY DEF ResolutionInit, PathInv, Approves, Listing, Idle, Process

\* The chain goes on with its row, or to the next one.
Follows(w, n) ==
    n.phase = "resolve" =>
      /\ w.phase = "resolve" /\ n.todo = w.todo
      /\ n.pc = "take" \/ (w.pc # "take" /\ n.rec = w.rec)
      /\ n.pc \in LadderPc => w.pc \in LadderPc

\* Nobody is asked anything new.
NoneAsked == \A v \in Pending' : v \in Pending /\ reviews'[v].rec = reviews[v].rec

LEMMA PathStep ==
    ASSUME PathInv, NEW q \in Process, Others(q), refused \in BOOLEAN, refused' \in BOOLEAN,
           refused => refused', NEW n, n = work'[q],
           q = "reviewer" /\ ~refused' => Approves(n),
           ~refused' => NoneAsked,
           q = "chain" => Follows(work[q], n)
    PROVE  PathInv'
<1> "chain" \in Process /\ "reviewer" \in Process
  BY DEF Process
<1>1. ASSUME ~refused' PROVE Approves(work["reviewer"])'
  <2>1. CASE q = "reviewer"
    <3>1. Approves(n) /\ work'["reviewer"] = n
      BY <1>1, <2>1
    <3> QED BY <3>1 DEF Approves
  <2>2. CASE q # "reviewer"
    <3>1. PICK w : w = work["reviewer"]
      OBVIOUS
    <3>2. Approves(w) /\ work'["reviewer"] = w
      BY <1>1, <2>2, <3>1 DEF PathInv, Others
    <3> QED BY <3>2 DEF Approves
  <2> QED BY <2>1, <2>2
<1>2. \A r : ~refused' /\ ~IsPending(r) => ~IsPending(r)'
  BY DEF NoneAsked, IsPending
<1>3. PICK w, m : w = work["chain"] /\ m = work'["chain"]
  OBVIOUS
<1>4. Follows(w, m)
  <2>1. q # "chain" => m = w
    BY <1>3 DEF Others
  <2> QED BY <1>3, <2>1 DEF Follows, LadderPc
<1>5. Listing(w)
  BY <1>3 DEF PathInv
<1>6. Listing(m)'
  BY <1>2, <1>4, <1>5 DEF Listing, Follows, LadderPc
<1> QED BY <1>1, <1>3, <1>6 DEF PathInv

LEMMA PathSame ==
    ASSUME PathInv, NEW q \in Process, Others(q), refused \in BOOLEAN, UNCHANGED <<refused, reviews>>,
           NEW n, n = work'[q], q = "reviewer" /\ ~refused => Approves(n),
           q = "chain" => Follows(work[q], n)
    PROVE  PathInv'
<1>1. NoneAsked
  BY DEF NoneAsked, Pending
<1> QED BY <1>1, PathStep

\* The last statement of a row.
LEMMA PathReturn ==
    ASSUME BaseInv, PathInv, NEW q \in Process, Return(q), UNCHANGED refused, ~refused => NoneAsked
    PROVE  PathInv'
<1>1. Others(q) /\ Ended(q)
  BY ComesBack
<1>2. PICK w \in Job : w = work[q]
  BY DEF BaseInv, Typed
<1>3. PICK n : n = work'[q]
  OBVIOUS
<1>4. n = Done(w) /\ n.pc = "take"
  BY <1>1, <1>2, <1>3, DoneIs DEF Ended
<1>5. Follows(w, n)
  BY <1>2, <1>4, DoneIs DEF Follows, LadderPc
<1>6. Approves(n)
  BY <1>4 DEF Approves
<1>7. refused \in BOOLEAN /\ refused' \in BOOLEAN
  BY DEF BaseInv, Typed
<1> QED BY <1>1, <1>2, <1>3, <1>5, <1>6, <1>7, PathStep

LEMMA ParkIs ==
    ASSUME BaseInv, NEW q \in Process, Park(q)
    PROVE  /\ work[q].pc = "park" /\ work[q].rec \in Record /\ Return(q)
           /\ \E v \in Review :
                /\ reviews[v] = Null
                /\ reviews'[v].rec = work[q].rec /\ reviews'[v].candidate = work[q].dec.project
                /\ \A u \in Review : u # v => reviews'[u] = reviews[u]
<1>1. PICK w \in Job : w = work[q]
  BY DEF BaseInv, Typed
<1>2. Fine(q, w) /\ w.pc = "park" /\ Return(q)
  BY <1>1 DEF BaseInv, Park, At
<1> DEFINE free == {v \in Review : reviews[v] = Null}
           row  == [rec |-> w.rec, candidate |-> w.dec.project, rule |-> w.dec.rule, status |-> "pending"]
<1>3. free # {} /\ reviews' = [reviews EXCEPT ![Min(free)] = row]
  BY <1>1 DEF Park
<1>4. Min(free) \in Review /\ reviews[Min(free)] = Null
  <2>1. free \in SUBSET Nat
    BY Numbers DEF Review
  <2> QED BY <1>3, <2>1, MinIn
<1>5. row.rec = w.rec /\ row.candidate = w.dec.project
  OBVIOUS
<1> HIDE DEF row
<1> QED BY <1>1, <1>2, <1>3, <1>4, <1>5 DEF BaseInv, Typed, Fine, Local, Pc

LEMMA PathStatement == ASSUME BaseInv, PathInv, NEW q \in Process, Statement(q), BaseInv' PROVE PathInv'
<1>1. PICK w \in Job : w = work[q]
  BY DEF BaseInv, Typed
<1>2. PICK n : n = work'[q]
  OBVIOUS
<1>3. refused \in BOOLEAN /\ refused' \in BOOLEAN /\ Fine(q, w)
  BY <1>1 DEF BaseInv, Typed
<1>4. q = "reviewer" /\ ~refused => Approves(w)
  BY <1>1 DEF PathInv
<1>5. CASE ReadProject(q)
  <2>1. /\ w.pc = "read" /\ Others(q) /\ n.phase = w.phase /\ n.todo = w.todo /\ n.rec = w.rec
        /\ n.dec = w.dec /\ n.verdict = w.verdict
        /\ n.pc = IF w.phase = "update" THEN "advance" ELSE "write"
    BY <1>1, <1>2, <1>5, ReadProjectIs DEF Keeps
  <2>2. Follows(w, n)
    BY <2>1 DEF Follows, LadderPc
  <2>3. q = "reviewer" /\ ~refused => Approves(n)
    BY <1>3, <1>4, <2>1 DEF Approves, Fine, Local, Course
  <2> QED BY <1>1, <1>2, <1>3, <1>5, <2>1, <2>2, <2>3, PathSame DEF ReadProject, queue, count, told
<1>6. CASE WriteProject(q)
  <2>1. /\ w.pc = "write" /\ Others(q) /\ n.phase = w.phase /\ n.todo = w.todo /\ n.rec = w.rec
        /\ n.verdict = w.verdict /\ n.pc = "register"
    BY <1>1, <1>2, <1>6, WriteProjectIs
  <2>2. Follows(w, n)
    BY <2>1 DEF Follows, LadderPc
  <2>3. q = "reviewer" /\ ~refused => Approves(n)
    BY <1>4, <2>1 DEF Approves
  <2> QED BY <1>1, <1>2, <1>3, <1>6, <2>1, <2>2, <2>3, PathSame DEF WriteProject, queue, count, told
<1>7. CASE RegisterIds(q) \/ Derive(q)
  <2>1. /\ w.pc \in {"register", "derive"} /\ UNCHANGED <<reviews, refused>>
        /\ \E x \in {"derive", "stamp", "insert"} : Goto(q, x) /\ (x = "stamp" => w.phase = "update")
    BY <1>1, <1>7 DEF RegisterIds, Derive, At, queue, count, told, After
  <2>2. PICK x \in {"derive", "stamp", "insert"} : Goto(q, x) /\ (x = "stamp" => w.phase = "update")
    BY <2>1
  <2>3. /\ Others(q) /\ n.phase = w.phase /\ n.todo = w.todo /\ n.rec = w.rec
        /\ n.verdict = w.verdict /\ n.pc = x
    BY <1>1, <1>2, <2>2, GoesOn DEF Keeps
  <2>4. Follows(w, n)
    BY <2>1, <2>2, <2>3 DEF Follows, LadderPc
  <2>5. q = "reviewer" /\ ~refused => Approves(n)
    BY <1>3, <1>4, <2>1, <2>2, <2>3 DEF Approves, Fine, Course
  <2> QED BY <1>1, <1>2, <1>3, <2>1, <2>3, <2>4, <2>5, PathSame
<1>8. CASE InsertResolution(q)
  <2>1. Others(q) /\ w.pc = "insert" /\ UNCHANGED <<reviews, refused>>
    BY <1>1, <1>8, InsertResolutionIs DEF InsertResolution, count, told
  <2>2. CASE Ended(q)
    <3>1. n = Done(w) /\ n.pc = "take"
      BY <1>1, <1>2, <2>2, DoneIs DEF Ended
    <3>2. Follows(w, n)
      BY <1>1, <3>1, DoneIs DEF Follows, LadderPc
    <3>3. Approves(n)
      BY <3>1 DEF Approves
    <3> QED BY <1>1, <1>2, <1>3, <2>1, <3>2, <3>3, PathSame
  <2>3. CASE ~Ended(q)
    <3>1. w.verdict = "merge" /\ n.pc = "mark" /\ n.verdict = w.verdict /\ n.phase = w.phase
          /\ n.todo = w.todo /\ n.rec = w.rec
      BY <1>1, <1>2, <1>8, <2>3, InsertResolutionIs DEF Keeps
    <3>2. Follows(w, n) /\ Approves(n)
      BY <2>1, <3>1 DEF Follows, Approves, LadderPc
    <3> QED BY <1>1, <1>2, <1>3, <2>1, <3>2, PathSame
  <2> QED BY <2>2, <2>3
<1>9. CASE Park(q)
  <2>1. PICK v \in Review :
          /\ reviews[v] = Null /\ reviews'[v].rec = work[q].rec
          /\ \A u \in Review : u # v => reviews'[u] = reviews[u]
    BY <1>9, ParkIs
  <2>2. w.pc = "park" /\ Return(q) /\ UNCHANGED refused
    BY <1>1, <1>9 DEF Park, At, count, told
  <2>3. /\ reviews'[v].rec = w.rec
        /\ \A u \in Review : u # v => reviews'[u] = reviews[u]
    BY <1>1, <2>1
  <2>4. \A r : r # w.rec /\ ~IsPending(r) => ~IsPending(r)'
    BY <2>3 DEF IsPending, Pending
  <2>5. Others(q) /\ Ended(q)
    BY <2>2, ComesBack
  <2>6. n = Done(w) /\ n.pc = "take"
    BY <1>1, <1>2, <2>5, DoneIs DEF Ended
  <2>7. CASE q = "chain"
    <3>1. work'["reviewer"] = work["reviewer"]
      BY <2>5, <2>7 DEF Others, Process
    <3>2. PICK z : z = work["reviewer"]
      OBVIOUS
    <3>3. ~refused' => Approves(work["reviewer"])'
      <4>1. ~refused => Approves(z)
        BY <3>2 DEF PathInv
      <4> QED BY <2>2, <3>1, <3>2, <4>1 DEF Approves
    <3>4. Listing(w)
      BY <1>1, <2>7 DEF PathInv
    <3>5. n.phase = "resolve" => w.phase = "resolve" /\ n.todo = w.todo
      BY <1>1, <2>6, DoneIs
    <3>6. Listing(n)'
      BY <2>2, <2>4, <2>6, <3>4, <3>5 DEF Listing, LadderPc
    <3> QED BY <1>2, <2>7, <3>3, <3>6 DEF PathInv
  <2>8. CASE q # "chain"
    <3>1. q # "operator"
      BY <1>3, <2>2 DEF Fine, Course
    <3>2. refused
      BY <1>4, <2>2, <2>8, <3>1 DEF Approves, Process
    <3> QED BY <2>2, <3>2, PathReturn
  <2> QED BY <2>7, <2>8
<1>10. CASE CheckPending(q)
  <2>1. Others(q) /\ w.pc = "check" /\ UNCHANGED <<reviews, refused>> /\ w.phase # "resolve"
    BY <1>1, <1>3, <1>10, CheckPendingIs DEF CheckPending, queue, count, told, Fine, Course
  <2>2. /\ n = Done(w) /\ n.pc = "take"
        \/ /\ n.phase = w.phase /\ n.verdict = w.verdict
           /\ n.pc = IF w.verdict = "merge" THEN "read" ELSE "reject"
    BY <1>1, <1>2, <1>10, CheckPendingIs, DoneIs DEF Ended
  <2>3. n.phase # "resolve"
    BY <1>1, <2>1, <2>2, DoneIs
  <2>4. Follows(w, n) /\ Approves(n)
    BY <2>2, <2>3 DEF Follows, Approves, LadderPc
  <2> QED BY <1>1, <1>2, <1>3, <2>1, <2>4, PathSame
<1>11. CASE MarkMerged(q) \/ MarkRejected(q)
  <2>1. w.pc \in {"mark", "reject"} /\ There(w.review)
    BY <1>1, <1>3, <1>11 DEF MarkMerged, MarkRejected, At, Fine, Local
  <2>2. PICK status \in {"merged", "rejected"} : reviews' = [reviews EXCEPT ![w.review].status = status]
    BY <1>1, <1>11 DEF MarkMerged, MarkRejected
  <2>3. PICK u : u = w.review
    OBVIOUS
  <2>4. u \in Review /\ reviews[u] # Null
    BY <2>1, <2>3 DEF There
  <2>5. /\ reviews'[u].status = status /\ \A v \in Review : v # u => reviews'[v] = reviews[v]
    BY <2>2, <2>3, <2>4, OutcomeIs
  <2>6. NoneAsked
    BY <2>5 DEF NoneAsked, Pending
  <2>7. CASE MarkMerged(q)
    BY <2>6, <2>7, PathReturn DEF MarkMerged, count, told
  <2>8. CASE MarkRejected(q)
    <3>1. Others(q) /\ n.pc = "official" /\ w.pc = "reject"
          /\ refused' = (refused \/ q = "reviewer")
      BY <1>1, <1>2, <2>8, GoesOn DEF MarkRejected, At
    <3>2. n.phase = w.phase /\ n.phase # "resolve"
      BY <1>1, <1>2, <1>3, <2>8, <3>1, GoesOn DEF MarkRejected, Keeps, Fine, Course
    <3>3. Follows(w, n)
      BY <3>2 DEF Follows, LadderPc
    <3> QED BY <1>1, <1>2, <1>3, <2>6, <3>1, <3>3, PathStep
  <2> QED BY <1>11, <2>7, <2>8
<1>12. CASE Ladder(q)
  <2>1. /\ Others(q) /\ w.pc \in LadderPc /\ UNCHANGED <<reviews, refused>>
        /\ Ended(q) \/ Passes(q) \/ Settled(q) \/ \E d : Leaves(q, d)
    <3>1. UNCHANGED <<reviews, refused>>
      BY <1>12, LadderReads DEF queue, count, told
    <3>2. Others(q) /\ w.pc \in LadderPc
      BY <1>1, <1>12, LadderGoes
    <3>3. Ended(q) \/ Passes(q) \/ Settled(q) \/ \E d : Leaves(q, d)
      BY <1>12, LadderGoes
    <3> QED BY <3>1, <3>2, <3>3
  <2>2. q = "reviewer" => refused
    BY <1>4, <2>1 DEF Approves, LadderPc
  <2>3. CASE Ended(q)
    <3>1. n = Done(w) /\ n.pc = "take"
      BY <1>1, <1>2, <2>3, DoneIs DEF Ended
    <3>2. Follows(w, n)
      BY <1>1, <3>1, DoneIs DEF Follows, LadderPc
    <3> QED BY <1>1, <1>2, <1>3, <2>1, <2>2, <3>2, PathSame
  <2>4. CASE ~Ended(q)
    <3>1. n.phase = w.phase /\ (n.phase = "resolve" => n.todo = w.todo /\ n.rec = w.rec)
      BY <1>1, <1>2, <2>1, <2>4 DEF Passes, Keeps, Settled, Leaves
    <3>2. Follows(w, n)
      BY <2>1, <3>1 DEF Follows, LadderPc
    <3> QED BY <1>1, <1>2, <1>3, <2>1, <2>2, <3>2, PathSame
  <2> QED BY <2>3, <2>4
<1> QED BY <1>5, <1>6, <1>7, <1>8, <1>9, <1>10, <1>11, <1>12 DEF Statement

\* A step of the chain.
LEMMA PathOfChain ==
    ASSUME PathInv, Others("chain"), UNCHANGED <<reviews, refused>>, NEW n, n = work'["chain"], Listing(n)
    PROVE  PathInv'
<1>1. PICK z : z = work["reviewer"]
  OBVIOUS
<1>2. work'["reviewer"] = z
  BY <1>1 DEF Others, Process
<1>3. ~refused => Approves(z)
  BY <1>1 DEF PathInv
<1>4. (~refused => Approves(work["reviewer"]))'
  BY <1>2, <1>3 DEF Approves
<1>5. Listing(n)'
  BY DEF Listing, IsPending, Pending
<1> QED BY <1>4, <1>5 DEF PathInv

LEMMA PathChain == ASSUME BaseInv, PathInv, ChainStep, BaseInv' PROVE PathInv'
<1> "chain" \in Process
  BY DEF Process
<1>1. PICK w \in Job : w = work["chain"]
  BY DEF BaseInv, Typed
<1>2. PICK n : n = work'["chain"]
  OBVIOUS
<1>3. Listing(w)
  BY <1>1 DEF PathInv
<1>4. CASE StartChain
  <2>0. PICK R \in SUBSET {s \in Record : Unresolved(s)} :
           Loop("resolve", {<<r, version[r]>> : r \in R})
    BY <1>4, SelectionsIs DEF StartChain
  <2>1. Others("chain") /\ n.pc = "take" /\ n.todo = {<<r, version[r]>> : r \in R}
    BY <1>2, <2>0, LoopIs
  <2>2. Listing(n)
    BY <2>1 DEF Listing, Unresolved, LadderPc
  <2> QED BY <1>2, <1>4, <2>1, <2>2, PathOfChain DEF StartChain, queue, told
<1>5. CASE NextLoop
  <2>1. Others("chain") /\ n.phase # "resolve"
    BY <1>2, <1>5, NextLoopIs
  <2>2. Listing(n)
    BY <2>1 DEF Listing, LadderPc
  <2> QED BY <1>2, <1>5, <2>1, <2>2, PathOfChain DEF NextLoop, queue, count, told
<1>6. CASE TakeRecord
  <2>1. /\ w.phase = "resolve" /\ Others("chain")
        /\ \E t \in w.todo : n.todo = w.todo \ {t} /\ n.rec = t[1]
    BY <1>1, <1>2, <1>6, TakeRecordIs
  <2>2. Listing(n)
    BY <1>3, <2>1 DEF Listing, LadderPc
  <2> QED BY <1>2, <1>6, <2>1, <2>2, PathOfChain DEF TakeRecord, queue, count, told
<1>7. CASE TakeUpdate
  <2>1. Others("chain") /\ n.phase = "update"
    BY <1>2, <1>7, TakeUpdateIs
  <2>2. Listing(n)
    BY <2>1 DEF Listing, LadderPc
  <2> QED BY <1>2, <1>7, <2>1, <2>2, PathOfChain DEF TakeUpdate, queue, count, told
<1>8. CASE TakeReview
  <2>1. Others("chain") /\ n.phase = "reevaluate"
    BY <1>2, <1>8, TakeReviewIs
  <2>2. Listing(n)
    BY <2>1 DEF Listing, LadderPc
  <2> QED BY <1>2, <1>8, <2>1, <2>2, PathOfChain DEF TakeReview, queue, count, told
<1>9. CASE AdvanceStage
  <2>1. Others("chain") /\ n.phase = w.phase /\ w.pc = "advance"
    BY <1>1, <1>2, <1>9, GoesOn DEF AdvanceStage, At, Keeps
  <2>2. n.phase = "update"
    BY <1>1, <2>1 DEF BaseInv, Fine, Course
  <2>3. Listing(n)
    BY <2>2 DEF Listing, LadderPc
  <2> QED BY <1>2, <1>9, <2>1, <2>3, PathOfChain DEF AdvanceStage, queue, count, told
<1>10. CASE StampProcessed
  <2>1. NoneAsked
    BY <1>10 DEF StampProcessed, NoneAsked, Pending
  <2> QED BY <1>10, <2>1, PathReturn DEF StampProcessed, count, told
<1> QED BY <1>4, <1>5, <1>6, <1>7, <1>8, <1>9, <1>10, PathStatement DEF ChainStep

LEMMA PathNext == ASSUME BaseInv, PathInv, [ResolutionNext]_resolutionVars, BaseInv' PROVE PathInv'
<1> "chain" \in Process /\ "reviewer" \in Process /\ "operator" \in Process
  BY DEF Process
<1>b. refused \in BOOLEAN
  BY DEF BaseInv, Typed
<1>1. CASE UNCHANGED <<work, reviews, refused>>
  <2>1. \A r : IsPending(r)' = IsPending(r)
    BY <1>1 DEF IsPending, Pending
  <2> QED BY <1>1, <2>1 DEF PathInv, Approves, Listing
<1>2. ASSUME NEW r \in Record, RequestUndo(r) PROVE PathInv'
  BY <1>b, <1>2, RequestUndoIs, PathSame DEF RequestUndo, queue, told
<1>3. ASSUME NEW V, NEW verdict, Request(V, verdict) PROVE PathInv'
  <2>1. PICK n : n = work'["reviewer"]
    OBVIOUS
  <2>2. Others("reviewer") /\ n.pc = "take"
    BY <1>3, <2>1, RequestIs
  <2>3. Approves(n)
    BY <2>2 DEF Approves
  <2> QED BY <1>b, <1>3, <2>1, <2>2, <2>3, PathSame DEF Request, queue, told
<1>4. ASSUME NEW q \in Process, Fault(q) PROVE PathInv'
  <2>1. NoneAsked
    BY <1>4 DEF Fault, NoneAsked, Pending, queue
  <2> QED BY <1>4, <2>1, PathReturn DEF Fault, told
<1>5. CASE CrashChain
  <2>1. PICK n : n = work'["chain"]
    OBVIOUS
  <2>2. Others("chain") /\ n.phase = "idle"
    BY <1>5, <2>1, LoopIs DEF CrashChain
  <2>3. Listing(n)
    BY <2>2 DEF Listing, LadderPc
  <2> QED BY <1>5, <2>1, <2>2, <2>3, PathOfChain DEF CrashChain, queue, told
<1>6. ASSUME NEW r \in Record, Fetch(r) PROVE PathInv'
  BY <1>1, <1>6 DEF Fetch, queue, told
<1>7. CASE TakeDecision
  <2>1. PICK n : n = work'["reviewer"]
    OBVIOUS
  <2>2. Others("reviewer") /\ n.pc = "check"
    BY <1>7, <2>1, TakeDecisionIs
  <2>3. Approves(n)
    BY <2>2 DEF Approves
  <2> QED BY <1>b, <1>7, <2>1, <2>2, <2>3, PathSame DEF TakeDecision, queue, count, told
<1>8. CASE UndoDerived
  <2>1. Others("operator")
    BY <1>8, GoesOn DEF UndoDerived
  <2> QED BY <1>b, <1>8, <2>1, PathSame DEF UndoDerived, queue, count, told
<1>9. CASE MarkUndone
  <2>1. NoneAsked
    BY <1>9 DEF MarkUndone, NoneAsked, Pending
  <2> QED BY <1>9, <2>1, PathReturn DEF MarkUndone, count, told
<1> QED BY <1>1, <1>2, <1>3, <1>4, <1>5, <1>6, <1>7, <1>8, <1>9, PathChain, PathStatement
        DEF ResolutionNext, ReviewerStep, OperatorStep, resolutionVars, queue, count, told

\* A reviewer at work carries out the review it took up, and no record the chain has listed waits for
\* a person, until a candidate is refused.
THEOREM PathInvariant == ResolutionSpec => []PathInv
<1>1. ResolutionInit => PathInv
  BY PathInit
<1>2. BaseInv /\ BaseInv' /\ PathInv /\ [ResolutionNext]_resolutionVars => PathInv'
  BY PathNext
<1> QED BY <1>1, <1>2, BaseInvariant, PTL DEF ResolutionSpec

--------------------------------------------------------------------------------
(* One permit, one project: all that is said of a permit names one project. *)

\* The review a person merges waits for the very record.
On(w) == w.review \in Pending /\ reviews[w.review].rec = w.rec

Permit(r) == {s \in Record : Number[s] = Number[r] /\ Authority[s] = Authority[r]}

\* The process has a project for its record.
Carries(w) ==
    \/ w.pc \in {"park", "read", "advance", "register", "derive", "insert", "stamp", "mark"}
    \/ w.pc = "write" /\ w.dec.kind = "merge"

Holds(w, r, p) ==
    \/ Carries(w) /\ w.rec \in Permit(r) /\ w.dec.project = p
    \/ w.phase = "update" /\ \E t \in w.todo : t[1] \in Permit(r) /\ t[3].project = p

Stored(r, p) ==
    \/ p \in Official(r)
    \/ \E v \in Pending : reviews[v].rec \in Permit(r) /\ reviews[v].candidate = p
    \/ \E s \in Permit(r) : resolutions[s] # Null /\ resolutions[s].project = p
    \/ \E e \in events : e.rec \in Permit(r) /\ e.project = p

Says(r, p) == Stored(r, p) \/ \E q \in Process : Holds(work[q], r, p)

\* The chain is about to make a project of the permit; the reviewer's merge is backed by the
\* review or by the ids; the chain rejects nothing of the permit; and when it asks who waits
\* for the permit, nobody has given it an id since it asked for one, or somebody waits.
Makes(w, r) ==
    /\ w.rec \in Permit(r)
    /\ \/ w.pc = "write" /\ w.dec.kind = "create"
       \/ w.phase = "resolve" /\ w.pc \in {"parcel", "address", "near"}
Backed(w, r) == w.pc \in {"read", "write", "register"} /\ w.rec \in Permit(r) => On(w) \/ Official(r) # {}
Spared(w, r) ==
    /\ w.pc = "check" /\ w.verdict = "reject" /\ w.review \in Pending => reviews[w.review].rec \notin Permit(r)
    /\ w.pc = "reject" \/ (w.pc \in LadderPc /\ w.verdict = "reject") => w.rec \notin Permit(r)
Asks(w, r)  == w.phase = "resolve" /\ w.pc = "twin" /\ w.rec \in Permit(r)
Waits(w, r) == Asks(w, r) =>
    Official(r) = {} \/ \E v \in Pending : reviews[v].rec \in Permit(r) /\ reviews[v].rec # w.rec

Unique(r) == \A a, b : Says(r, a) /\ Says(r, b) => a = b
Maker(r)  == Makes(work["chain"], r) => \A a : ~Says(r, a)

One(r) == /\ Unique(r) /\ Maker(r)
          /\ Backed(work["reviewer"], r) /\ Spared(work["chain"], r) /\ Waits(work["chain"], r)

\* A person's refusal may split a permit on purpose, an approval between two passes does
\* (OnePermitOneProject): until one of them happened, all that is said is one.
HomeInv == ~refused /\ ~crossed => \A r \in Record : Plain(r) => One(r)

LEMMA HomeInit == ResolutionInit => HomeInv
<1> SUFFICES ASSUME ResolutionInit, NEW r \in Record PROVE One(r)
  BY DEF HomeInv
<1>1. "chain" \in Process /\ "reviewer" \in Process
  BY DEF Process
<1>2. \A q \in Process : work[q].phase = "idle" /\ work[q].pc = "take"
  BY DEF ResolutionInit, Idle
<1>3. \A p : ~Says(r, p)
  BY <1>2 DEF ResolutionInit, Says, Stored, Holds, Carries, Official, Pending, Permit
<1> QED BY <1>1, <1>2, <1>3 DEF One, Unique, Maker, Makes, Backed, Spared, Waits, Asks, LadderPc

\* The review rows a step leaves pending; those it closes.
Remains(r) ==
    /\ \A v \in Pending' : There(v) => v \in Pending /\ reviews'[v].rec = reviews[v].rec
    /\ \A v \in Pending : reviews[v].rec \in Permit(r) =>
         Official(r) # {} \/ (v \in Pending' /\ reviews'[v].rec = reviews[v].rec)

LEMMA OneStep ==
    ASSUME BaseInv, NEW r \in Record, One(r), NEW q \in Process, Others(q), NEW n, n = work'[q],
           extIds \subseteq extIds', Remains(r), Unique(r)', Maker(r)',
           q = "reviewer" => Backed(n, r)', q = "chain" => Spared(n, r)',
           NEW c, c = work'["chain"], Waits(c, r)'
    PROVE  One(r)'
<1> "chain" \in Process /\ "reviewer" \in Process
  BY DEF Process
<1>1. Official(r) # {} => Official(r)' # {}
  BY OfficialGrows
<1>2. Backed(work["reviewer"], r)'
  <2>1. PICK z : z = work["reviewer"]
    OBVIOUS
  <2>2. CASE q = "reviewer"
    <3>1. Backed(n, r)' /\ work'["reviewer"] = n
      BY <2>2
    <3> QED BY <3>1 DEF Backed, On
  <2>3. CASE q # "reviewer"
    <3>1. work'["reviewer"] = z /\ Backed(z, r)
      BY <2>1, <2>3 DEF Others, One
    <3>2. Backed(z, r)'
      BY <1>1, <3>1 DEF Backed, On, Remains
    <3> QED BY <3>1, <3>2 DEF Backed, On
  <2> QED BY <2>2, <2>3
<1>3. Spared(work["chain"], r)'
  <2>1. PICK z : z = work["chain"]
    OBVIOUS
  <2>2. CASE q = "chain"
    <3>1. Spared(n, r)' /\ work'["chain"] = n
      BY <2>2
    <3> QED BY <3>1 DEF Spared
  <2>3. CASE q # "chain"
    <3>1. work'["chain"] = z /\ Spared(z, r) /\ (z.pc = "check" => There(z.review))
      BY <2>1, <2>3 DEF Others, One, BaseInv, Fine, Local
    <3>2. Spared(z, r)'
      BY <3>1 DEF Spared, Remains
    <3> QED BY <3>1, <3>2 DEF Spared
  <2> QED BY <2>2, <2>3
<1>4. Waits(work["chain"], r)'
  BY DEF Waits, Asks
<1> QED BY <1>2, <1>3, <1>4 DEF One

\* Who asks is not misled by a step that gives the permit no id and closes none of its reviews.
LEMMA StillWaits ==
    ASSUME NEW r, NEW c, Waits(c, r), Official(r)' = Official(r),
           \A v \in Pending : reviews[v].rec \in Permit(r) => v \in Pending' /\ reviews'[v].rec = reviews[v].rec
    PROVE  Waits(c, r)'
BY DEF Waits, Asks

\* Nothing new is said.
LEMMA NoNews ==
    ASSUME NEW r \in Record, One(r), NEW q \in Process, Others(q), NEW n, n = work'[q],
           \A p : Stored(r, p)' => Says(r, p), \A p : Holds(n, r, p) => Says(r, p),
           q = "chain" /\ Makes(n, r) => \A p : ~Says(r, p)
    PROVE  (\A p : Says(r, p)' => Says(r, p)) /\ Unique(r)' /\ Maker(r)'
<1> "chain" \in Process
  BY DEF Process
<1>1. ASSUME NEW p, Says(r, p)' PROVE Says(r, p)
  <2>1. CASE Stored(r, p)'
    BY <2>1
  <2>2. CASE \E o \in Process : Holds(work'[o], r, p)
    <3>1. PICK o \in Process : Holds(work'[o], r, p)
      BY <2>2
    <3>2. work'[o] = n \/ work'[o] = work[o]
      BY DEF Others
    <3> QED BY <3>1, <3>2 DEF Says
  <2> QED BY <1>1, <2>1, <2>2 DEF Says
<1>2. Unique(r)'
  <2> SUFFICES ASSUME NEW a, NEW b, Says(r, a)', Says(r, b)' PROVE a = b
    BY DEF Unique
  <2> QED BY <1>1 DEF One, Unique
<1>3. Maker(r)'
  <2> SUFFICES ASSUME Makes(work'["chain"], r), NEW a PROVE ~Says(r, a)'
    BY DEF Maker, Makes
  <2>1. CASE q = "chain"
    BY <1>1, <2>1
  <2>2. CASE q # "chain"
    <3>1. Makes(work["chain"], r)
      BY <2>2 DEF Others
    <3> QED BY <1>1, <3>1 DEF One, Maker
  <2> QED BY <2>1, <2>2
<1> QED BY <1>1, <1>2, <1>3

\* A step that leaves ids and reviews as they are.
LEMMA OneSame ==
    ASSUME BaseInv, NEW r \in Record, One(r), NEW q \in Process, Others(q), NEW n, n = work'[q],
           UNCHANGED <<extIds, reviews>>,
           \A s \in Permit(r) : resolutions'[s] # Null => Says(r, resolutions'[s].project),
           \A e \in events' : e.rec \in Permit(r) => Says(r, e.project),
           \A p : Holds(n, r, p) => Says(r, p), q = "chain" /\ Makes(n, r) => \A p : ~Says(r, p),
           q = "reviewer" => Backed(n, r), q = "chain" => Spared(n, r) /\ Waits(n, r)
    PROVE  One(r)'
<1> "chain" \in Process
  BY DEF Process
<1>1. Pending' = Pending /\ Official(r)' = Official(r)
  BY DEF Pending, Official
<1>2. \A p : Stored(r, p)' => Says(r, p)
  <2> SUFFICES ASSUME NEW p, Stored(r, p)' PROVE Says(r, p)
    OBVIOUS
  <2> QED BY <1>1 DEF Stored, Says
<1>3. Unique(r)' /\ Maker(r)'
  BY <1>2, NoNews
<1>4. Remains(r)
  BY <1>1 DEF Remains
<1>5. (q = "reviewer" => Backed(n, r)') /\ (q = "chain" => Spared(n, r)')
  BY <1>1 DEF Backed, Spared, On
<1>6. PICK c : c = work'["chain"]
  OBVIOUS
<1>7. Waits(c, r)
  <2>1. CASE q = "chain"
    BY <1>6, <2>1
  <2>2. CASE q # "chain"
    <3>1. c = work["chain"]
      BY <1>6, <2>2 DEF Others
    <3> QED BY <3>1 DEF One
  <2> QED BY <2>1, <2>2
<1>8. Waits(c, r)'
  BY <1>1, <1>7, StillWaits
<1> QED BY <1>3, <1>4, <1>5, <1>6, <1>8, OneStep

\* What a step reads of the tables it leaves alone is said already.
LEMMA Heard ==
    ASSUME NEW r, UNCHANGED <<resolutions, events>>
    PROVE  /\ \A s \in Permit(r) : resolutions'[s] # Null => Says(r, resolutions'[s].project)
           /\ \A e \in events' : e.rec \in Permit(r) => Says(r, e.project)
BY DEF Says, Stored

LEMMA HoldsDone ==
    ASSUME NEW w \in Job, NEW r, NEW p, Holds(Done(w), r, p)
    PROVE  Holds(w, r, p)
<1>1. Done(w).pc = "take"
  BY DoneIs
<1>2. \/ Done(w).phase = "idle"
      \/ Done(w).phase = w.phase /\ Done(w).todo = w.todo
  BY DoneIs
<1> QED BY <1>1, <1>2 DEF Holds, Carries

\* The last statement of a row.
LEMMA OneReturn ==
    ASSUME BaseInv, NEW r \in Record, One(r), NEW q \in Process, Return(q),
           UNCHANGED <<extIds, reviews>>,
           \A s \in Permit(r) : resolutions'[s] # Null => Says(r, resolutions'[s].project),
           \A e \in events' : e.rec \in Permit(r) => Says(r, e.project)
    PROVE  One(r)'
<1>1. PICK w \in Job : w = work[q]
  BY DEF BaseInv, Typed
<1>2. PICK n : n = work'[q]
  OBVIOUS
<1>3. Others(q) /\ n = Done(w) /\ n.pc = "take"
  BY <1>1, <1>2, ComesBack, DoneIs DEF Ended
<1>4. \A p : Holds(n, r, p) => Says(r, p)
  BY <1>1, <1>3, HoldsDone DEF Says
<1>5. Backed(n, r) /\ Spared(n, r) /\ ~Makes(n, r) /\ Waits(n, r)
  BY <1>3 DEF Backed, Spared, Makes, Waits, Asks, LadderPc
<1> QED BY <1>2, <1>3, <1>4, <1>5, OneSame

--------------------------------------------------------------------------------
(* What the ladder says of a permit nobody cites.                           *)

LEMMA OfPermit == ASSUME NEW r, NEW s \in Permit(r) PROVE Official(s) = Official(r) /\ s \in Record
BY DEF Permit, Official

LEMMA CitedIs ==
    ASSUME IdsInv, NEW r \in Record, Plain(r), NEW s \in Permit(r)
    PROVE  Cited(s) = Official(r)
<1>1. Refs[s] = {} /\ s \in Record /\ Number[s] = Number[r] /\ Authority[s] = Authority[r]
  BY DEF Permit, Plain
<1>2. ASSUME NEW e \in extIds, e.number = Number[r] PROVE e.authority = Authority[r]
  <2>1. PICK z \in Record : e.authority = Authority[z] /\ (e.number = Number[z] \/ e.number \in Refs[z])
    BY DEF IdsInv
  <2> QED BY <1>2, <2>1 DEF Plain
<1> QED BY <1>1, <1>2 DEF Cited, Official

\* Whoever says no more than one project, and is not found to say one, says none.
LEMMA NoneCited ==
    ASSUME NEW r, One(r), Cardinality(Official(r)) # 1
    PROVE  Official(r) = {}
<1> SUFFICES ASSUME NEW p \in Official(r) PROVE FALSE
  OBVIOUS
<1>1. \A a \in Official(r) : a = p
  BY DEF One, Unique, Says, Stored
<1>2. Official(r) = {p}
  BY <1>1
<1> QED BY <1>2, FS_Singleton

\* What the ladder is for: when its strong passes find nothing, nothing has been said.
LEMMA Silence ==
    ASSUME BaseInv, FoundInv, PathInv, ~refused, NEW r \in Record, One(r), NEW s \in Permit(r),
           work["chain"].phase = "resolve", work["chain"].pc = "twin",
           Official(r) = {}, Twins(s) = {}, ~IsPending(s)
    PROVE  \A p : ~Says(r, p)
<1>1. \A v \in Pending : reviews[v].rec \notin Permit(r)
  BY DEF Twins, IsPending, Permit, SamePermit
<1>2. \A z \in Permit(r) : resolutions[z] = Null
  BY OfPermit DEF FoundInv
<1>3. \A e \in events : e.rec \notin Permit(r)
  BY OfPermit DEF FoundInv
<1>4. ASSUME NEW q \in Process, NEW p, Holds(work[q], r, p) PROVE FALSE
  <2>1. PICK w \in Job : w = work[q]
    BY DEF BaseInv, Typed
  <2>2. Fine(q, w) /\ Found(w) /\ Holds(w, r, p)
    BY <1>4, <2>1 DEF BaseInv, FoundInv
  <2>3. CASE q = "chain"
    BY <2>1, <2>2, <2>3 DEF Holds, Carries
  <2>4. CASE q = "operator"
    BY <2>2, <2>4 DEF Fine, Course, Holds, Carries
  <2>5. CASE q = "reviewer"
    <3>1. w.phase # "update" /\ Approves(w) /\ Backed(w, r)
      BY <2>1, <2>2, <2>5 DEF Fine, Course, PathInv, One
    <3>2. w.rec \in Permit(r) /\ w.pc \in {"read", "write", "register", "derive", "insert", "mark"}
      BY <2>2, <3>1 DEF Holds, Carries, Approves
    <3>3. Official(w.rec) = {} /\ ~On(w)
      BY <1>1, <3>2, OfPermit DEF On
    <3> QED BY <2>2, <3>1, <3>2, <3>3 DEF Backed, Found
  <2> QED BY <2>3, <2>4, <2>5 DEF Process
<1> QED BY <1>1, <1>2, <1>3, <1>4 DEF Says, Stored

\* Of a permit nobody cites the ladder says what has been said, or the first word.
LEMMA LadderSays ==
    ASSUME BaseInv, FoundInv, ~refused, NEW r \in Record, Plain(r), One(r),
           NEW w \in Job, w = work["chain"], w.rec \in Permit(r), w.phase = "resolve", w.pc \in LadderPc,
           NEW d, Finding(w, d)
    PROVE  (d.kind \in {"merge", "review"} /\ Says(r, d.project)) \/ \A p : ~Says(r, p)
<1>1. IdsInv /\ Typed /\ Placed /\ w.rec \in Record
  BY OfPermit DEF FoundInv, BaseInv
<1>2. CASE w.pc \in {"official", "cite"}
  <2>1. d.kind = "merge" /\ d.project \in Official(w.rec) \cup Cited(w.rec)
    BY <1>2 DEF Finding
  <2>2. Official(w.rec) = Official(r) /\ Cited(w.rec) = Official(r)
    BY <1>1, CitedIs, OfPermit
  <2> QED BY <2>1, <2>2 DEF Says, Stored
<1>3. CASE w.pc = "twin"
  <2>1. PICK u : u = Min(Twins(w.rec))
    OBVIOUS
  <2>2. d.kind = "review" /\ Twins(w.rec) # {} /\ d.project = reviews[u].candidate
    BY <1>3, <2>1 DEF Finding
  <2>3. u \in Twins(w.rec)
    BY <1>1, <2>1, <2>2, TwinIs
  <2>4. u \in Pending /\ reviews[u].rec \in Permit(r)
    <3>1. reviews[u].rec \in Record
      BY <1>1, <2>3 DEF Twins, Pending, Typed, ReviewRow
    <3> QED BY <2>3, <3>1 DEF Twins, Permit, SamePermit
  <2> QED BY <2>2, <2>4 DEF Says, Stored
<1>4. CASE w.pc \in {"parcel", "address", "near"}
  <2>1. Makes(work["chain"], r)
    BY <1>4 DEF Makes
  <2> QED BY <2>1 DEF One, Maker
<1> QED BY <1>2, <1>3, <1>4 DEF LadderPc

\* The chain leaves the ladder with decision d.
LEMMA LeavesHome ==
    ASSUME BaseInv, FoundInv, PathInv, ~refused, NEW r \in Record, Plain(r), One(r),
           NEW w \in Job, w = work["chain"], w.rec \in Permit(r), w.phase = "resolve", w.pc \in LadderPc,
           Others("chain"), UNCHANGED <<extIds, reviews, resolutions, events>>,
           NEW d, Leaves("chain", d)
    PROVE  One(r)'
<1> "chain" \in Process
  BY DEF Process
<1>1. PICK n : n = work'["chain"]
  OBVIOUS
<1>2. /\ Finding(w, d) /\ n.dec = d /\ n.phase = "resolve" /\ n.rec = w.rec
      /\ \/ d.kind = "merge" /\ n.pc = "read"
         \/ d.kind = "create" /\ n.pc = "write"
         \/ d.kind = "review" /\ n.pc = "park"
  BY <1>1 DEF Leaves
<1>3. Spared(n, r) /\ Waits(n, r)
  BY <1>2 DEF Spared, Waits, Asks, LadderPc
<1>4. \A p : Holds(n, r, p) => p = d.project /\ d.kind \in {"merge", "review"}
  BY <1>2 DEF Holds, Carries
<1>5. CASE d.kind \in {"merge", "review"} /\ Says(r, d.project)
  <2>1. \A p : Holds(n, r, p) => Says(r, p)
    BY <1>4, <1>5
  <2>2. ~Makes(n, r)
    BY <1>2, <1>5 DEF Makes
  <2> QED BY <1>1, <1>3, <2>1, <2>2, Heard, OneSame
<1>6. CASE \A p : ~Says(r, p)
  <2>1. \A p : Stored(r, p)' = Stored(r, p)
    BY DEF Stored, Official, Pending
  <2>2. ASSUME NEW p, Says(r, p)' PROVE Holds(n, r, p)
    <3>1. ~Stored(r, p)'
      BY <1>6, <2>1 DEF Says
    <3>2. PICK o \in Process : Holds(work'[o], r, p)
      BY <2>2, <3>1 DEF Says
    <3>3. work'[o] = n \/ work'[o] = work[o]
      BY <1>1 DEF Others
    <3> QED BY <1>6, <3>2, <3>3 DEF Says
  <2>3. Unique(r)'
    <3> SUFFICES ASSUME NEW a, NEW b, Says(r, a)', Says(r, b)' PROVE a = b
      BY DEF Unique
    <3> QED BY <1>4, <2>2
  <2>4. Maker(r)'
    <3> SUFFICES ASSUME Makes(n, r), NEW a PROVE ~Says(r, a)'
      BY <1>1 DEF Maker, Makes
    <3>1. d.kind = "create"
      BY <1>2 DEF Makes
    <3> QED BY <1>4, <2>2, <3>1
  <2>5. Remains(r)
    BY DEF Remains, Pending
  <2>6. Spared(n, r)' /\ Waits(n, r)'
    BY <1>3 DEF Spared, Waits, Pending, Official
  <2> QED BY <1>1, <2>3, <2>4, <2>5, <2>6, OneStep
<1> QED BY <1>2, <1>5, <1>6, LadderSays

\* The chain goes on to the next pass.
LEMMA PassesHome ==
    ASSUME BaseInv, FoundInv, PathInv, ~refused, NEW r \in Record, Plain(r), One(r),
           NEW w \in Job, w = work["chain"], w.rec \in Permit(r), w.phase = "resolve", w.pc \in LadderPc,
           Others("chain"), UNCHANGED <<extIds, reviews, resolutions, events>>,
           Passes("chain")
    PROVE  One(r)'
<1> "chain" \in Process
  BY DEF Process
<1>1. PICK n : n = work'["chain"]
  OBVIOUS
<1>2. PICK x : Onward(w, x) /\ n.pc = x
  BY <1>1 DEF Passes
<1>3. n.phase = "resolve" /\ n.rec = w.rec /\ n.verdict = w.verdict
  BY <1>1 DEF Passes, Keeps
<1>4. x \in {"cite", "twin", "parcel", "address", "near"}
  BY <1>2 DEF Onward
<1>5. w.verdict # "reject" /\ w.rec \in Record /\ ~IsPending(w.rec) /\ Waits(w, r)
  BY OfPermit DEF One, Spared, PathInv, Listing
<1>6. IdsInv
  BY DEF FoundInv
<1>7. (\A p : ~Holds(n, r, p)) /\ Spared(n, r)
  BY <1>2, <1>3, <1>4, <1>5 DEF Holds, Carries, Spared
<1>8. Waits(n, r)
  <2> SUFFICES ASSUME x = "twin" PROVE Official(r) = {}
    BY <1>2 DEF Waits, Asks
  <2>1. Cardinality(Cited(w.rec)) # 1
    BY <1>2 DEF Onward
  <2>2. Cited(w.rec) = Official(r)
    BY <1>6, CitedIs
  <2> QED BY <2>1, <2>2, NoneCited
<1>9. Makes(n, r) => \A p : ~Says(r, p)
  <2>1. CASE x = "parcel"
    <3>1. w.pc = "twin" /\ Twins(w.rec) = {}
      BY <1>2, <1>5, <2>1 DEF Onward
    <3>2. Official(r) = {}
      <4> SUFFICES ASSUME NEW v \in Pending, reviews[v].rec \in Permit(r), reviews[v].rec # w.rec PROVE FALSE
        BY <1>5, <3>1 DEF Waits, Asks
      <4>1. v \in Twins(w.rec)
        BY DEF Twins, SamePermit, Permit
      <4> QED BY <3>1, <4>1
    <3> QED BY <1>5, <3>1, <3>2, Silence
  <2>2. CASE x \in {"address", "near"}
    <3>1. w.pc \in {"parcel", "address"}
      BY <1>2, <2>2 DEF Onward
    <3>2. Makes(work["chain"], r)
      BY <3>1 DEF Makes
    <3> QED BY <3>2 DEF One, Maker
  <2>3. CASE x \in {"cite", "twin"}
    BY <1>2, <2>3 DEF Makes
  <2> QED BY <1>4, <2>1, <2>2, <2>3
<1> QED BY <1>1, <1>7, <1>8, <1>9, Heard, OneSame

\* The preview of a parked record of the permit speaks for the candidate.
LEMMA SettledSpares ==
    ASSUME BaseInv, FoundInv, NEW r \in Record, Plain(r), One(r), NEW w \in Job, w = work["chain"],
           w.pc \in LadderPc, Settled("chain"), NEW n, n = work'["chain"], w.phase = "reevaluate"
    PROVE  Spared(n, r)
<1>1. PICK d : /\ Finding(w, d) /\ d.kind = "merge" /\ d.rule \in StrongRule
               /\ n.verdict = IF d.project = reviews[w.review].candidate THEN "merge" ELSE "reject"
  BY DEF Settled
<1>2. n.pc = "check" /\ n.review = w.review
  BY DEF Settled
<1>3. reviews[w.review].rec = w.rec
  BY DEF BaseInv, Fine, Local, Process
<1> SUFFICES ASSUME n.verdict = "reject", w.review \in Pending, w.rec \in Permit(r) PROVE FALSE
  BY <1>2, <1>3 DEF Spared, LadderPc
<1>4. w.pc \in {"official", "cite"}
  BY <1>1 DEF Finding, Weak, LadderPc
<1>5. d.project \in Official(w.rec) \cup Cited(w.rec)
  BY <1>1, <1>4 DEF Finding
<1>6. d.project \in Official(r)
  BY <1>5, CitedIs, OfPermit DEF FoundInv
<1>7. Says(r, d.project) /\ Says(r, reviews[w.review].candidate)
  BY <1>3, <1>6 DEF Says, Stored
<1> QED BY <1>1, <1>7 DEF One, Unique

LEMMA LadderHome ==
    ASSUME BaseInv, FoundInv, PathInv, ~refused, NEW r \in Record, Plain(r), One(r),
           NEW q \in Process, Ladder(q)
    PROVE  One(r)'
<1> "chain" \in Process
  BY DEF Process
<1>1. PICK w \in Job : w = work[q]
  BY DEF BaseInv, Typed
<1>2. PICK n : n = work'[q]
  OBVIOUS
<1>3. Fine(q, w) /\ w.pc \in LadderPc /\ Others(q) /\ w.rec \in Record
  BY <1>1, LadderGoes DEF BaseInv
<1>4. \/ Ended(q) \/ Passes(q)
      \/ Settled(q) /\ w.phase = "reevaluate"
      \/ \E d : Leaves(q, d)
  BY <1>1, LadderGoes
<1>5. UNCHANGED <<extIds, reviews, resolutions, events>>
  BY LadderReads DEF graph, queue
<1>6. q = "chain"
  <2>1. q # "operator"
    BY <1>3 DEF Fine, Course, LadderPc
  <2>2. q # "reviewer"
    BY <1>1, <1>3 DEF PathInv, Approves, LadderPc
  <2> QED BY <2>1, <2>2 DEF Process
<1>7. w.phase \in {"resolve", "reevaluate"} /\ Spared(w, r) /\ w.verdict # "merge"
  BY <1>1, <1>3, <1>6 DEF Fine, Course, LadderPc, One
<1>8. CASE Ended(q)
  <2>1. n = Done(w) /\ n.pc = "take"
    BY <1>1, <1>2, <1>8, DoneIs DEF Ended
  <2>2. \A p : Holds(n, r, p) => Says(r, p)
    BY <1>1, <2>1, HoldsDone DEF Says
  <2>3. ~Makes(n, r) /\ Spared(n, r) /\ Waits(n, r)
    BY <2>1 DEF Makes, Spared, Waits, Asks, LadderPc
  <2> QED BY <1>2, <1>3, <1>5, <1>6, <2>2, <2>3, Heard, OneSame
<1>9. CASE Settled(q) /\ w.phase = "reevaluate"
  <2>1. n.pc = "check" /\ n.phase = "reevaluate"
    BY <1>1, <1>2, <1>9 DEF Settled
  <2>2. (\A p : ~Holds(n, r, p)) /\ ~Makes(n, r) /\ Waits(n, r)
    BY <2>1 DEF Holds, Carries, Makes, Waits, Asks
  <2>3. Spared(n, r)
    BY <1>1, <1>2, <1>3, <1>6, <1>9, SettledSpares
  <2> QED BY <1>2, <1>3, <1>5, <1>6, <2>2, <2>3, Heard, OneSame
<1>10. CASE w.rec \notin Permit(r) /\ (Passes(q) \/ \E d : Leaves(q, d))
  <2>1. n.rec = w.rec /\ n.phase = w.phase /\ n.pc \in {"read", "write", "park"} \cup LadderPc
    BY <1>1, <1>2, <1>10 DEF Passes, Keeps, Onward, Leaves, LadderPc
  <2>2. (\A p : ~Holds(n, r, p)) /\ ~Makes(n, r) /\ Waits(n, r) /\ Spared(n, r)
    BY <1>7, <1>10, <2>1 DEF Holds, Makes, Waits, Asks, Spared, LadderPc
  <2> QED BY <1>2, <1>3, <1>5, <1>6, <2>2, Heard, OneSame
<1>11. CASE w.rec \in Permit(r) /\ w.phase = "resolve" /\ (Passes(q) \/ \E d : Leaves(q, d))
  BY <1>1, <1>3, <1>5, <1>6, <1>11, PassesHome, LeavesHome
<1>12. CASE w.rec \in Permit(r) /\ w.phase = "reevaluate" /\ (Passes(q) \/ \E d : Leaves(q, d))
  <2>1. w.verdict = Null
    <3>1. w.verdict # "reject"
      BY <1>3, <1>7, <1>12 DEF Spared
    <3> QED BY <1>7, <3>1 DEF Job
  <2>2. Passes(q)
    BY <1>1, <1>12, <2>1 DEF Leaves, Previewing
  <2>3. n.rec = w.rec /\ n.phase = "reevaluate" /\ n.verdict = Null /\ n.pc \in LadderPc
    BY <1>1, <1>2, <1>12, <2>1, <2>2 DEF Passes, Keeps, Onward, LadderPc
  <2>4. (\A p : ~Holds(n, r, p)) /\ ~Makes(n, r) /\ Waits(n, r) /\ Spared(n, r)
    BY <2>3, NullIsNothing DEF Holds, Carries, Makes, Waits, Asks, Spared, LadderPc
  <2> QED BY <1>2, <1>3, <1>5, <1>6, <2>4, Heard, OneSame
<1> QED BY <1>4, <1>7, <1>8, <1>9, <1>10, <1>11, <1>12

LEMMA WriteProjectHome ==
    ASSUME BaseInv, FoundInv, PathInv, ~refused, NEW r \in Record, One(r), NEW q \in Process, WriteProject(q)
    PROVE  One(r)'
<1>1. PICK w \in Job : w = work[q]
  BY DEF BaseInv, Typed
<1>2. PICK n : n = work'[q]
  OBVIOUS
<1>3. Fine(q, w) /\ w.pc = "write" /\ Others(q) /\ UNCHANGED <<extIds, reviews, resolutions, events>>
  BY <1>1, WriteProjectIs DEF BaseInv, WriteProject, queue
<1>4. /\ n.pc = "register" /\ n.phase = w.phase /\ n.rec = w.rec /\ n.review = w.review
      /\ w.phase # "update"
  BY <1>1, <1>2, <1>3, WriteProjectIs DEF Fine, Course
<1>5. w.dec.kind = "merge" => n.dec.project = w.dec.project
  BY <1>1, <1>2, WriteProjectIs
<1>6. \A p : Stored(r, p)' = Stored(r, p)
  BY <1>3 DEF Stored, Official, Pending
<1>7. \A p : Holds(n, r, p) => p = n.dec.project /\ w.rec \in Permit(r)
  BY <1>4 DEF Holds
<1>8. q = "reviewer" => Backed(n, r)
  <2>1. q = "reviewer" => Backed(w, r)
    BY <1>1 DEF One
  <2> QED BY <1>3, <1>4, <2>1 DEF Backed, On
<1>9. Spared(n, r) /\ ~Makes(n, r) /\ Waits(n, r)
  BY <1>4 DEF Spared, Makes, Waits, Asks, LadderPc
<1>10. (q = "reviewer" => Backed(n, r)') /\ Spared(n, r)' /\ Remains(r)
  BY <1>3, <1>8, <1>9 DEF Backed, On, Spared, Remains, Pending, Official
<1>c. PICK c : c = work'["chain"]
  OBVIOUS
<1>d. Waits(c, r)'
  <2>1. Waits(c, r)
    BY <1>2, <1>3, <1>9, <1>c DEF One, Others, Process
  <2> QED BY <1>3, <2>1 DEF Waits, Official, Pending
<1>11. CASE w.dec.kind = "merge" \/ w.rec \notin Permit(r)
  <2>1. \A p : Holds(n, r, p) => Holds(w, r, p)
    BY <1>3, <1>5, <1>7, <1>11 DEF Holds, Carries
  <2>2. \A p : Holds(n, r, p) => Says(r, p)
    BY <1>1, <2>1 DEF Says
  <2>3. \A p : Stored(r, p)' => Says(r, p)
    BY <1>6 DEF Says
  <2>4. Unique(r)' /\ Maker(r)'
    BY <1>2, <1>3, <1>9, <2>2, <2>3, NoNews
  <2> QED BY <1>2, <1>3, <1>10, <1>c, <1>d, <2>4, OneStep
<1>12. CASE w.dec.kind # "merge" /\ w.rec \in Permit(r)
  <2>1. w.dec.kind = "create"
    BY <1>1, <1>12, WriteProjectIs
  <2>2. q = "chain"
    <3>1. q # "operator"
      BY <1>3 DEF Fine, Course
    <3>2. q # "reviewer"
      BY <1>1, <1>3, <1>12 DEF PathInv, Approves, LadderPc
    <3> QED BY <3>1, <3>2 DEF Process
  <2>3. Makes(w, r)
    BY <1>3, <1>12, <2>1 DEF Makes
  <2>4. \A p : ~Says(r, p)
    BY <1>1, <2>2, <2>3 DEF One, Maker
  <2>5. ASSUME NEW p, Says(r, p)' PROVE p = n.dec.project
    <3>1. ~Stored(r, p)'
      BY <1>6, <2>4 DEF Says
    <3>2. PICK o \in Process : Holds(work'[o], r, p)
      BY <2>5, <3>1 DEF Says
    <3>3. work'[o] = n \/ work'[o] = work[o]
      BY <1>2, <1>3 DEF Others
    <3> QED BY <1>7, <2>4, <3>2, <3>3 DEF Says
  <2>6. Unique(r)'
    <3> SUFFICES ASSUME NEW a, NEW b, Says(r, a)', Says(r, b)' PROVE a = b
      BY DEF Unique
    <3> QED BY <2>5
  <2>7. Maker(r)'
    BY <1>2, <1>9, <2>2 DEF Maker, Makes
  <2> QED BY <1>2, <1>3, <1>10, <1>c, <1>d, <2>6, <2>7, OneStep
<1> QED BY <1>11, <1>12

LEMMA RegisterIdsHome ==
    ASSUME BaseInv, FoundInv, PathInv, ~refused, NEW r \in Record, Plain(r), One(r),
           NEW q \in Process, RegisterIds(q)
    PROVE  One(r)'
<1>1. PICK w \in Job : w = work[q]
  BY DEF BaseInv, Typed
<1>2. PICK n : n = work'[q]
  OBVIOUS
<1>3. PICK z : z = w.rec
  OBVIOUS
<1>4. /\ extIds \subseteq extIds' /\ z \in Record
      /\ \A e \in extIds' : e \in extIds \/
           (/\ e.authority = Authority[z] /\ e.project = w.dec.project
            /\ (e.number = Number[z] \/ e.number \in Refs[z]))
  BY <1>1, <1>3, RegisteredIs
<1>5. Others(q) /\ Keeps(q) /\ work'[q].pc = "derive" /\ w.pc = "register"
  BY <1>1, GoesOn DEF RegisterIds, After, At
<1>6. n.pc = "derive" /\ n.phase = w.phase /\ n.todo = w.todo /\ n.rec = w.rec /\ n.dec = w.dec
  BY <1>1, <1>2, <1>5 DEF Keeps
<1>7. UNCHANGED <<reviews, resolutions, events>>
  BY DEF RegisterIds, queue
<1>8. \A p : Holds(n, r, p) => Says(r, p)
  <2>1. \A p : Holds(n, r, p) => Holds(w, r, p)
    BY <1>5, <1>6 DEF Holds, Carries
  <2> QED BY <1>1, <2>1 DEF Says
<1>9. ASSUME NEW p, Stored(r, p)' PROVE Says(r, p)
  <2>1. Pending' = Pending
    BY <1>7 DEF Pending
  <2>2. CASE p \in Official(r)'
    <3>1. PICK e \in extIds' : e.project = p /\ e.authority = Authority[r] /\ e.number = Number[r]
      BY <2>2 DEF Official
    <3>2. CASE e \in extIds
      BY <3>1, <3>2 DEF Says, Stored, Official
    <3>3. CASE e \notin extIds
      <4>1. e.authority = Authority[z] /\ p = w.dec.project /\ (e.number = Number[z] \/ e.number \in Refs[z])
        BY <1>4, <3>1, <3>3
      <4>2. z \in Permit(r)
        BY <1>4, <3>1, <4>1 DEF Plain, Permit
      <4>3. Holds(w, r, p)
        BY <1>3, <1>5, <4>1, <4>2 DEF Holds, Carries
      <4> QED BY <1>1, <4>3 DEF Says
    <3> QED BY <3>2, <3>3
  <2>3. CASE p \notin Official(r)'
    <3>1. Stored(r, p)
      BY <1>7, <1>9, <2>1, <2>3 DEF Stored
    <3> QED BY <3>1 DEF Says
  <2> QED BY <2>2, <2>3
<1>10. ~Makes(n, r) /\ Backed(n, r)' /\ Spared(n, r)' /\ Remains(r)
  BY <1>6, <1>7 DEF Makes, Backed, Spared, Remains, Pending, LadderPc
<1>11. Unique(r)' /\ Maker(r)'
  BY <1>2, <1>5, <1>8, <1>9, <1>10, NoNews
<1>c. PICK c : c = work'["chain"]
  OBVIOUS
<1>12. Waits(c, r)'
  <2> SUFFICES ASSUME Asks(c, r), Official(r)' # {}
               PROVE  \E v \in Pending : reviews[v].rec \in Permit(r) /\ reviews[v].rec # c.rec
    BY <1>7 DEF Waits, Pending, Asks
  <2>1. q # "chain"
    BY <1>c, <1>2, <1>6 DEF Asks
  <2>2. c = work["chain"] /\ Waits(c, r)
    BY <1>c, <1>5, <2>1 DEF Others, Process, One
  <2>3. CASE Official(r) # {}
    BY <2>2, <2>3 DEF Waits
  <2>4. CASE Official(r) = {}
    <3>1. PICK e \in extIds' : e.authority = Authority[r] /\ e.number = Number[r]
      BY DEF Official
    <3>2. e \notin extIds
      BY <2>4, <3>1 DEF Official
    <3>3. z \in Permit(r)
      BY <1>4, <3>1, <3>2 DEF Plain, Permit
    <3>4. q = "reviewer"
      BY <1>1, <1>5, <2>1 DEF Process, BaseInv, Fine, Course
    <3>5. On(w)
      BY <1>1, <1>3, <1>5, <2>4, <3>3, <3>4 DEF One, Backed
    <3>6. w.review \in Pending /\ reviews[w.review].rec = z
      BY <1>3, <3>5 DEF On
    <3>7. ~IsPending(c.rec)
      BY <2>2 DEF Asks, PathInv, Listing, LadderPc
    <3> QED BY <3>3, <3>6, <3>7 DEF IsPending
  <2> QED BY <2>3, <2>4
<1> QED BY <1>2, <1>4, <1>5, <1>10, <1>11, <1>c, <1>12, OneStep

LEMMA ParkHome ==
    ASSUME BaseInv, FoundInv, NEW r \in Record, One(r), NEW q \in Process, Park(q)
    PROVE  One(r)'
<1>1. PICK w \in Job : w = work[q]
  BY DEF BaseInv, Typed
<1>2. PICK n : n = work'[q]
  OBVIOUS
<1>3. w.pc = "park" /\ Return(q) /\ UNCHANGED <<extIds, resolutions, events>>
  BY <1>1, ParkIs DEF Park, graph
<1>4. PICK v \in Review :
        /\ reviews[v] = Null
        /\ reviews'[v].rec = w.rec /\ reviews'[v].candidate = w.dec.project
        /\ \A u \in Review : u # v => reviews'[u] = reviews[u]
  BY <1>1, ParkIs
<1>5. Others(q) /\ n = Done(w) /\ n.pc = "take"
  BY <1>1, <1>2, <1>3, ComesBack, DoneIs DEF Ended
<1>6. \A p : Holds(n, r, p) => Says(r, p)
  BY <1>1, <1>5, HoldsDone DEF Says
<1>7. \A u \in Review : u # v => (u \in Pending' <=> u \in Pending)
  BY <1>4 DEF Pending
<1>8. v \notin Pending /\ ~There(v)
  BY <1>4 DEF Pending, There
<1>9. ASSUME NEW p, Stored(r, p)' PROVE Says(r, p)
  <2>1. CASE \E u \in Pending' : reviews'[u].rec \in Permit(r) /\ reviews'[u].candidate = p
    <3>1. PICK u \in Pending' : reviews'[u].rec \in Permit(r) /\ reviews'[u].candidate = p
      BY <2>1
    <3>2. CASE u = v
      <4>1. Holds(w, r, p)
        BY <1>3, <1>4, <3>1, <3>2 DEF Holds, Carries
      <4> QED BY <1>1, <4>1 DEF Says
    <3>3. CASE u # v
      <4>1. u \in Pending /\ reviews'[u] = reviews[u]
        BY <1>4, <1>7, <3>1, <3>3 DEF Pending
      <4> QED BY <3>1, <4>1 DEF Says, Stored
    <3> QED BY <3>2, <3>3
  <2>2. CASE ~(\E u \in Pending' : reviews'[u].rec \in Permit(r) /\ reviews'[u].candidate = p)
    <3>1. Stored(r, p)
      BY <1>3, <1>9, <2>2 DEF Stored, Official
    <3> QED BY <3>1 DEF Says
  <2> QED BY <2>1, <2>2
<1>10. Remains(r)
  BY <1>4, <1>7, <1>8 DEF Remains, Pending
<1>11. ~Makes(n, r) /\ Backed(n, r)' /\ Spared(n, r)' /\ Waits(n, r)
  BY <1>5 DEF Makes, Backed, Spared, Waits, Asks, LadderPc
<1>12. Unique(r)' /\ Maker(r)'
  BY <1>2, <1>5, <1>6, <1>9, <1>11, NoNews
<1>c. PICK c : c = work'["chain"]
  OBVIOUS
<1>13. Waits(c, r)'
  <2>1. Waits(c, r)
    BY <1>2, <1>5, <1>11, <1>c DEF One, Others, Process
  <2>2. \A u \in Pending : u \in Pending' /\ reviews'[u] = reviews[u]
    BY <1>4, <1>7, <1>8 DEF Pending
  <2>3. Official(r)' = Official(r)
    BY <1>3 DEF Official
  <2> QED BY <2>1, <2>2, <2>3, StillWaits
<1> QED BY <1>2, <1>3, <1>5, <1>10, <1>11, <1>12, <1>c, <1>13, OneStep

LEMMA HomeStatement ==
    ASSUME BaseInv, FoundInv, PathInv, ~refused', ~crossed', NEW r \in Record, Plain(r), One(r),
           NEW q \in Process, Statement(q)
    PROVE  One(r)'
<1>1. PICK w \in Job : w = work[q]
  BY DEF BaseInv, Typed
<1>2. PICK n : n = work'[q]
  OBVIOUS
<1>3. Fine(q, w) /\ Found(w)
  BY <1>1 DEF BaseInv, FoundInv
<1>4. ~refused
  BY LadderReads DEF Statement, ReadProject, WriteProject, RegisterIds, Derive, InsertResolution, Park,
         CheckPending, MarkMerged, MarkRejected, count, told
<1>5. (q = "reviewer" => Approves(w) /\ Backed(w, r)) /\ (q = "chain" => Spared(w, r))
  BY <1>1, <1>4 DEF PathInv, One
<1>s. \A p : Holds(w, r, p) => Says(r, p)
  BY <1>1 DEF Says
<1>6. CASE ReadProject(q)
  <2>1. /\ w.pc = "read" /\ Others(q) /\ n.phase = w.phase /\ n.todo = w.todo /\ n.rec = w.rec
        /\ n.dec = w.dec /\ n.review = w.review
        /\ n.pc = IF w.phase = "update" THEN "advance" ELSE "write"
    BY <1>1, <1>2, <1>6, ReadProjectIs DEF Keeps
  <2>2. w.dec.kind = "merge"
    BY <1>3, <2>1 DEF Fine, Local
  <2>3. \A p : Holds(n, r, p) => Says(r, p)
    BY <1>s, <2>1, <2>2 DEF Holds, Carries
  <2>4. ~Makes(n, r) /\ Spared(n, r) /\ Waits(n, r) /\ (q = "reviewer" => Backed(n, r))
    BY <1>5, <2>1, <2>2 DEF Makes, Spared, Waits, Asks, LadderPc, Backed, On
  <2>5. UNCHANGED <<extIds, reviews, resolutions, events>>
    BY <1>6 DEF ReadProject, graph, queue
  <2> QED BY <1>2, <2>1, <2>3, <2>4, <2>5, Heard, OneSame
<1>7. CASE WriteProject(q)
  BY <1>4, <1>7, WriteProjectHome
<1>8. CASE RegisterIds(q)
  BY <1>4, <1>8, RegisterIdsHome
<1>9. CASE Derive(q)
  <2>1. PICK x \in {"stamp", "insert"} : Goto(q, x)
    BY <1>9 DEF Derive, After
  <2>2. /\ Others(q) /\ n.phase = w.phase /\ n.todo = w.todo /\ n.rec = w.rec /\ n.dec = w.dec
        /\ n.pc = x /\ w.pc = "derive"
    BY <1>1, <1>2, <1>9, <2>1, GoesOn DEF Keeps, Derive, At
  <2>3. \A p : Holds(n, r, p) => Says(r, p)
    BY <1>s, <2>2 DEF Holds, Carries
  <2>4. ~Makes(n, r) /\ Spared(n, r) /\ Waits(n, r) /\ Backed(n, r)
    BY <2>1, <2>2 DEF Makes, Spared, Waits, Asks, LadderPc, Backed
  <2>5. UNCHANGED <<extIds, reviews, resolutions>>
    BY <1>9 DEF Derive, queue
  <2>6. \A e \in events' : e \in events \/ (e.rec = w.rec /\ e.project = w.dec.project)
    BY <1>1, <1>9 DEF Derive
  <2>7. \A e \in events' : e.rec \in Permit(r) => Says(r, e.project)
    BY <1>s, <2>2, <2>6 DEF Says, Stored, Holds, Carries
  <2>8. \A s \in Permit(r) : resolutions'[s] # Null => Says(r, resolutions'[s].project)
    BY <2>5 DEF Says, Stored
  <2> QED BY <1>2, <2>2, <2>3, <2>4, <2>5, <2>7, <2>8, OneSame
<1>10. CASE InsertResolution(q)
  <2>1. Others(q) /\ w.pc = "insert" /\ UNCHANGED <<extIds, reviews, events>>
    BY <1>1, <1>10, InsertResolutionIs DEF InsertResolution, graph
  <2>2. \A s \in Record : \/ resolutions'[s] = resolutions[s]
                          \/ s = w.rec /\ resolutions'[s].project = w.dec.project
    BY <1>1, <1>10, InsertResolutionIs
  <2>3. \A s \in Permit(r) : resolutions'[s] # Null => Says(r, resolutions'[s].project)
    <3> SUFFICES ASSUME NEW s \in Permit(r), resolutions'[s] # Null PROVE Says(r, resolutions'[s].project)
      OBVIOUS
    <3>1. CASE resolutions'[s] = resolutions[s]
      BY <3>1 DEF Says, Stored
    <3>2. CASE resolutions'[s] # resolutions[s]
      <4>1. s = w.rec /\ resolutions'[s].project = w.dec.project
        BY <2>2, <3>2, OfPermit
      <4> QED BY <1>s, <2>1, <4>1 DEF Holds, Carries
    <3> QED BY <3>1, <3>2
  <2>4. \A e \in events' : e.rec \in Permit(r) => Says(r, e.project)
    BY <2>1 DEF Says, Stored
  <2>5. \A p : Holds(n, r, p) => Says(r, p)
    <3>1. CASE Ended(q)
      BY <1>1, <1>2, <1>s, <3>1, HoldsDone DEF Ended
    <3>2. CASE ~Ended(q)
      <4>1. n.phase = w.phase /\ n.todo = w.todo /\ n.rec = w.rec /\ n.dec = w.dec /\ n.pc = "mark"
        BY <1>1, <1>2, <1>10, <3>2, InsertResolutionIs DEF Keeps
      <4> QED BY <1>s, <2>1, <4>1 DEF Holds, Carries
    <3> QED BY <3>1, <3>2
  <2>6. n.pc \in {"take", "mark"}
    BY <1>1, <1>2, <1>10, InsertResolutionIs, DoneIs DEF Ended
  <2>7. ~Makes(n, r) /\ Spared(n, r) /\ Waits(n, r) /\ Backed(n, r)
    BY <2>6 DEF Makes, Spared, Waits, Asks, LadderPc, Backed
  <2> QED BY <1>2, <2>1, <2>3, <2>4, <2>5, <2>7, OneSame
<1>11. CASE Park(q)
  BY <1>11, ParkHome
<1>12. CASE CheckPending(q)
  <2>1. Others(q) /\ w.pc = "check" /\ UNCHANGED <<extIds, reviews, resolutions, events>>
    BY <1>1, <1>12, CheckPendingIs DEF CheckPending, graph, queue
  <2>2. CASE Ended(q)
    <3>1. n = Done(w) /\ n.pc = "take"
      BY <1>1, <1>2, <2>2, DoneIs DEF Ended
    <3>2. \A p : Holds(n, r, p) => Says(r, p)
      BY <1>1, <1>s, <3>1, HoldsDone
    <3>3. ~Makes(n, r) /\ Spared(n, r) /\ Waits(n, r) /\ Backed(n, r)
      BY <3>1 DEF Makes, Spared, Waits, Asks, LadderPc, Backed
    <3> QED BY <1>2, <2>1, <3>2, <3>3, Heard, OneSame
  <2>3. CASE ~Ended(q)
    <3>1. /\ w.review \in Pending /\ n.rec = reviews[w.review].rec
          /\ n.dec.project = reviews[w.review].candidate
          /\ n.phase = w.phase /\ n.review = w.review
          /\ n.pc = IF w.verdict = "merge" THEN "read" ELSE "reject"
      BY <1>1, <1>2, <1>12, <2>3, CheckPendingIs
    <3>2. w.phase # "update" /\ w.verdict \in {"merge", "reject"}
      BY <1>3, <2>1 DEF Fine, Course
    <3>3. \A p : Holds(n, r, p) => Says(r, p)
      BY <3>1, <3>2 DEF Holds, Says, Stored
    <3>4. ~Makes(n, r) /\ Backed(n, r) /\ Waits(n, r)
      BY <3>1 DEF Makes, Backed, On, Waits, Asks
    <3>5. q = "chain" => Spared(n, r)
      BY <1>5, <2>1, <3>1, <3>2 DEF Spared, LadderPc
    <3> QED BY <1>2, <2>1, <3>3, <3>4, <3>5, Heard, OneSame
  <2> QED BY <2>2, <2>3
<1>13. CASE MarkMerged(q) \/ MarkRejected(q)
  <2>1. w.pc \in {"mark", "reject"} /\ There(w.review) /\ reviews[w.review].rec = w.rec
    BY <1>1, <1>3, <1>13 DEF MarkMerged, MarkRejected, At, Fine, Local, Course
  <2>2. PICK status \in {"merged", "rejected"} : reviews' = [reviews EXCEPT ![w.review].status = status]
    BY <1>1, <1>13 DEF MarkMerged, MarkRejected
  <2>3. PICK u : u = w.review
    OBVIOUS
  <2>4. u \in Review /\ reviews[u] # Null
    BY <2>1, <2>3 DEF There
  <2>5. /\ reviews'[u].status = status /\ \A v \in Review : v # u => reviews'[v] = reviews[v]
    BY <2>2, <2>3, <2>4, OutcomeIs
  <2>6. \A v \in Pending' : v \in Pending /\ reviews'[v] = reviews[v]
    BY <2>5 DEF Pending
  <2>7. UNCHANGED <<extIds, resolutions, events>>
    BY <1>13 DEF MarkMerged, MarkRejected, graph
  <2>8. \A p : Stored(r, p)' => Says(r, p)
    BY <2>6, <2>7 DEF Stored, Says, Official
  <2>9. /\ Others(q) /\ (n = Done(w) \/ (n.pc = "official" /\ n.phase = w.phase /\ n.todo = w.todo /\ n.rec = w.rec))
        /\ (w.pc = "mark" => n = Done(w))
    BY <1>1, <1>2, <1>13, ComesBack, GoesOn DEF MarkMerged, MarkRejected, Ended, Keeps, At
  <2>10. n.pc \in {"take", "official"} /\ (n.pc = "official" => n.rec = w.rec /\ w.pc = "reject")
    BY <2>1, <2>9, DoneIs
  <2>11. \A p : Holds(n, r, p) => Says(r, p)
    <3>1. CASE n = Done(w)
      BY <1>s, <3>1, HoldsDone
    <3>2. CASE n # Done(w)
      BY <1>s, <2>9, <3>2 DEF Holds, Carries
    <3> QED BY <3>1, <3>2
  <2>12. ~Makes(n, r) /\ Waits(n, r) /\ Backed(n, r)' /\ (q = "chain" => Spared(n, r)')
    BY <1>5, <2>10 DEF Makes, Waits, Asks, Backed, Spared, LadderPc
  <2>13. w.rec \in Permit(r) => Official(r) # {}
    <3>1. w.pc = "mark" => Official(w.rec) # {}
      BY <1>3 DEF Found
    <3>2. w.pc = "reject" => q = "chain"
      <4>1. w.pc = "reject" /\ q = "reviewer" => refused'
        BY <1>1, <1>13 DEF MarkMerged, MarkRejected, At
      <4>2. w.pc = "reject" => q # "operator"
        BY <1>3 DEF Fine, Course
      <4> QED BY <4>1, <4>2 DEF Process
    <3> QED BY <1>5, <2>1, <3>1, <3>2, OfPermit DEF Spared
  <2>14. Remains(r)
    <3>1. \A v \in Pending : v # u => v \in Pending' /\ reviews'[v].rec = reviews[v].rec
      BY <2>5 DEF Pending
    <3>2. reviews[u].rec = w.rec
      BY <2>1, <2>3
    <3> QED BY <2>6, <2>13, <3>1, <3>2 DEF Remains
  <2>15. Unique(r)' /\ Maker(r)'
    BY <1>2, <2>8, <2>9, <2>11, <2>12, NoNews
  <2>c. PICK c : c = work'["chain"]
    OBVIOUS
  <2>16. Waits(c, r)'
    <3>1. CASE q = "chain"
      BY <1>2, <2>c, <2>10, <3>1 DEF Waits, Asks
    <3>2. CASE q # "chain" /\ ~Asks(c, r)
      BY <3>2 DEF Waits, Asks
    <3>3. CASE q # "chain" /\ Asks(c, r)
      <4>1. c = work["chain"] /\ Waits(c, r)
        BY <2>c, <2>9, <3>3 DEF Others, Process, One
      <4>2. MarkMerged(q)
        <5>1. q = "reviewer"
          BY <1>3, <2>1, <3>3 DEF Process, Fine, Course
        <5> QED BY <1>13, <5>1 DEF MarkRejected
      <4>3. w.rec \notin Permit(r)
        <5>1. ~BetweenPasses(w.rec)
          BY <1>1, <4>2 DEF MarkMerged
        <5>2. work["chain"].phase = "resolve" /\ work["chain"].pc = "twin" /\ work["chain"].rec \in Permit(r)
          BY <3>3, <4>1 DEF Asks
        <5>3. ~SamePermit(work["chain"].rec, w.rec)
          BY <5>1, <5>2 DEF BetweenPasses, At
        <5> QED BY <5>2, <5>3 DEF SamePermit, Permit
      <4>4. \A v \in Pending : reviews[v].rec \in Permit(r) => v \in Pending' /\ reviews'[v].rec = reviews[v].rec
        BY <2>1, <2>3, <2>5, <4>3 DEF Pending
      <4>5. Official(r)' = Official(r)
        BY <2>7 DEF Official
      <4> QED BY <4>1, <4>4, <4>5, StillWaits
    <3> QED BY <3>1, <3>2, <3>3
  <2> QED BY <1>2, <2>7, <2>9, <2>12, <2>14, <2>15, <2>c, <2>16, OneStep
<1>14. CASE Ladder(q)
  BY <1>4, <1>14, LadderHome
<1> QED BY <1>6, <1>7, <1>8, <1>9, <1>10, <1>11, <1>12, <1>13, <1>14 DEF Statement

LEMMA HomeChain ==
    ASSUME BaseInv, FoundInv, PathInv, ~refused', ~crossed', NEW r \in Record, Plain(r), One(r), ChainStep
    PROVE  One(r)'
<1> "chain" \in Process
  BY DEF Process
<1>1. PICK w \in Job : w = work["chain"]
  BY DEF BaseInv, Typed
<1>2. PICK n : n = work'["chain"]
  OBVIOUS
<1>3. Spared(w, r) /\ Fine("chain", w)
  BY <1>1 DEF One, BaseInv
<1>s. \A p : Holds(w, r, p) => Says(r, p)
  BY <1>1 DEF Says
<1>4. CASE StartChain
  <2>1. Others("chain") /\ n.pc = "take" /\ n.phase = "resolve"
    BY <1>2, <1>4, LoopIs DEF StartChain
  <2>2. (\A p : ~Holds(n, r, p)) /\ ~Makes(n, r) /\ Spared(n, r) /\ Waits(n, r)
    BY <2>1 DEF Holds, Carries, Makes, Spared, Waits, Asks, LadderPc
  <2>3. UNCHANGED <<extIds, reviews, resolutions, events>>
    BY <1>4 DEF StartChain, graph, queue
  <2> QED BY <1>2, <2>1, <2>2, <2>3, Heard, OneSame
<1>5. CASE NextLoop
  <2>1. Others("chain") /\ n.pc = "take"
    BY <1>2, <1>5, NextLoopIs
  <2>2. PICK R \in SUBSET {z \in Record : Drifted(z)} :
           n.phase = "update" => n.todo = {<<s, version[s], resolutions[s]>> : s \in R}
    BY <1>2, <1>5, NextLoopIs
  <2>3. ASSUME NEW p, Holds(n, r, p) PROVE Says(r, p)
    <3>1. PICK t \in n.todo : t[1] \in Permit(r) /\ t[3].project = p
      BY <2>1, <2>3 DEF Holds, Carries
    <3>2. PICK s \in Record : Drifted(s) /\ t = <<s, version[s], resolutions[s]>>
      BY <2>1, <2>2, <2>3, <3>1 DEF Holds, Carries
    <3> QED BY <3>1, <3>2 DEF Drifted, Says, Stored
  <2>4. ~Makes(n, r) /\ Spared(n, r) /\ Waits(n, r)
    BY <2>1 DEF Makes, Spared, Waits, Asks, LadderPc
  <2>5. UNCHANGED <<extIds, reviews, resolutions, events>>
    BY <1>5 DEF NextLoop, graph, queue
  <2> QED BY <1>2, <2>1, <2>3, <2>4, <2>5, Heard, OneSame
<1>6. CASE TakeRecord
  <2>1. Others("chain") /\ n.phase = "resolve" /\ n.pc = "official" /\ n.verdict = Null
    BY <1>2, <1>6, TakeRecordIs
  <2>2. (\A p : ~Holds(n, r, p)) /\ ~Makes(n, r) /\ Spared(n, r) /\ Waits(n, r)
    BY <2>1, NullIsNothing DEF Holds, Carries, Makes, Spared, Waits, Asks
  <2>3. UNCHANGED <<extIds, reviews, resolutions, events>>
    BY <1>6 DEF TakeRecord, graph, queue
  <2> QED BY <1>2, <2>1, <2>2, <2>3, Heard, OneSame
<1>7. CASE TakeUpdate
  <2>1. Others("chain") /\ n.phase = "update" /\ n.pc = "read" /\ w.phase = "update"
    BY <1>1, <1>2, <1>7, TakeUpdateIs
  <2>2. \E t \in w.todo : n.rec = t[1] /\ n.dec.project = t[3].project /\ n.todo = w.todo \ {t}
    BY <1>1, <1>2, <1>7, TakeUpdateIs
  <2>3. \A p : Holds(n, r, p) => Says(r, p)
    BY <1>s, <2>1, <2>2 DEF Holds
  <2>4. ~Makes(n, r) /\ Spared(n, r) /\ Waits(n, r)
    BY <2>1 DEF Makes, Spared, Waits, Asks, LadderPc
  <2>5. UNCHANGED <<extIds, reviews, resolutions, events>>
    BY <1>7 DEF TakeUpdate, graph, queue
  <2> QED BY <1>2, <2>1, <2>3, <2>4, <2>5, Heard, OneSame
<1>8. CASE TakeReview
  <2>1. Others("chain") /\ n.phase = "reevaluate" /\ n.pc = "official" /\ n.verdict = Null
    BY <1>2, <1>8, TakeReviewIs
  <2>2. (\A p : ~Holds(n, r, p)) /\ ~Makes(n, r) /\ Spared(n, r) /\ Waits(n, r)
    BY <2>1, NullIsNothing DEF Holds, Carries, Makes, Spared, Waits, Asks
  <2>3. UNCHANGED <<extIds, reviews, resolutions, events>>
    BY <1>8 DEF TakeReview, graph, queue
  <2> QED BY <1>2, <2>1, <2>2, <2>3, Heard, OneSame
<1>9. CASE AdvanceStage
  <2>1. /\ Others("chain") /\ n.phase = w.phase /\ n.todo = w.todo /\ n.rec = w.rec /\ n.dec = w.dec
        /\ n.pc = "derive" /\ w.pc = "advance"
    BY <1>1, <1>2, <1>9, GoesOn DEF AdvanceStage, At, Keeps
  <2>2. \A p : Holds(n, r, p) => Says(r, p)
    BY <1>s, <2>1 DEF Holds, Carries
  <2>3. ~Makes(n, r) /\ Spared(n, r) /\ Waits(n, r)
    BY <2>1 DEF Makes, Spared, Waits, Asks, LadderPc
  <2>4. UNCHANGED <<extIds, reviews, resolutions, events>>
    BY <1>9 DEF AdvanceStage, queue
  <2> QED BY <1>2, <2>1, <2>2, <2>3, <2>4, Heard, OneSame
<1>10. CASE StampProcessed
  <2>1. w.rec \in Record /\ w.ver \in 0..MaxVersion
    BY <1>1, <1>3, <1>10 DEF StampProcessed, At, Fine, Local, Pc, LadderPc, Job
  <2>2. \A s \in Record : resolutions'[s] # Null =>
            resolutions[s] # Null /\ resolutions'[s].project = resolutions[s].project
    <3>1. CASE resolutions' = resolutions
      BY <3>1
    <3>2. CASE resolutions' # resolutions
      <4>1. resolutions[w.rec] # Null /\ resolutions' = [resolutions EXCEPT ![w.rec].ver = w.ver]
        BY <1>1, <1>10, <3>2 DEF StampProcessed
      <4>2. resolutions[w.rec] \in Resolved
        BY <2>1, <4>1 DEF BaseInv, Typed
      <4>3. resolutions'[w.rec] = [resolutions[w.rec] EXCEPT !.ver = w.ver]
        BY <2>1, <4>1 DEF BaseInv, Typed
      <4>4. resolutions'[w.rec].project = resolutions[w.rec].project
        BY <4>2, <4>3 DEF Resolved
      <4>5. \A s \in Record : s # w.rec => resolutions'[s] = resolutions[s]
        BY <4>1 DEF BaseInv, Typed
      <4> QED BY <4>1, <4>4, <4>5
    <3> QED BY <3>1, <3>2
  <2>3. \A s \in Permit(r) : resolutions'[s] # Null => Says(r, resolutions'[s].project)
    BY <2>2, OfPermit DEF Says, Stored
  <2>4. \A e \in events' : e.rec \in Permit(r) => Says(r, e.project)
    BY <1>10 DEF StampProcessed, graph, Says, Stored
  <2> QED BY <1>10, <2>3, <2>4, OneReturn DEF StampProcessed, graph
<1> QED BY <1>4, <1>5, <1>6, <1>7, <1>8, <1>9, <1>10, HomeStatement DEF ChainStep

LEMMA HomePeople ==
    ASSUME BaseInv, FoundInv, PathInv, ~refused', ~crossed', NEW r \in Record, Plain(r), One(r),
           ReviewerStep \/ OperatorStep
    PROVE  One(r)'
<1> "reviewer" \in Process /\ "operator" \in Process
  BY DEF Process
<1>1. CASE TakeDecision
  <2>1. PICK n : n = work'["reviewer"]
    OBVIOUS
  <2>2. Others("reviewer") /\ n.pc = "check" /\ n.phase = "decide"
    BY <1>1, <2>1, TakeDecisionIs
  <2>3. (\A p : ~Holds(n, r, p)) /\ Backed(n, r)
    BY <2>2 DEF Holds, Carries, Backed
  <2>4. UNCHANGED <<extIds, reviews, resolutions, events>>
    BY <1>1 DEF TakeDecision, graph, queue
  <2> QED BY <2>1, <2>2, <2>3, <2>4, Heard, OneSame
<1>2. CASE Statement("reviewer")
  BY <1>2, HomeStatement
<1>3. CASE UndoDerived
  <2>1. PICK n : n = work'["operator"]
    OBVIOUS
  <2>2. Others("operator") /\ n.pc = "unmark" /\ n.phase = work["operator"].phase /\ work["operator"].pc = "undo"
    BY <1>3, <2>1, GoesOn DEF UndoDerived, Keeps, At
  <2>3. n.phase = "undo"
    BY <2>2 DEF BaseInv, Fine, Course
  <2>4. \A p : ~Holds(n, r, p)
    BY <2>2, <2>3 DEF Holds, Carries
  <2>5. UNCHANGED <<extIds, reviews, resolutions>> /\ events' \subseteq events
    BY <1>3 DEF UndoDerived, queue
  <2>6. /\ \A s \in Permit(r) : resolutions'[s] # Null => Says(r, resolutions'[s].project)
        /\ \A e \in events' : e.rec \in Permit(r) => Says(r, e.project)
    BY <2>5 DEF Says, Stored
  <2> QED BY <2>1, <2>2, <2>4, <2>5, <2>6, OneSame
<1>4. CASE MarkUndone
  <2>1. \A s \in Record : resolutions'[s] # Null => resolutions'[s] = resolutions[s]
    BY <1>4 DEF MarkUndone, BaseInv, Typed
  <2>2. /\ \A s \in Permit(r) : resolutions'[s] # Null => Says(r, resolutions'[s].project)
        /\ \A e \in events' : e.rec \in Permit(r) => Says(r, e.project)
    BY <1>4, <2>1, OfPermit DEF MarkUndone, graph, Says, Stored
  <2> QED BY <1>4, <2>2, OneReturn DEF MarkUndone, graph
<1> QED BY <1>1, <1>2, <1>3, <1>4 DEF ReviewerStep, OperatorStep

\* What has been noted stays noted.
LEMMA HistoryGrows ==
    ASSUME [ResolutionNext]_resolutionVars, Typed
    PROVE  (refused => refused') /\ (crossed => crossed')
<1>1. \A q \in Process : Statement(q) => (refused => refused') /\ (crossed => crossed')
  BY LadderReads DEF Statement, ReadProject, WriteProject, RegisterIds, Derive, InsertResolution, Park,
         CheckPending, MarkMerged, MarkRejected, count, told
<1>2. "chain" \in Process /\ "reviewer" \in Process
  BY DEF Process
<1>3. ChainStep => (refused => refused') /\ (crossed => crossed')
  <2>1. StartChain \/ NextLoop => UNCHANGED told
    BY DEF StartChain, NextLoop, count
  <2>2. TakeRecord \/ TakeUpdate \/ TakeReview => UNCHANGED told
    BY DEF TakeRecord, TakeUpdate, TakeReview, count
  <2>3. AdvanceStage \/ StampProcessed => UNCHANGED told
    BY DEF AdvanceStage, StampProcessed, count
  <2> QED BY <1>1, <1>2, <2>1, <2>2, <2>3 DEF ChainStep, told
<1>4. ReviewerStep \/ OperatorStep => (refused => refused') /\ (crossed => crossed')
  BY <1>1, <1>2 DEF ReviewerStep, OperatorStep, TakeDecision, UndoDerived, MarkUndone, count, told
<1>5. \A r : Fetch(r) \/ RequestUndo(r) => (refused => refused') /\ (crossed => crossed')
  BY DEF Fetch, RequestUndo, told
<1>6. \A V, verdict : Request(V, verdict) => (refused => refused') /\ (crossed => crossed')
  BY DEF Request, told
<1>7. \A q : Fault(q) \/ CrashChain => (refused => refused') /\ (crossed => crossed')
  BY DEF Fault, CrashChain, told
<1>8. UNCHANGED resolutionVars => (refused => refused') /\ (crossed => crossed')
  BY DEF resolutionVars
<1> QED BY <1>1, <1>2, <1>3, <1>4, <1>5, <1>6, <1>7, <1>8 DEF ResolutionNext

LEMMA HomeNext ==
    ASSUME BaseInv, FoundInv, PathInv, BaseInv', HomeInv, [ResolutionNext]_resolutionVars
    PROVE  HomeInv'
<1> SUFFICES ASSUME ~refused', ~crossed', NEW r \in Record, Plain(r) PROVE One(r)'
  BY DEF HomeInv
<1> "chain" \in Process /\ "reviewer" \in Process /\ "operator" \in Process
  BY DEF Process
<1>0. One(r)
  BY HistoryGrows DEF HomeInv, BaseInv
<1>1. CASE UNCHANGED <<work, extIds, reviews, resolutions, events>>
  <2>1. Pending' = Pending /\ Official(r)' = Official(r)
    BY <1>1 DEF Pending, Official
  <2>2. \A p : Says(r, p)' = Says(r, p)
    BY <1>1, <2>1 DEF Says, Stored
  <2> QED BY <1>0, <1>1, <2>1, <2>2 DEF One, Unique, Maker, Makes, Backed, Spared, Waits, Asks, On
<1>2. ASSUME NEW s \in Record, RequestUndo(s) PROVE One(r)'
  <2>1. PICK n : n = work'["operator"]
    OBVIOUS
  <2>2. Others("operator") /\ n.pc = "undo"
    BY <1>2, <2>1, RequestUndoIs
  <2>3. n.phase = "undo"
    BY <2>1, <2>2 DEF BaseInv, Fine, Course
  <2>4. \A p : ~Holds(n, r, p)
    BY <2>2, <2>3 DEF Holds, Carries
  <2>5. UNCHANGED <<extIds, reviews, resolutions, events>>
    BY <1>2 DEF RequestUndo, graph, queue
  <2> QED BY <1>0, <2>1, <2>2, <2>4, <2>5, Heard, OneSame
<1>3. ASSUME NEW V, NEW verdict, Request(V, verdict) PROVE One(r)'
  <2>1. PICK n : n = work'["reviewer"]
    OBVIOUS
  <2>2. Others("reviewer") /\ n.phase = "decide" /\ n.pc = "take"
    BY <1>3, <2>1, RequestIs
  <2>3. (\A p : ~Holds(n, r, p)) /\ Backed(n, r)
    BY <2>2 DEF Holds, Carries, Backed
  <2>4. UNCHANGED <<extIds, reviews, resolutions, events>>
    BY <1>3 DEF Request, graph, queue
  <2> QED BY <1>0, <2>1, <2>2, <2>3, <2>4, Heard, OneSame
<1>4. ASSUME NEW q \in Process, Fault(q) PROVE One(r)'
  <2>1. UNCHANGED <<extIds, reviews, resolutions, events>> /\ Return(q)
    BY <1>4 DEF Fault, graph, queue
  <2> QED BY <1>0, <2>1, Heard, OneReturn
<1>5. CASE CrashChain
  <2>1. PICK n : n = work'["chain"]
    OBVIOUS
  <2>2. Others("chain") /\ n.phase = "idle" /\ n.pc = "take"
    BY <1>5, <2>1, LoopIs DEF CrashChain
  <2>3. (\A p : ~Holds(n, r, p)) /\ ~Makes(n, r) /\ Spared(n, r) /\ Waits(n, r)
    BY <2>2 DEF Holds, Carries, Makes, Spared, Waits, Asks, LadderPc
  <2>4. UNCHANGED <<extIds, reviews, resolutions, events>>
    BY <1>5 DEF CrashChain, graph, queue
  <2> QED BY <1>0, <2>1, <2>2, <2>3, <2>4, Heard, OneSame
<1>6. ASSUME NEW s \in Record, Fetch(s) PROVE One(r)'
  BY <1>1, <1>6 DEF Fetch, graph, queue
<1> QED BY <1>0, <1>1, <1>2, <1>3, <1>4, <1>5, <1>6, HomeChain, HomePeople DEF ResolutionNext, resolutionVars

\* Whatever is said of a permit that nobody cites (ids, open candidates, resolutions, events, what a
\* process carries) names one project, and who is about to create one is the first to speak.
THEOREM HomeInvariant == ResolutionSpec => []HomeInv
<1>1. ResolutionInit => HomeInv
  BY HomeInit
<1>2. BaseInv /\ BaseInv' /\ FoundInv /\ PathInv /\ HomeInv /\ [ResolutionNext]_resolutionVars => HomeInv'
  BY HomeNext
<1> QED BY <1>1, <1>2, BaseInvariant, FoundInvariant, PathInvariant, PTL DEF ResolutionSpec

\* The records of one permit can be found by its number and stand on one project, and what a
\* record caused stands on the one it is resolved to (resolver.ts:93-114, 303-409, 410-499,
\* review.ts:149-205).
THEOREM PermitsHome == ResolutionSpec => []PermitsAtHome
<1>1. BaseInv /\ FoundInv /\ HomeInv => PermitsAtHome
  <2> SUFFICES ASSUME BaseInv, FoundInv, HomeInv PROVE PermitsAtHome
    OBVIOUS
  <2>1. ResolutionTypeOK
    BY TypesOK
  <2>2. \A r \in Record : resolutions[r] # Null => Official(r) # {}
    BY DEF FoundInv
  <2>3. ASSUME NEW r \in Record, NEW s \in Record, resolutions[r] # Null, resolutions[s] # Null,
               SamePermit(r, s), ~refused, ~crossed, Plain(r)
        PROVE  resolutions[r].project = resolutions[s].project
    <3>1. r \in Permit(r) /\ s \in Permit(r)
      BY <2>3 DEF Permit, SamePermit
    <3>2. Says(r, resolutions[r].project) /\ Says(r, resolutions[s].project)
      BY <2>3, <3>1 DEF Says, Stored
    <3> QED BY <2>3, <3>2 DEF HomeInv, One, Unique
  <2>4. ASSUME ~refused, ~crossed, NEW e \in events, Plain(e.rec), resolutions[e.rec] # Null
        PROVE  resolutions[e.rec].project = e.project
    <3>1. PICK r : r = e.rec
      OBVIOUS
    <3>2. r \in Record /\ r \in Permit(r)
      BY <3>1 DEF Permit, BaseInv, Typed, Event
    <3>3. Says(r, resolutions[r].project) /\ Says(r, e.project)
      BY <2>4, <3>1, <3>2 DEF Says, Stored
    <3> QED BY <2>4, <3>1, <3>2, <3>3 DEF HomeInv, One, Unique
  <2> QED BY <2>1, <2>2, <2>3, <2>4 DEF PermitsAtHome, PermitsTogether, OneHome
<1> QED BY <1>1, BaseInvariant, FoundInvariant, HomeInvariant, PTL

--------------------------------------------------------------------------------
(* An approval stands: who closes a review as merged has seen its record on   *)
(* the candidate.                                                             *)

\* Record r is on project p, or a person has undone a resolution of it.
Stands(r, p) ==
    r \in Record /\ (r \in undone \/ (resolutions[r] # Null /\ resolutions[r].project = p))

\* A merge that was approved is the merge into the candidate; at its last statement the record
\* is there.
Agreed(w) == w.verdict = "merge" /\ w.pc \notin {"take", "check"} =>
    /\ There(w.review) /\ w.dec.kind = "merge"
    /\ w.dec.project = reviews[w.review].candidate
Kept(w)   == w.pc = "mark" => Stands(w.rec, w.dec.project)

ApprovalInv ==
    /\ \A v : There(v) /\ reviews[v].status = "merged" => Stands(reviews[v].rec, reviews[v].candidate)
    /\ \A q \in Process : Agreed(work[q]) /\ Kept(work[q])

LEMMA ApprovalInit == ResolutionInit => ApprovalInv
BY DEF ResolutionInit, ApprovalInv, There, Agreed, Kept, Idle

\* A review keeps its record and its candidate.
SameQuestion == \A v : There(v) => /\ There(v)' /\ reviews'[v].rec = reviews[v].rec
                                   /\ reviews'[v].candidate = reviews[v].candidate

LEMMA ApprovalStep ==
    ASSUME ApprovalInv, NEW q \in Process, Others(q), NEW n, n = work'[q],
           \A r, p : Stands(r, p) => Stands(r, p)',
           SameQuestion,
           \A v : There(v)' /\ reviews'[v].status = "merged" =>
              \/ There(v) /\ reviews[v].status = "merged"
              \/ Stands(reviews'[v].rec, reviews'[v].candidate),
           Agreed(n), Kept(n)'
    PROVE  ApprovalInv'
<1>1. ASSUME NEW v, There(v)', reviews'[v].status = "merged"
      PROVE  Stands(reviews[v].rec, reviews[v].candidate)'
  <2>1. PICK r, p : r = reviews'[v].rec /\ p = reviews'[v].candidate
    OBVIOUS
  <2>2. Stands(r, p)
    BY <1>1, <2>1 DEF ApprovalInv, SameQuestion
  <2>3. Stands(r, p)'
    BY <2>2
  <2> QED BY <2>1, <2>3 DEF Stands
<1>2. ASSUME NEW w, Agreed(w) PROVE Agreed(w)'
  BY <1>2 DEF Agreed, SameQuestion
<1>3. ASSUME NEW w, Kept(w) PROVE Kept(w)'
  BY <1>3 DEF Kept
<1>4. ASSUME NEW p \in Process PROVE (Agreed(work[p]) /\ Kept(work[p]))'
  <2>1. PICK m : m = work'[p]
    OBVIOUS
  <2>2. Agreed(m)' /\ Kept(m)'
    <3>1. CASE p = q
      BY <1>2, <2>1, <3>1
    <3>2. CASE p # q
      <4>1. Agreed(m) /\ Kept(m)
        BY <2>1, <3>2 DEF Others, ApprovalInv
      <4> QED BY <1>2, <1>3, <4>1
    <3> QED BY <3>1, <3>2
  <2> QED BY <2>1, <2>2 DEF Agreed, Kept, Stands, There
<1> QED BY <1>1, <1>4 DEF ApprovalInv

\* A step that leaves reviews and resolutions as they are.
LEMMA ApprovalSame ==
    ASSUME ApprovalInv, NEW q \in Process, Others(q), NEW n, n = work'[q],
           UNCHANGED <<resolutions, reviews, undone>>, Agreed(n), Kept(n)
    PROVE  ApprovalInv'
<1>1. \A r, p : Stands(r, p) => Stands(r, p)'
  BY DEF Stands
<1>2. SameQuestion
  BY DEF SameQuestion, There
<1>3. \A v : There(v)' /\ reviews'[v].status = "merged" => There(v) /\ reviews[v].status = "merged"
  BY DEF There
<1>4. Kept(n)'
  BY DEF Kept, Stands
<1> QED BY <1>1, <1>2, <1>3, <1>4, ApprovalStep

\* The last statement of a row.
LEMMA ApprovalReturn ==
    ASSUME BaseInv, ApprovalInv, NEW q \in Process, Return(q),
           \A r, p : Stands(r, p) => Stands(r, p)',
           SameQuestion,
           \A v : There(v)' /\ reviews'[v].status = "merged" =>
              \/ There(v) /\ reviews[v].status = "merged"
              \/ Stands(reviews'[v].rec, reviews'[v].candidate)
    PROVE  ApprovalInv'
<1>1. work[q] \in Job
  BY DEF BaseInv, Typed
<1>2. PICK n : n = work'[q]
  OBVIOUS
<1>3. Others(q) /\ n.pc = "take"
  BY <1>1, <1>2, ComesBack, DoneIs DEF Ended
<1>4. Agreed(n) /\ Kept(n)'
  BY <1>3 DEF Agreed, Kept
<1> QED BY <1>2, <1>3, <1>4, ApprovalStep

LEMMA InsertApproves ==
    ASSUME BaseInv, ApprovalInv, NEW q \in Process, InsertResolution(q)
    PROVE  ApprovalInv'
<1>1. PICK w \in Job : w = work[q]
  BY DEF BaseInv, Typed
<1>2. PICK n : n = work'[q]
  OBVIOUS
<1>3. /\ w.pc = "insert" /\ Others(q) /\ w.rec \in Record
      /\ Ended(q) \/ (w.verdict = "merge" /\ n.pc = "mark" /\ Keeps(q))
      /\ \/ resolutions[w.rec] # Null /\ Ended(q) /\ UNCHANGED resolutions
         \/ /\ resolutions[w.rec] = Null
            /\ resolutions'[w.rec].project = w.dec.project
            /\ \A r \in Record : r # w.rec => resolutions'[r] = resolutions[r]
  BY <1>1, <1>2, InsertResolutionIs
<1>4. UNCHANGED <<reviews, undone>>
  BY DEF InsertResolution, count, told
<1>5. SameQuestion
  BY <1>4 DEF SameQuestion, There
<1>6. \A v : There(v)' /\ reviews'[v].status = "merged" => There(v) /\ reviews[v].status = "merged"
  BY <1>4 DEF There
<1>7. resolutions[w.rec] = Null => resolutions'[w.rec] # Null
  <2> SUFFICES ASSUME resolutions[w.rec] = Null PROVE resolutions'[w.rec] # Null
    OBVIOUS
  <2> DEFINE row == [project |-> w.dec.project, id |-> verdicts,
                     ver |-> IF w.verdict = "merge" THEN 0 ELSE version[w.rec]]
  <2>1. resolutions' = [resolutions EXCEPT ![w.rec] = row]
    BY <1>1 DEF InsertResolution
  <2>2. w.dec.project \in Project /\ verdicts \in 0..MaxVerdict /\ version[w.rec] \in 0..MaxVersion
    BY <1>1, <1>3, RowsAre DEF BaseInv, Typed, Fine, Local
  <2>3. row \in Resolved
    BY <2>2, Numbers DEF Resolved
  <2>4. row # Null
    BY <2>3, NullIsNothing
  <2> HIDE DEF row
  <2>5. resolutions'[w.rec] = row
    BY <1>3, <2>1 DEF BaseInv, Typed
  <2> QED BY <2>4, <2>5
<1>8. \A r, p : Stands(r, p) => Stands(r, p)'
  <2>1. \A r : resolutions[r] # Null /\ r \in Record => resolutions'[r] = resolutions[r]
    BY <1>3
  <2> QED BY <1>4, <2>1 DEF Stands
<1>9. Agreed(w)
  BY <1>1 DEF ApprovalInv
<1>10. CASE Ended(q)
  <2>1. n.pc = "take"
    BY <1>1, <1>2, <1>10, DoneIs DEF Ended
  <2>2. Agreed(n) /\ Kept(n)'
    BY <2>1 DEF Agreed, Kept
  <2> QED BY <1>2, <1>3, <1>5, <1>6, <1>8, <2>2, ApprovalStep
<1>11. CASE ~Ended(q)
  <2>1. /\ n.pc = "mark" /\ w.verdict = "merge" /\ n.rec = w.rec /\ n.dec = w.dec
        /\ n.review = w.review /\ n.verdict = w.verdict
    BY <1>1, <1>2, <1>3, <1>11 DEF Keeps
  <2>2. Agreed(n)
    BY <1>3, <1>9, <2>1 DEF Agreed
  <2>3. Kept(n)'
    BY <1>3, <1>7, <1>11, <2>1 DEF Kept, Stands
  <2> QED BY <1>2, <1>3, <1>5, <1>6, <1>8, <2>2, <2>3, ApprovalStep
<1> QED BY <1>10, <1>11

LEMMA ApprovalStatement ==
    ASSUME BaseInv, ApprovalInv, NEW q \in Process, Statement(q)
    PROVE  ApprovalInv'
<1>1. PICK w \in Job : w = work[q]
  BY DEF BaseInv, Typed
<1>2. PICK n : n = work'[q]
  OBVIOUS
<1>3. Fine(q, w) /\ Agreed(w) /\ Kept(w)
  BY <1>1 DEF BaseInv, ApprovalInv
<1>4. CASE ReadProject(q)
  <2>1. /\ w.pc = "read" /\ Others(q) /\ n.dec = w.dec /\ n.review = w.review /\ n.verdict = w.verdict
        /\ n.pc \in {"advance", "write"}
    BY <1>1, <1>2, <1>4, ReadProjectIs DEF Keeps
  <2>2. Agreed(n) /\ Kept(n)
    BY <1>3, <2>1 DEF Agreed, Kept
  <2> QED BY <1>2, <1>4, <2>1, <2>2, ApprovalSame DEF ReadProject, queue, count, told
<1>5. CASE WriteProject(q)
  <2>1. w.pc = "write" /\ Others(q) /\ n.review = w.review /\ n.verdict = w.verdict /\ n.pc = "register"
    BY <1>1, <1>2, <1>5, WriteProjectIs
  <2>2. PICK p \in Project : /\ n.dec = [w.dec EXCEPT !.project = p] /\ n.dec.project = p
                             /\ w.dec.kind = "merge" => p = w.dec.project
    BY <1>1, <1>2, <1>5, WriteProjectIs
  <2>3. w.dec \in Decision
    BY <1>3, <2>1 DEF Fine, Local, LadderPc, Pc
  <2>4. n.dec.kind = w.dec.kind
    BY <2>2, <2>3 DEF Decision
  <2>5. Agreed(n) /\ Kept(n)
    BY <1>3, <2>1, <2>2, <2>4 DEF Agreed, Kept
  <2> QED BY <1>2, <1>5, <2>1, <2>5, ApprovalSame DEF WriteProject, queue, count, told
<1>6. CASE RegisterIds(q) \/ Derive(q)
  <2>1. PICK x \in {"derive", "insert", "stamp"} : Goto(q, x)
    BY <1>6 DEF RegisterIds, Derive, After
  <2>2. w.pc \in {"register", "derive"}
    BY <1>1, <1>6 DEF RegisterIds, Derive, At
  <2>3. Others(q) /\ n.dec = w.dec /\ n.review = w.review /\ n.verdict = w.verdict /\ n.pc = x
    BY <1>1, <1>2, <2>1, GoesOn DEF Keeps
  <2>4. Agreed(n) /\ Kept(n)
    BY <1>3, <2>2, <2>3 DEF Agreed, Kept
  <2>5. UNCHANGED <<resolutions, reviews, undone>>
    BY <1>6 DEF RegisterIds, Derive, queue, count, told
  <2> QED BY <1>2, <2>3, <2>4, <2>5, ApprovalSame
<1>7. CASE InsertResolution(q)
  BY <1>7, InsertApproves
<1>8. CASE Park(q)
  <2>1. Return(q) /\ UNCHANGED <<resolutions, undone>>
    BY <1>8 DEF Park, count, told
  <2>2. PICK v \in Review : reviews[v] = Null /\ \A u \in Review : u # v => reviews'[u] = reviews[u]
    BY <1>1, <1>8, ParkIs
  <2>3. There(v)' => reviews'[v].status = "pending"
    <3> DEFINE free == {u \in Review : reviews[u] = Null}
               row == [rec |-> w.rec, candidate |-> w.dec.project, rule |-> w.dec.rule, status |-> "pending"]
    <3>1. reviews' = [reviews EXCEPT ![Min(free)] = row]
      BY <1>1, <1>8 DEF Park
    <3>2. row.status = "pending"
      OBVIOUS
    <3> HIDE DEF free, row
    <3>3. reviews'[v] = reviews[v] \/ reviews'[v] = row
      BY <3>1 DEF BaseInv, Typed
    <3> QED BY <2>2, <3>2, <3>3 DEF There
  <2>4. \A u : There(u) => There(u)' /\ reviews'[u] = reviews[u]
    BY <2>2 DEF There
  <2>5. \A u : There(u)' /\ reviews'[u].status = "merged" => There(u) /\ reviews[u].status = "merged"
    BY <2>2, <2>3 DEF There
  <2>6. \A r, p : Stands(r, p) => Stands(r, p)'
    BY <2>1 DEF Stands
  <2> QED BY <2>1, <2>4, <2>5, <2>6, ApprovalReturn DEF SameQuestion
<1>9. CASE CheckPending(q)
  <2>1. Others(q) /\ UNCHANGED <<resolutions, reviews, undone>>
    BY <1>9, CheckPendingIs DEF CheckPending, queue, count, told
  <2>2. CASE Ended(q)
    <3>1. n.pc = "take"
      BY <1>1, <1>2, <2>2, DoneIs DEF Ended
    <3> QED BY <1>2, <2>1, <3>1, ApprovalSame DEF Agreed, Kept
  <2>3. CASE ~Ended(q)
    <3>1. /\ w.review \in Pending /\ n.dec.project = reviews[w.review].candidate /\ n.dec.kind = "merge"
          /\ n.review = w.review /\ n.pc = IF w.verdict = "merge" THEN "read" ELSE "reject"
      BY <1>1, <1>2, <1>9, <2>3, CheckPendingIs
    <3>2. Agreed(n) /\ Kept(n)
      BY <3>1 DEF Agreed, Kept, Pending, There
    <3> QED BY <1>2, <2>1, <3>2, ApprovalSame
  <2> QED BY <2>2, <2>3
<1>10. CASE MarkMerged(q) \/ MarkRejected(q)
  <2>1. /\ w.pc \in {"mark", "reject"} /\ There(w.review) /\ reviews[w.review].rec = w.rec
        /\ w.verdict = IF w.pc = "mark" THEN "merge" ELSE "reject"
    BY <1>1, <1>3, <1>10 DEF MarkMerged, MarkRejected, At, Fine, Local, Course
  <2>2. PICK status \in {"merged", "rejected"} : reviews' = [reviews EXCEPT ![w.review].status = status]
    BY <1>1, <1>10 DEF MarkMerged, MarkRejected
  <2>3. PICK u : u = w.review
    OBVIOUS
  <2>4. u \in Review /\ reviews[u] # Null
    BY <2>1, <2>3 DEF There
  <2>5. /\ reviews'[u] \in ReviewRow /\ reviews'[u].rec = reviews[u].rec /\ reviews'[u].status = status
        /\ reviews'[u].candidate = reviews[u].candidate
        /\ \A v \in Review : v # u => reviews'[v] = reviews[v]
    BY <2>2, <2>3, <2>4, OutcomeIs
  <2>6. SameQuestion
    BY <2>5, NullIsNothing DEF SameQuestion, There
  <2>7. \A r, p : Stands(r, p) => Stands(r, p)'
    BY <1>10 DEF MarkMerged, MarkRejected, Stands
  <2>8. CASE MarkMerged(q)
    <3>1. Stands(reviews'[u].rec, reviews'[u].candidate)
      <4>1. w.pc = "mark"
        BY <1>1, <2>8 DEF MarkMerged, At
      <4> QED BY <1>3, <2>1, <2>3, <2>5, <4>1 DEF Agreed, Kept
    <3>2. \A v : There(v)' /\ v # u => There(v) /\ reviews'[v] = reviews[v]
      BY <2>5 DEF There
    <3>3. \A v : There(v)' /\ reviews'[v].status = "merged" =>
              \/ There(v) /\ reviews[v].status = "merged"
              \/ Stands(reviews'[v].rec, reviews'[v].candidate)
      BY <3>1, <3>2
    <3> QED BY <2>6, <2>7, <2>8, <3>3, ApprovalReturn DEF MarkMerged
  <2>9. CASE MarkRejected(q)
    <3>1. w.pc = "reject" /\ Goto(q, "official")
      BY <1>1, <2>9 DEF MarkRejected, At
    <3>2. Others(q) /\ n.pc = "official" /\ n.verdict = "reject"
      BY <1>1, <1>2, <2>1, <3>1, GoesOn DEF Keeps
    <3>3. Agreed(n) /\ Kept(n)'
      BY <3>2 DEF Agreed, Kept
    <3>4. reviews'[u].status # "merged"
      <4>1. reviews' = [reviews EXCEPT ![u].status = "rejected"]
        BY <1>1, <2>3, <2>9 DEF MarkRejected
      <4>2. reviews'[u].status = "rejected"
        BY <2>4, <4>1, OutcomeIs
      <4> QED BY <4>2
    <3>5. \A v : There(v)' /\ reviews'[v].status = "merged" => There(v) /\ reviews[v].status = "merged"
      BY <2>5, <3>4 DEF There
    <3> QED BY <1>2, <2>6, <2>7, <3>2, <3>3, <3>5, ApprovalStep
  <2> QED BY <1>10, <2>8, <2>9
<1>11. CASE Ladder(q)
  <2>1. Others(q) /\ w.pc \in LadderPc
    BY <1>1, <1>11, LadderGoes
  <2>2. Ended(q) \/ Passes(q) \/ Settled(q) \/ \E d : Leaves(q, d)
    BY <1>11, LadderGoes
  <2>3. w.verdict # "merge"
    BY <1>3, <2>1 DEF Fine, Course
  <2>4. n.pc \in {"take", "check"} \/ (n.verdict # "merge" /\ n.pc # "mark")
    BY <1>1, <1>2, <2>2, <2>3, DoneIs DEF Ended, Passes, Keeps, Onward, Settled, Leaves
  <2>5. Agreed(n) /\ Kept(n)
    BY <2>4 DEF Agreed, Kept
  <2>6. UNCHANGED <<resolutions, reviews, undone>>
    BY <1>11, LadderReads DEF queue, count, told
  <2> QED BY <1>2, <2>1, <2>5, <2>6, ApprovalSame
<1> QED BY <1>4, <1>5, <1>6, <1>7, <1>8, <1>9, <1>10, <1>11 DEF Statement

LEMMA ApprovalChain == ASSUME BaseInv, ApprovalInv, ChainStep PROVE ApprovalInv'
<1> "chain" \in Process
  BY DEF Process
<1>1. PICK w \in Job : w = work["chain"]
  BY DEF BaseInv, Typed
<1>2. PICK n : n = work'["chain"]
  OBVIOUS
<1>3. Fine("chain", w) /\ Null # "merge"
  BY <1>1, NullIsNothing DEF BaseInv
<1>4. ASSUME Others("chain"), UNCHANGED <<resolutions, reviews, undone>>,
             n.pc = "take" \/ (n.verdict = Null /\ n.pc # "mark")
      PROVE  ApprovalInv'
  <2>1. Agreed(n) /\ Kept(n)
    BY <1>3, <1>4 DEF Agreed, Kept
  <2> QED BY <1>2, <1>4, <2>1, ApprovalSame
<1>5. CASE StartChain
  <2>1. PICK todo : Loop("resolve", todo)
    BY <1>5, SMTT(30) DEF StartChain
  <2> QED BY <1>2, <1>4, <1>5, <2>1, LoopIs DEF StartChain, queue, told
<1>6. CASE NextLoop
  BY <1>2, <1>4, <1>6, NextLoopIs DEF NextLoop, queue, count, told
<1>7. CASE TakeRecord
  BY <1>2, <1>4, <1>7, TakeRecordIs DEF TakeRecord, queue, count, told
<1>8. CASE TakeUpdate
  BY <1>2, <1>4, <1>8, TakeUpdateIs DEF TakeUpdate, queue, count, told
<1>9. CASE TakeReview
  BY <1>2, <1>4, <1>9, TakeReviewIs DEF TakeReview, queue, count, told
<1>10. CASE AdvanceStage
  <2>1. Others("chain") /\ n.verdict = w.verdict /\ n.pc = "derive" /\ w.pc = "advance"
    BY <1>1, <1>2, <1>10, GoesOn DEF AdvanceStage, At, Keeps
  <2>2. w.verdict = Null
    BY <1>3, <2>1 DEF Fine, Course
  <2> QED BY <1>4, <1>10, <2>1, <2>2 DEF AdvanceStage, queue, count, told
<1>11. CASE StampProcessed
  <2>1. Return("chain") /\ UNCHANGED <<reviews, undone>>
    BY <1>11 DEF StampProcessed, count, told
  <2>2. w.rec \in Record
    BY <1>1, <1>3, <1>11 DEF StampProcessed, At, Fine, Local, Pc, LadderPc
  <2>3. \A s : resolutions[s] # Null => resolutions'[s] # Null /\ resolutions'[s].project = resolutions[s].project
    <3>1. CASE resolutions' = resolutions
      BY <3>1
    <3>2. CASE resolutions' # resolutions
      <4>1. resolutions[w.rec] # Null /\ resolutions' = [resolutions EXCEPT ![w.rec].ver = w.ver]
        BY <1>1, <1>11, <3>2 DEF StampProcessed
      <4>2. resolutions[w.rec] \in Resolved
        BY <2>2, <4>1 DEF BaseInv, Typed
      <4>3. w.ver \in 0..MaxVersion
        BY DEF Job
      <4>4. resolutions'[w.rec] = [resolutions[w.rec] EXCEPT !.ver = w.ver]
        BY <2>2, <4>1 DEF BaseInv, Typed
      <4>5. resolutions'[w.rec] \in Resolved /\ resolutions'[w.rec].project = resolutions[w.rec].project
        BY <4>2, <4>3, <4>4 DEF Resolved
      <4>6. \A s : s # w.rec => resolutions'[s] = resolutions[s]
        BY <4>1 DEF BaseInv, Typed
      <4> QED BY <4>5, <4>6, NullIsNothing
    <3> QED BY <3>1, <3>2
  <2>4. \A r, p : Stands(r, p) => Stands(r, p)'
    BY <2>1, <2>3 DEF Stands
  <2>5. SameQuestion /\ \A v : There(v)' /\ reviews'[v].status = "merged" => There(v) /\ reviews[v].status = "merged"
    BY <2>1 DEF SameQuestion, There
  <2> QED BY <2>1, <2>4, <2>5, ApprovalReturn
<1> QED BY <1>5, <1>6, <1>7, <1>8, <1>9, <1>10, <1>11, ApprovalStatement DEF ChainStep

LEMMA ApprovalPeople == ASSUME BaseInv, ApprovalInv, ReviewerStep \/ OperatorStep PROVE ApprovalInv'
<1> "reviewer" \in Process /\ "operator" \in Process
  BY DEF Process
<1>1. CASE TakeDecision
  <2>1. PICK n : n = work'["reviewer"]
    OBVIOUS
  <2>2. Others("reviewer") /\ n.pc = "check"
    BY <1>1, <2>1, TakeDecisionIs
  <2>3. Agreed(n) /\ Kept(n)
    BY <2>2 DEF Agreed, Kept
  <2> QED BY <1>1, <2>1, <2>2, <2>3, ApprovalSame DEF TakeDecision, queue, count, told
<1>2. CASE UndoDerived
  <2>1. PICK n, w : n = work'["operator"] /\ w = work["operator"]
    OBVIOUS
  <2>2. Others("operator") /\ n.pc = "unmark" /\ n.verdict = w.verdict /\ w.pc = "undo"
    BY <1>2, <2>1, GoesOn DEF UndoDerived, Keeps, At
  <2>3. w.verdict = Null
    BY <2>1, <2>2 DEF BaseInv, Fine, Course
  <2>4. Agreed(n) /\ Kept(n)
    BY <2>2, <2>3, NullIsNothing DEF Agreed, Kept
  <2> QED BY <1>2, <2>1, <2>2, <2>4, ApprovalSame DEF UndoDerived, queue, count, told
<1>3. CASE MarkUndone
  <2>1. PICK r : r = work["operator"].rec
    OBVIOUS
  <2>2. Return("operator") /\ UNCHANGED reviews
    BY <1>3 DEF MarkUndone
  <2>3. \/ UNCHANGED <<resolutions, undone>>
        \/ undone' = undone \cup {r} /\ resolutions' = [resolutions EXCEPT ![r] = Null]
    BY <1>3, <2>1 DEF MarkUndone
  <2>4. \A s, p : Stands(s, p) => Stands(s, p)'
    BY <2>3 DEF Stands, BaseInv, Typed
  <2>5. SameQuestion /\ \A v : There(v)' /\ reviews'[v].status = "merged" => There(v) /\ reviews[v].status = "merged"
    BY <2>2 DEF SameQuestion, There
  <2> QED BY <2>2, <2>4, <2>5, ApprovalReturn
<1> QED BY <1>1, <1>2, <1>3, ApprovalStatement DEF ReviewerStep, OperatorStep

LEMMA ApprovalNext ==
    ASSUME BaseInv, BaseInv', ApprovalInv, [ResolutionNext]_resolutionVars
    PROVE  ApprovalInv'
<1> "chain" \in Process /\ "reviewer" \in Process /\ "operator" \in Process
  BY DEF Process
<1>1. CASE UNCHANGED <<work, resolutions, reviews, undone>>
  BY <1>1 DEF ApprovalInv, There, Stands, Agreed, Kept
<1>2. ASSUME NEW r \in Record, RequestUndo(r) PROVE ApprovalInv'
  <2>1. PICK n : n = work'["operator"]
    OBVIOUS
  <2>2. Others("operator") /\ n.pc = "undo"
    BY <1>2, <2>1, RequestUndoIs
  <2>3. n.verdict = Null
    BY <2>1, <2>2 DEF BaseInv, Fine, Course
  <2>4. Agreed(n) /\ Kept(n)
    BY <2>2, <2>3, NullIsNothing DEF Agreed, Kept
  <2> QED BY <1>2, <2>1, <2>2, <2>4, ApprovalSame DEF RequestUndo, queue, told
<1>3. ASSUME NEW V, NEW verdict, Request(V, verdict) PROVE ApprovalInv'
  <2>1. PICK n : n = work'["reviewer"]
    OBVIOUS
  <2>2. Others("reviewer") /\ n.pc = "take"
    BY <1>3, <2>1, RequestIs
  <2>3. Agreed(n) /\ Kept(n)
    BY <2>2 DEF Agreed, Kept
  <2> QED BY <1>3, <2>1, <2>2, <2>3, ApprovalSame DEF Request, queue, told
<1>4. ASSUME NEW q \in Process, Fault(q) PROVE ApprovalInv'
  <2>1. Return(q) /\ UNCHANGED <<resolutions, reviews, undone>>
    BY <1>4 DEF Fault, queue, told
  <2>2. \A r, p : Stands(r, p) => Stands(r, p)'
    BY <2>1 DEF Stands
  <2>3. SameQuestion /\ \A v : There(v)' /\ reviews'[v].status = "merged" => There(v) /\ reviews[v].status = "merged"
    BY <2>1 DEF SameQuestion, There
  <2> QED BY <2>1, <2>2, <2>3, ApprovalReturn
<1>5. CASE CrashChain
  <2>1. PICK n : n = work'["chain"]
    OBVIOUS
  <2>2. Others("chain") /\ n.pc = "take"
    BY <1>5, <2>1, LoopIs DEF CrashChain
  <2>3. Agreed(n) /\ Kept(n)
    BY <2>2 DEF Agreed, Kept
  <2> QED BY <1>5, <2>1, <2>2, <2>3, ApprovalSame DEF CrashChain, queue, told
<1>6. ASSUME NEW r \in Record, Fetch(r) PROVE ApprovalInv'
  BY <1>1, <1>6 DEF Fetch, queue, told
<1>7. UNCHANGED resolutionVars => ApprovalInv'
  BY <1>1 DEF resolutionVars
<1> QED BY <1>2, <1>3, <1>4, <1>5, <1>6, <1>7, ApprovalChain, ApprovalPeople DEF ResolutionNext

\* Whoever is about to close a review as merged has put its record on the candidate, or found
\* it undone since (review.ts:115-153).
THEOREM ApprovalInvariant == ResolutionSpec => []ApprovalInv
<1>1. ResolutionInit => ApprovalInv
  BY ApprovalInit
<1>2. BaseInv /\ BaseInv' /\ ApprovalInv /\ [ResolutionNext]_resolutionVars => ApprovalInv'
  BY ApprovalNext
<1> QED BY <1>1, <1>2, BaseInvariant, PTL DEF ResolutionSpec

\* The record of a review that reads "merged" is on the project approved, or was undone since,
\* whoever else decides that review, places that record or fails on the way (review.ts:105-153).
THEOREM ApprovedStays == ResolutionSpec => []ApprovalStands
<1>1. ApprovalInv => ApprovalStands
  BY DEF ApprovalInv, ApprovalStands, There, Stands
<1> QED BY <1>1, ApprovalInvariant, PTL
================================================================================
