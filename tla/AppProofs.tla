-------------------------------- MODULE AppProofs --------------------------------
(***************************************************************************)
(* Proofs about the two doors into the app for every value of their          *)
(* constants.  Opportunity: types, the states that people gave and runs must *)
(* not take (PeopleWin), the evidence behind the sweep (SweepHasEvidence)    *)
(* and the one-tap tokens (TapOnce).  Field: what a crew typed survives, is  *)
(* stored and told once, and is decided once (CrewWordsSurvive).             *)
(***************************************************************************)
EXTENDS Opportunity, Field, TLAPS

--------------------------------------------------------------------------------
(* Opportunity.                                                             *)

Work == [pc : {"idle", "upsert", "read", "sweep", "set", "label", "claim", "dismiss", "feedback"},
         scope : SUBSET Pair, seen : [Pair -> Band \cup {"unrouted"}], version : 0..MaxDeploy,
         todo : SUBSET Pair, pair : Pair \cup {None}, to : Manual \cup {"rescore", None}]

Typed ==
    /\ facts \in [Pair -> Facts] /\ deployed \in 1..MaxDeploy
    /\ rows \in [Pair -> Row \cup {None}]
    /\ tokens \in [Pair -> {"none", "live", "spent"}]
    /\ feedback \in [Pair -> Nat] /\ labels \in [Pair -> Nat]
    /\ work \in [Process -> Work]

Serving == {"set", "label", "claim", "dismiss", "feedback"}

\* A process that serves a person knows its row, which is there; one that upserts
\* holds only pairs it found to route, one that sweeps only pairs it has scored and
\* found not to.
Placed(p) ==
    /\ work[p].pc \in Serving => work[p].pair \in Pair /\ rows[work[p].pair] # None
    /\ work[p].pc = "set" => work[p].to \in Manual \cup {"rescore"}
    /\ work[p].pc = "upsert" => \A o \in work[p].todo : work[p].seen[o] # "unrouted"
    /\ work[p].pc = "sweep" => \A o \in work[p].todo :
         o \in work[p].scope \ Routerless /\ work[p].seen[o] = "unrouted"

\* p has spent the token of o and has not left its feedback yet.
Holds(p, o) == work[p].pc \in {"dismiss", "feedback"} /\ work[p].pair = o

\* A token that is spent was spent once: by nobody's tap, by one that is still at
\* work, or by one that has left its feedback row.
Spent(o) ==
    /\ tokens[o] # "none" => rows[o] # None
    /\ tokens[o] # "spent" => feedback[o] = 0
    /\ \A p \in Process : Holds(p, o) => tokens[o] = "spent" /\ feedback[o] = 0
    /\ \A p, q \in Process : Holds(p, o) /\ Holds(q, o) => p = q
    /\ feedback[o] <= 1

OpportunityInv ==
    /\ Typed
    /\ \A p \in Process : Placed(p)
    /\ \A o \in Pair : Spent(o)

--------------------------------------------------------------------------------
(* Lemmas about the operators.                                              *)

LEMMA IdleTyped == Idle \in Work
BY OpportunityAssumption DEF Idle, Work

\* What a run concludes of a pair is a band, or that it does not route.
LEMMA VerdictTyped == \A o \in Pair : Verdict(o) \in Band \cup {"unrouted"}
BY DEF Verdict, BandFor, Band

LEMMA UpsertedTyped ==
    ASSUME NEW row \in Row \cup {None}, NEW band \in Band, NEW version \in 0..MaxDeploy
    PROVE  Upserted(row, band, version) \in Row
BY DEF Upserted, StateAfter, Row

\* One process moves on, no row goes, and no token is spent or fed back: what was
\* said of the other processes and of the tokens stays true.
LEMMA FrameKept ==
    ASSUME OpportunityInv, NEW p \in Process, NEW w \in Work,
           work' = [work EXCEPT ![p] = w],
           \A o \in Pair : rows[o] # None => rows'[o] # None,
           Placed(p)', \A o \in Pair : Holds(p, o)' => Holds(p, o),
           UNCHANGED <<tokens, feedback>>
    PROVE  /\ work' \in [Process -> Work]
           /\ \A q \in Process : Placed(q)'
           /\ \A o \in Pair : Spent(o)'
<1> USE DEF OpportunityInv
<1>1. work' \in [Process -> Work]
  BY DEF Typed
<1>2. \A q \in Process : q # p => work'[q] = work[q]
  BY DEF Typed
<1>3. ASSUME NEW q \in Process, q # p PROVE Placed(q)'
  BY <1>2, <1>3 DEF Placed
<1>4. \A q \in Process, o \in Pair : Holds(q, o)' => Holds(q, o)
  BY <1>2 DEF Holds
<1>5. \A o \in Pair : Spent(o)'
  BY <1>4 DEF Spent
<1> QED BY <1>1, <1>3, <1>5

\* Rows and processes are as they were.
LEMMA StillWorldKept ==
    ASSUME OpportunityInv, UNCHANGED <<rows, work, feedback>>,
           \A o \in Pair : \/ tokens'[o] = tokens[o]
                           \/ tokens[o] = "none" /\ tokens'[o] = "live" /\ rows[o] # None
                           \/ tokens'[o] = "spent" /\ tokens[o] = "live"
    PROVE  /\ \A q \in Process : Placed(q)'
           /\ \A o \in Pair : Spent(o)'
<1>1. \A q \in Process, o \in Pair : Holds(q, o)' <=> Holds(q, o)
  BY DEF Holds
<1>2. \A o \in Pair : Spent(o)'
  BY <1>1 DEF OpportunityInv, Spent
<1> QED BY <1>2 DEF OpportunityInv, Placed

--------------------------------------------------------------------------------
(* The inductive invariant, action by action.                               *)

LEMMA InvInit == Init => OpportunityInv
<1> SUFFICES ASSUME Init PROVE OpportunityInv
  OBVIOUS
<1>1. rows \in [Pair -> Row \cup {None}]
  BY OpportunityAssumption DEF Init, Row, Band, Manual
<1>2. Typed
  BY <1>1, IdleTyped, OpportunityAssumption DEF Init, Typed
<1>3. \A p \in Process : Placed(p)
  BY DEF Init, Placed, Idle, Serving
<1>4. \A o \in Pair : Spent(o)
  BY DEF Init, Spent, Holds, Idle
<1> QED BY <1>2, <1>3, <1>4 DEF OpportunityInv

LEMMA LoadKeeps ==
    ASSUME OpportunityInv, NEW p \in Scorer, NEW scope \in SUBSET Pair, Load(p, scope)
    PROVE  OpportunityInv'
<1> USE DEF OpportunityInv
<1> DEFINE routed == {o \in scope : Verdict(o) # "unrouted"}
           w == [[Idle EXCEPT !.scope = scope, !.seen = [o \in Pair |-> Verdict(o)],
                              !.version = deployed]
                   EXCEPT !.todo = routed, !.pc = IF routed = {} THEN "read" ELSE "upsert"]
<1>1. /\ work' = [work EXCEPT ![p] = w] /\ p \in Process
      /\ UNCHANGED <<facts, deployed, rows, tokens, feedback, labels>>
  BY DEF Load, table, Process
<1>2. w.pc \in {"read", "upsert"} /\ \A o \in w.todo : w.seen[o] # "unrouted"
  BY DEF Idle
<1>3. w \in Work
  <2>1. [o \in Pair |-> Verdict(o)] \in [Pair -> Band \cup {"unrouted"}]
    BY VerdictTyped
  <2>2. deployed \in 0..MaxDeploy /\ routed \in SUBSET Pair
    BY OpportunityAssumption DEF Typed
  <2> QED BY <2>1, <2>2 DEF Idle, Work
<1> HIDE DEF w
<1>4. work'[p] = w
  BY <1>1 DEF Typed
<1>5. Placed(p)' /\ \A o \in Pair : ~Holds(p, o)'
  BY <1>2, <1>4 DEF Placed, Holds, Serving
<1>6. /\ work' \in [Process -> Work] /\ \A q \in Process : Placed(q)'
      /\ \A o \in Pair : Spent(o)'
  BY <1>1, <1>3, <1>5, FrameKept
<1> QED BY <1>1, <1>6 DEF Typed

LEMMA UpsertKeeps ==
    ASSUME OpportunityInv, NEW p \in Scorer, Upsert(p)
    PROVE  OpportunityInv'
<1> USE DEF OpportunityInv
<1>1. PICK o \in work[p].todo :
        LET me == [work[p] EXCEPT !.todo = @ \ {o}]
        IN  /\ rows' = [rows EXCEPT ![o] = Upserted(@, me.seen[o], me.version)]
            /\ work' = [work EXCEPT ![p] =
                   [me EXCEPT !.pc = IF me.todo = {} THEN "read" ELSE "upsert"]]
  BY DEF Upsert
<1> DEFINE me == [work[p] EXCEPT !.todo = @ \ {o}]
           w == [me EXCEPT !.pc = IF me.todo = {} THEN "read" ELSE "upsert"]
           row == Upserted(rows[o], me.seen[o], me.version)
<1>2. /\ work' = [work EXCEPT ![p] = w] /\ p \in Process /\ rows' = [rows EXCEPT ![o] = row]
      /\ UNCHANGED <<facts, deployed, tokens, feedback, labels>>
  BY <1>1 DEF Upsert, Process
<1>3. work[p] \in Work
  BY <1>2 DEF Typed
<1>4. w \in Work /\ w.pc \in {"read", "upsert"} /\ w.seen = work[p].seen /\ w.todo \subseteq work[p].todo
  BY <1>3 DEF Work
<1>5. row \in Row
  <2>1. rows[o] \in Row \cup {None} /\ me.version \in 0..MaxDeploy /\ o \in Pair
    BY <1>3 DEF Typed, Work
  <2>2. me.seen[o] \in Band
    BY <1>2, <1>3, <2>1 DEF Upsert, Placed, Work
  <2> QED BY <2>1, <2>2, UpsertedTyped
<1>6. rows' \in [Pair -> Row \cup {None}] /\ \A x \in Pair : rows[x] # None => rows'[x] # None
  BY <1>2, <1>5, NoneIsNoRow DEF Typed
<1> HIDE DEF w, row
<1>7. work'[p] = w
  BY <1>2 DEF Typed
<1>8. Placed(p)' /\ \A x \in Pair : ~Holds(p, x)'
  BY <1>2, <1>4, <1>7 DEF Placed, Holds, Serving, Upsert
<1>9. /\ work' \in [Process -> Work] /\ \A q \in Process : Placed(q)'
      /\ \A x \in Pair : Spent(x)'
  BY <1>2, <1>4, <1>6, <1>8, FrameKept
<1> QED BY <1>2, <1>6, <1>9 DEF Typed

\* What a run finds to sweep it has scored, and found not to route.
LEMMA ReadSweepableKeeps ==
    ASSUME OpportunityInv, NEW p \in Scorer, ReadSweepable(p)
    PROVE  OpportunityInv'
<1> USE DEF OpportunityInv
<1> DEFINE w == IF Derouted(p) = {} THEN Idle
                ELSE [work[p] EXCEPT !.todo = Derouted(p), !.pc = "sweep"]
<1>1. /\ work' = [work EXCEPT ![p] = w] /\ p \in Process /\ work[p] \in Work
      /\ UNCHANGED <<facts, deployed, rows, tokens, feedback, labels>>
  BY DEF ReadSweepable, table, Process, Typed
<1>2. /\ Derouted(p) \subseteq Pair
      /\ \A o \in Derouted(p) : o \in work[p].scope \ Routerless /\ work[p].seen[o] = "unrouted"
  BY <1>1 DEF Derouted, Routed, Work
<1>3. w \in Work /\ w.pc \in {"idle", "sweep"}
  BY <1>1, <1>2, IdleTyped DEF Work, Idle
<1>4. w.pc = "sweep" => \A o \in w.todo : o \in w.scope \ Routerless /\ w.seen[o] = "unrouted"
  BY <1>1, <1>2 DEF Work, Idle
<1> HIDE DEF w
<1>5. work'[p] = w
  BY <1>1 DEF Typed
<1>6. Placed(p)' /\ \A o \in Pair : ~Holds(p, o)'
  BY <1>3, <1>4, <1>5 DEF Placed, Holds, Serving
<1>7. /\ work' \in [Process -> Work] /\ \A q \in Process : Placed(q)'
      /\ \A o \in Pair : Spent(o)'
  BY <1>1, <1>3, <1>6, FrameKept
<1> QED BY <1>1, <1>7 DEF Typed

\* A process that goes idle owes nothing.
LEMMA IdleKept ==
    ASSUME OpportunityInv, NEW p \in Process, work' = [work EXCEPT ![p] = Idle],
           \A o \in Pair : rows[o] # None => rows'[o] # None,
           UNCHANGED <<tokens, feedback>>
    PROVE  /\ work' \in [Process -> Work]
           /\ \A q \in Process : Placed(q)'
           /\ \A o \in Pair : Spent(o)'
<1>1. work'[p] = Idle
  BY DEF OpportunityInv, Typed
<1>2. Placed(p)' /\ \A o \in Pair : ~Holds(p, o)'
  BY <1>1 DEF Placed, Holds, Serving, Idle
<1> QED BY <1>2, IdleTyped, FrameKept

LEMMA SweepKeeps ==
    ASSUME OpportunityInv, NEW p \in Scorer, Sweep(p)
    PROVE  OpportunityInv'
<1> USE DEF OpportunityInv
<1>1. \A o \in Pair : rows[o] \in Row => [rows[o] EXCEPT !.state = "archive", !.derouted = TRUE] \in Row
  BY DEF Row, Band
<1>2. \A o \in Pair : rows'[o] \in Row \cup {None} /\ (rows[o] # None => rows'[o] # None)
  BY <1>1, NoneIsNoRow DEF Sweep, Typed, StillSweepable, Sweepable
<1>3. rows' \in [Pair -> Row \cup {None}]
  BY <1>2 DEF Sweep
<1>4. /\ work' \in [Process -> Work] /\ \A q \in Process : Placed(q)'
      /\ \A o \in Pair : Spent(o)'
  BY <1>2, IdleKept DEF Sweep, Process
<1> QED BY <1>3, <1>4 DEF Typed, Sweep

--------------------------------------------------------------------------------
(* Requests.                                                                *)

LEMMA DecideKeeps ==
    ASSUME OpportunityInv, NEW o \in Pair, NEW to \in Manual \cup {"rescore"}, Decide(o, to)
    PROVE  OpportunityInv'
<1> USE DEF OpportunityInv
<1> DEFINE w == [Idle EXCEPT !.pc = "set", !.pair = o, !.to = to]
<1>1. /\ work' = [work EXCEPT !["app"] = w] /\ "app" \in Process /\ rows[o] # None
      /\ UNCHANGED <<facts, deployed, rows, tokens, feedback, labels>>
  BY DEF Decide, table, Process, Person
<1>2. w \in Work /\ w.pc = "set" /\ w.pair = o /\ w.to = to
  BY IdleTyped DEF Work, Idle
<1> HIDE DEF w
<1>3. work'["app"] = w
  BY <1>1 DEF Typed
<1>4. Placed("app")' /\ \A x \in Pair : ~Holds("app", x)'
  BY <1>1, <1>2, <1>3 DEF Placed, Holds, Serving
<1>5. /\ work' \in [Process -> Work] /\ \A q \in Process : Placed(q)'
      /\ \A x \in Pair : Spent(x)'
  BY <1>1, <1>2, <1>4, FrameKept
<1> QED BY <1>1, <1>5 DEF Typed

\* A state given to a row that is there leaves a row.
LEMMA StateGiven ==
    ASSUME Typed, NEW o \in Pair, rows[o] # None, NEW state \in Band \cup Manual,
           rows' = [rows EXCEPT ![o].state = state]
    PROVE  /\ rows' \in [Pair -> Row \cup {None}]
           /\ \A x \in Pair : rows[x] # None => rows'[x] # None
<1>1. [rows[o] EXCEPT !.state = state] \in Row
  BY DEF Typed, Row
<1> QED BY <1>1, NoneIsNoRow DEF Typed

LEMMA SetStateKeeps == OpportunityInv /\ SetState => OpportunityInv'
<1> SUFFICES ASSUME OpportunityInv, SetState PROVE OpportunityInv'
  OBVIOUS
<1> USE DEF OpportunityInv
<1> DEFINE o == work["app"].pair
           w == [work["app"] EXCEPT !.pc = "label"]
<1>1. /\ work' = [work EXCEPT !["app"] = w] /\ "app" \in Process /\ work["app"] \in Work
      /\ rows' = [rows EXCEPT ![o].state = Target(work["app"].to)]
      /\ UNCHANGED <<facts, deployed, tokens, feedback, labels>>
  BY DEF SetState, Process, Person, Typed
<1>2. o \in Pair /\ rows[o] # None /\ Target(work["app"].to) \in Band \cup Manual
  BY <1>1 DEF SetState, Placed, Serving, Target, Band
<1>3. /\ rows' \in [Pair -> Row \cup {None}]
      /\ \A x \in Pair : rows[x] # None => rows'[x] # None
  BY <1>1, <1>2, StateGiven
<1>4. w \in Work /\ w.pc = "label" /\ w.pair = o
  BY <1>1 DEF Work
<1> HIDE DEF w
<1>5. work'["app"] = w
  BY <1>1 DEF Typed
<1>6. Placed("app")' /\ \A x \in Pair : ~Holds("app", x)'
  BY <1>2, <1>3, <1>4, <1>5 DEF Placed, Holds, Serving
<1>7. /\ work' \in [Process -> Work] /\ \A q \in Process : Placed(q)'
      /\ \A x \in Pair : Spent(x)'
  BY <1>1, <1>3, <1>4, <1>6, FrameKept
<1> QED BY <1>1, <1>3, <1>7 DEF Typed

LEMMA InsertLabelKeeps == OpportunityInv /\ InsertLabel => OpportunityInv'
<1> SUFFICES ASSUME OpportunityInv, InsertLabel PROVE OpportunityInv'
  OBVIOUS
<1> USE DEF OpportunityInv
<1>1. labels' \in [Pair -> Nat]
  BY DEF InsertLabel, Typed, Placed, Serving, Process, Person
<1>2. /\ work' \in [Process -> Work] /\ \A q \in Process : Placed(q)'
      /\ \A x \in Pair : Spent(x)'
  BY IdleKept DEF InsertLabel, Process, Person
<1> QED BY <1>1, <1>2 DEF Typed, InsertLabel

LEMMA TapStartsKeeps ==
    ASSUME OpportunityInv, NEW p \in Person, NEW o \in Pair, TapStarts(p, o)
    PROVE  OpportunityInv'
<1> USE DEF OpportunityInv
<1> DEFINE w == [Idle EXCEPT !.pc = "claim", !.pair = o]
<1>1. /\ work' = [work EXCEPT ![p] = w] /\ p \in Process /\ rows[o] # None
      /\ UNCHANGED <<facts, deployed, rows, tokens, feedback, labels>>
  BY DEF TapStarts, table, Process, Spent
<1>2. w \in Work /\ w.pc = "claim" /\ w.pair = o
  BY IdleTyped DEF Work, Idle
<1> HIDE DEF w
<1>3. work'[p] = w
  BY <1>1 DEF Typed
<1>4. Placed(p)' /\ \A x \in Pair : ~Holds(p, x)'
  BY <1>1, <1>2, <1>3 DEF Placed, Holds, Serving
<1>5. /\ work' \in [Process -> Work] /\ \A q \in Process : Placed(q)'
      /\ \A x \in Pair : Spent(x)'
  BY <1>1, <1>2, <1>4, FrameKept
<1> QED BY <1>1, <1>5 DEF Typed

\* A live token has been spent by nobody: who claims it is the only one to hold it.
LEMMA ClaimKeeps ==
    ASSUME OpportunityInv, NEW p \in Person, Claim(p)
    PROVE  OpportunityInv'
<1> USE DEF OpportunityInv
<1>1. PICK o \in Pair :
        /\ p \in Process /\ work[p] \in Work /\ o = work[p].pair /\ rows[o] # None
        /\ UNCHANGED <<facts, deployed, rows, feedback, labels>>
  BY DEF Claim, Process, Typed, Placed, Serving
<1> DEFINE w == [work[p] EXCEPT !.pc = "dismiss"]
<1>2. CASE tokens[o] = "live"
  <2>1. tokens' = [tokens EXCEPT ![o] = "spent"] /\ work' = [work EXCEPT ![p] = w]
    BY <1>1, <1>2 DEF Claim
  <2>2. w \in Work /\ w.pc = "dismiss" /\ w.pair = o
    BY <1>1 DEF Work
  <2> HIDE DEF w
  <2>3. work' \in [Process -> Work] /\ work'[p] = w /\ \A q \in Process : q # p => work'[q] = work[q]
    BY <1>1, <2>1, <2>2 DEF Typed
  <2>4. \A q \in Process : Placed(q)'
    <3>1. Placed(p)'
      BY <1>1, <2>2, <2>3 DEF Placed, Serving
    <3>2. ASSUME NEW q \in Process, q # p PROVE Placed(q)'
      BY <1>1, <2>3, <3>2 DEF Placed
    <3> QED BY <3>1, <3>2
  <2>5. \A q \in Process, x \in Pair : Holds(q, x)' <=> Holds(q, x) \/ (q = p /\ x = o)
    BY <1>1, <2>2, <2>3 DEF Holds, Claim
  <2>6. feedback[o] = 0 /\ \A q \in Process : ~Holds(q, o)
    BY <1>1, <1>2 DEF Spent
  <2>7. tokens'[o] = "spent" /\ \A x \in Pair : x # o => tokens'[x] = tokens[x]
    BY <1>1, <2>1 DEF Typed
  <2>8. Spent(o)'
    BY <1>1, <2>5, <2>6, <2>7 DEF Spent
  <2>9. ASSUME NEW x \in Pair, x # o PROVE Spent(x)'
    BY <1>1, <2>5, <2>7, <2>9 DEF Spent
  <2>10. tokens' \in [Pair -> {"none", "live", "spent"}]
    BY <2>1 DEF Typed
  <2> QED BY <1>1, <2>3, <2>4, <2>8, <2>9, <2>10 DEF Typed
<1>3. CASE tokens[o] # "live"
  <2>1. work' = [work EXCEPT ![p] = Idle] /\ UNCHANGED tokens
    BY <1>1, <1>3 DEF Claim
  <2>2. /\ work' \in [Process -> Work] /\ \A q \in Process : Placed(q)'
        /\ \A x \in Pair : Spent(x)'
    BY <1>1, <2>1, IdleKept
  <2> QED BY <1>1, <2>1, <2>2 DEF Typed
<1> QED BY <1>2, <1>3

LEMMA TapDismissKeeps ==
    ASSUME OpportunityInv, NEW p \in Person, TapDismiss(p)
    PROVE  OpportunityInv'
<1> USE DEF OpportunityInv
<1> DEFINE o == work[p].pair
           w == [work[p] EXCEPT !.pc = "feedback"]
<1>1. /\ work' = [work EXCEPT ![p] = w] /\ p \in Process /\ work[p] \in Work
      /\ rows' = [rows EXCEPT ![o].state = "dismissed"]
      /\ UNCHANGED <<facts, deployed, tokens, feedback, labels>>
  BY DEF TapDismiss, Process, Typed
<1>2. o \in Pair /\ rows[o] # None
  BY <1>1 DEF TapDismiss, Placed, Serving
<1>3. /\ rows' \in [Pair -> Row \cup {None}]
      /\ \A x \in Pair : rows[x] # None => rows'[x] # None
  BY <1>1, <1>2, StateGiven DEF Manual
<1>4. w \in Work /\ w.pc = "feedback" /\ w.pair = o
  BY <1>1 DEF Work
<1> HIDE DEF w
<1>5. work'[p] = w
  BY <1>1 DEF Typed
<1>6. Placed(p)' /\ \A x \in Pair : Holds(p, x)' => Holds(p, x)
  BY <1>2, <1>3, <1>4, <1>5 DEF Placed, Holds, Serving, TapDismiss
<1>7. /\ work' \in [Process -> Work] /\ \A q \in Process : Placed(q)'
      /\ \A x \in Pair : Spent(x)'
  BY <1>1, <1>3, <1>4, <1>6, FrameKept
<1> QED BY <1>1, <1>3, <1>7 DEF Typed

\* Who leaves the feedback held the token alone, so nobody else will leave another.
LEMMA TapFeedbackKeeps ==
    ASSUME OpportunityInv, NEW p \in Person, TapFeedback(p)
    PROVE  OpportunityInv'
<1> USE DEF OpportunityInv
<1>1. PICK o \in Pair :
        /\ Holds(p, o) /\ p \in Process /\ work' = [work EXCEPT ![p] = Idle]
        /\ feedback' = [feedback EXCEPT ![o] = @ + 1]
        /\ UNCHANGED <<facts, deployed, rows, tokens, labels>>
  BY DEF TapFeedback, Process, Placed, Serving, Holds
<1>2. tokens[o] = "spent" /\ feedback[o] = 0 /\ \A q \in Process : Holds(q, o) => q = p
  BY <1>1 DEF Spent
<1>3. /\ work' \in [Process -> Work] /\ work'[p] = Idle
      /\ \A q \in Process : q # p => work'[q] = work[q]
  BY <1>1, IdleTyped DEF Typed
<1>4. \A q \in Process : Placed(q)'
  <2>1. Placed(p)'
    BY <1>3 DEF Placed, Serving, Idle
  <2>2. ASSUME NEW q \in Process, q # p PROVE Placed(q)'
    BY <1>1, <1>3, <2>2 DEF Placed
  <2> QED BY <2>1, <2>2
<1>5. \A q \in Process, x \in Pair : Holds(q, x)' <=> Holds(q, x) /\ q # p
  BY <1>3 DEF Holds, Idle
<1>6. feedback' \in [Pair -> Nat] /\ feedback'[o] = 1 /\ \A x \in Pair : x # o => feedback'[x] = feedback[x]
  BY <1>1, <1>2 DEF Typed
<1>7. Spent(o)'
  BY <1>1, <1>2, <1>5, <1>6 DEF Spent
<1>8. ASSUME NEW x \in Pair, x # o PROVE Spent(x)'
  BY <1>1, <1>5, <1>6, <1>8 DEF Spent
<1> QED BY <1>1, <1>3, <1>4, <1>6, <1>7, <1>8 DEF Typed

--------------------------------------------------------------------------------
(* The world.                                                               *)

LEMMA FaultKeeps ==
    ASSUME OpportunityInv, NEW p \in Process, Fault(p)
    PROVE  OpportunityInv'
<1>1. /\ work' = [work EXCEPT ![p] = Idle]
      /\ UNCHANGED <<facts, deployed, rows, tokens, feedback, labels>>
  BY DEF Fault, table
<1>2. /\ work' \in [Process -> Work] /\ \A q \in Process : Placed(q)'
      /\ \A x \in Pair : Spent(x)'
  BY <1>1, IdleKept
<1> QED BY <1>1, <1>2 DEF OpportunityInv, Typed

LEMMA WorldKeeps ==
    ASSUME OpportunityInv,
           \/ \E o \in Pair : Show(o) \/ Expire(o) \/ \E f \in Facts : Change(o, f)
           \/ Deploy
           \/ UNCHANGED vars
    PROVE  OpportunityInv'
<1> USE DEF OpportunityInv
<1>1. ASSUME NEW o \in Pair, Show(o) PROVE OpportunityInv'
  <2>1. (\A q \in Process : Placed(q)') /\ \A x \in Pair : Spent(x)'
    BY <1>1, StillWorldKept DEF Show, Deliverable, Typed
  <2> QED BY <1>1, <2>1 DEF Show, Typed
<1>2. ASSUME NEW o \in Pair, Expire(o) PROVE OpportunityInv'
  <2>1. (\A q \in Process : Placed(q)') /\ \A x \in Pair : Spent(x)'
    BY <1>2, StillWorldKept DEF Expire, Typed
  <2> QED BY <1>2, <2>1 DEF Expire, Typed
<1>3. ASSUME NEW o \in Pair, NEW f \in Facts, Change(o, f) PROVE OpportunityInv'
  <2>1. (\A q \in Process : Placed(q)') /\ \A x \in Pair : Spent(x)'
    BY <1>3, StillWorldKept DEF Change, table
  <2> QED BY <1>3, <2>1 DEF Change, table, Typed
<1>4. CASE Deploy
  <2>1. (\A q \in Process : Placed(q)') /\ \A x \in Pair : Spent(x)'
    BY <1>4, StillWorldKept DEF Deploy, table
  <2>2. deployed' \in 1..MaxDeploy
    BY <1>4, OpportunityAssumption DEF Deploy, Typed
  <2> QED BY <1>4, <2>1, <2>2 DEF Deploy, table, Typed
<1>5. CASE UNCHANGED vars
  <2>1. (\A q \in Process : Placed(q)') /\ \A x \in Pair : Spent(x)'
    BY <1>5, StillWorldKept DEF vars
  <2> QED BY <1>5, <2>1 DEF vars, Typed
<1> QED BY <1>1, <1>2, <1>3, <1>4, <1>5

LEMMA InvNext == OpportunityInv /\ [Next]_vars => OpportunityInv'
<1> SUFFICES ASSUME OpportunityInv, [Next]_vars PROVE OpportunityInv'
  OBVIOUS
<1>1. ASSUME NEW p \in Scorer, Score(p) \/ \E scope \in SUBSET Pair : Load(p, scope)
      PROVE  OpportunityInv'
  BY <1>1, LoadKeeps, UpsertKeeps, ReadSweepableKeeps, SweepKeeps DEF Score
<1>2. ASSUME NEW p \in Person, Respond(p) \/ \E o \in Pair : TapStarts(p, o)
      PROVE  OpportunityInv'
  BY <1>2, ClaimKeeps, TapDismissKeeps, TapFeedbackKeeps, TapStartsKeeps DEF Respond
<1>3. CASE SetState \/ InsertLabel
  BY <1>3, SetStateKeeps, InsertLabelKeeps
<1>4. CASE \E o \in Pair, to \in Manual \cup {"rescore"} : Decide(o, to)
  BY <1>4, DecideKeeps
<1>5. CASE \E p \in Process : Fault(p)
  BY <1>5, FaultKeeps
<1> QED BY <1>1, <1>2, <1>3, <1>4, <1>5, WorldKeeps DEF Next

\* The inductive invariant holds of every behaviour of the rows, whatever the pairs,
\* thresholds and verdicts are.
THEOREM OpportunityInvariant == Spec => []OpportunityInv
BY InvInit, InvNext, PTL DEF Spec

--------------------------------------------------------------------------------
(* What follows.                                                            *)

\* Rows, tokens, labels and what each process holds keep their types.
THEOREM TypeCorrect == Spec => []TypeOK
<1>1. OpportunityInv => TypeOK
  <2> SUFFICES ASSUME OpportunityInv PROVE TypeOK
    OBVIOUS
  <2>1. Typed
    BY DEF OpportunityInv
  <2>2. \A p \in Process : work[p] \in Work
    BY <2>1 DEF Typed
  <2>3. ASSUME NEW p \in Process
        PROVE  /\ work[p].pc \in {"idle", "upsert", "read", "sweep", "set", "label", "claim", "dismiss", "feedback"}
               /\ work[p].scope \subseteq Pair /\ work[p].todo \subseteq Pair
               /\ work[p].seen \in [Pair -> Band \cup {"unrouted"}] /\ work[p].version \in 0..MaxDeploy
    BY <2>2 DEF Work
  <2> QED BY <2>1, <2>3 DEF Typed, TypeOK
<1> QED BY <1>1, OpportunityInvariant, PTL

\* Two taps of one link, at the same time or one after the other, with a digest, a
\* sweep or a fault in between, leave one feedback row at most.
THEOREM OneTap == Spec => []TapOnce
<1>1. OpportunityInv => TapOnce
  BY DEF OpportunityInv, Spent, TapOnce
<1> QED BY <1>1, OpportunityInvariant, PTL

\* What an upsert does to the rows.
LEMMA UpsertRows ==
    ASSUME OpportunityInv, NEW p \in Scorer, Upsert(p)
    PROVE  \E x \in work[p].todo :
             rows' = [rows EXCEPT ![x] = Upserted(@, work[p].seen[x], work[p].version)]
<1>1. PICK x \in work[p].todo :
        rows' = [rows EXCEPT ![x] = Upserted(@, [work[p] EXCEPT !.todo = @ \ {x}].seen[x],
                                                [work[p] EXCEPT !.todo = @ \ {x}].version)]
  BY DEF Upsert
<1>2. work[p] \in Work
  BY DEF OpportunityInv, Typed, Process
<1>3. /\ [work[p] EXCEPT !.todo = @ \ {x}].seen = work[p].seen
      /\ [work[p] EXCEPT !.todo = @ \ {x}].version = work[p].version
  BY <1>2 DEF Work
<1> QED BY <1>1, <1>3

\* A run that overwrites a row leaves the state a person gave it.
LEMMA UpsertSpares ==
    ASSUME OpportunityInv, NEW p \in Scorer, Upsert(p),
           NEW o \in Pair, rows[o] # None, rows[o].state \in Manual
    PROVE  rows'[o].state = rows[o].state
<1>1. PICK x \in work[p].todo :
        rows' = [rows EXCEPT ![x] = Upserted(@, work[p].seen[x], work[p].version)]
  BY UpsertRows
<1>2. rows \in [Pair -> Row \cup {None}]
  BY DEF OpportunityInv, Typed
<1>3. CASE x = o
  BY <1>1, <1>2, <1>3 DEF Upserted, StateAfter
<1>4. CASE x # o
  BY <1>1, <1>2, <1>4
<1> QED BY <1>3, <1>4

LEMMA SweepSpares ==
    ASSUME OpportunityInv, NEW p \in Scorer, Sweep(p),
           NEW o \in Pair, rows[o] # None, rows[o].state \in Manual
    PROVE  rows'[o].state = rows[o].state
BY DEF Sweep, StillSweepable, Sweepable

\* No score run takes a row out of the state a person gave it, however long ago it
\* read the row: only a decision in the app or a tap does.
THEOREM PeopleHaveTheLastWord == Spec => PeopleWin
<1> DEFINE Kept(o) ==
      rows[o] # None /\ rows[o].state \in Manual /\ rows'[o].state # rows[o].state
        => \E p \in Person : /\ work[p].pc \in {"set", "dismiss"} /\ work[p].pair = o
                             /\ work'[p] # work[p]
<1>1. ASSUME OpportunityInv, [Next]_vars, NEW o \in Pair PROVE Kept(o)
  <2> SUFFICES ASSUME rows[o] # None, rows[o].state \in Manual, rows'[o].state # rows[o].state
               PROVE  \E p \in Person : /\ work[p].pc \in {"set", "dismiss"} /\ work[p].pair = o
                                        /\ work'[p] # work[p]
    OBVIOUS
  <2>1. rows \in [Pair -> Row \cup {None}] /\ work \in [Process -> Work]
    BY <1>1 DEF OpportunityInv, Typed
  <2>2. ~(\E p \in Scorer : Upsert(p) \/ Sweep(p))
    BY <1>1, UpsertSpares, SweepSpares
  <2>3. rows' # rows
    OBVIOUS
  <2>4. SetState \/ \E p \in Person : TapDismiss(p)
    BY <1>1, <2>2, <2>3
       DEF Next, vars, table, Score, Respond, Load, ReadSweepable, Claim, TapFeedback, TapStarts,
           InsertLabel, Show, Expire, Change, Decide, Fault, Deploy
  <2>5. CASE SetState
    <3>1. work["app"].pair = o
      BY <2>1, <2>5 DEF SetState
    <3>2. work'["app"] # work["app"] /\ "app" \in Person
      BY <2>1, <2>5 DEF SetState, Process, Person, Work
    <3> QED BY <2>5, <3>1, <3>2 DEF SetState
  <2>6. ASSUME NEW p \in Person, TapDismiss(p)
        PROVE  /\ work[p].pc = "dismiss" /\ work[p].pair = o /\ work'[p] # work[p]
    <3>1. work[p].pair = o
      BY <2>1, <2>6 DEF TapDismiss
    <3>2. work'[p] # work[p]
      BY <2>1, <2>6 DEF TapDismiss, Process, Work
    <3> QED BY <2>6, <3>1, <3>2 DEF TapDismiss
  <2> QED BY <2>4, <2>5, <2>6
<1>2. OpportunityInv /\ [Next]_vars => \A o \in Pair : Kept(o)
  BY <1>1
<1>3. (\A o \in Pair : Kept(o)) =>
        [\A o \in Pair : rows[o] # None /\ rows[o].state \in Manual
          /\ rows'[o].state # rows[o].state
            => \E p \in Person : work[p].pc \in {"set", "dismiss"} /\ work[p].pair = o
                                 /\ work'[p] # work[p]]_vars
  OBVIOUS
<1> QED BY <1>2, <1>3, OpportunityInvariant, PTL DEF Spec, PeopleWin

\* A row is marked as no longer routed only by a sweep of a run that has scored its
\* project in an account with a router, and found it not to route.
THEOREM SweepIsEarned == Spec => SweepHasEvidence
<1> DEFINE Earned(o) ==
      rows[o] # None /\ ~rows[o].derouted /\ rows'[o].derouted
        => \E p \in Scorer : /\ work[p].pc = "sweep" /\ work'[p] # work[p]
                             /\ o \in work[p].scope \ Routerless
                             /\ work[p].seen[o] = "unrouted"
<1>1. ASSUME OpportunityInv, [Next]_vars, NEW o \in Pair PROVE Earned(o)
  <2> SUFFICES ASSUME rows[o] # None, ~rows[o].derouted, rows'[o].derouted
               PROVE  \E p \in Scorer : /\ work[p].pc = "sweep" /\ work'[p] # work[p]
                                        /\ o \in work[p].scope \ Routerless
                                        /\ work[p].seen[o] = "unrouted"
    OBVIOUS
  <2>1. rows \in [Pair -> Row \cup {None}] /\ work \in [Process -> Work]
    BY <1>1 DEF OpportunityInv, Typed
  <2>2. rows' # rows
    OBVIOUS
  <2>3. ASSUME NEW p \in Scorer, Upsert(p) PROVE FALSE
    <3>1. PICK x \in work[p].todo :
            rows' = [rows EXCEPT ![x] = Upserted(@, work[p].seen[x], work[p].version)]
      BY <1>1, <2>3, UpsertRows
    <3> QED BY <2>1, <3>1 DEF Upserted
  <2>4. ~SetState
    BY <2>1 DEF SetState, Row
  <2>5. ASSUME NEW p \in Person, TapDismiss(p) PROVE FALSE
    BY <2>1, <2>5 DEF TapDismiss
  <2>6. PICK p \in Scorer : Sweep(p)
    BY <1>1, <2>2, <2>3, <2>4, <2>5
       DEF Next, vars, table, Score, Respond, Load, ReadSweepable, Claim, TapFeedback, TapStarts,
           InsertLabel, Show, Expire, Change, Decide, Fault, Deploy
  <2>7. work[p].pc = "sweep" /\ o \in work[p].todo /\ p \in Process
    BY <2>6 DEF Sweep, Process
  <2>8. work'[p] # work[p]
    <3>1. work'[p] = Idle
      BY <2>1, <2>6, <2>7 DEF Sweep
    <3>2. Idle.pc = "idle"
      BY DEF Idle
    <3> QED BY <2>7, <3>1, <3>2
  <2>9. o \in work[p].scope \ Routerless /\ work[p].seen[o] = "unrouted"
    BY <1>1, <2>7 DEF OpportunityInv, Placed
  <2> QED BY <2>7, <2>8, <2>9
<1>2. OpportunityInv /\ [Next]_vars => \A o \in Pair : Earned(o)
  BY <1>1
<1>3. (\A o \in Pair : Earned(o)) =>
        [\A o \in Pair : rows[o] # None /\ ~rows[o].derouted /\ rows'[o].derouted
            => \E p \in Scorer : /\ work[p].pc = "sweep" /\ work'[p] # work[p]
                                 /\ o \in work[p].scope \ Routerless
                                 /\ work[p].seen[o] = "unrouted"]_vars
  OBVIOUS
<1> QED BY <1>2, <1>3, OpportunityInvariant, PTL DEF Spec, SweepHasEvidence

--------------------------------------------------------------------------------
(* Field.                                                                   *)

\* An entry the browser posted itself is not in the outbox; a stored row came from
\* one or the other; a deleted queue entry is stored.
Phoned(e) ==
    /\ e \in keyless => outbox[e] = "absent"
    /\ stored[e] > 0 => e \in keyless \/ outbox[e] # "absent"
    /\ outbox[e] = "deleted" => stored[e] > 0

\* A flush has only queued entries to send; the request it waits for is there, and
\* no other flush waits for it.
Flushing(t) ==
    /\ \A e \in tab[t].todo : outbox[e] # "absent"
    /\ tab[t].awaits # Nil =>
         /\ request[tab[t].awaits] # Nil
         /\ outbox[request[tab[t].awaits].entry] # "absent"
         /\ \A u \in Tab : tab[u].awaits = tab[t].awaits => u = t

\* What a request is about was typed; once past the insert it is stored; an entry
\* without a key is not stored before; who will tell the owner is the first to.
Earnest(r) ==
    request[r] # Nil =>
        /\ request[r].entry \in keyless \/ outbox[request[r].entry] # "absent"
        /\ request[r].at = "notify" \/ request[r].code = "ok" => stored[request[r].entry] > 0
        /\ request[r].at \in {"verify", "insert"} => request[r].code = "none"
        /\ request[r].at \in {"verify", "insert"} /\ request[r].entry \in keyless
             => stored[request[r].entry] = 0
        /\ request[r].at = "notify" /\ ~request[r].deduped => told[request[r].entry] = 0

\* Two requests about one entry repeat a queued one, and at most one of them tells.
Alone(r, s) ==
    request[r] # Nil /\ request[s] # Nil /\ r # s /\ request[r].entry = request[s].entry =>
        /\ request[r].entry \notin keyless
        /\ ~(/\ request[r].at = "notify" /\ ~request[r].deduped
             /\ request[s].at = "notify" /\ ~request[s].deduped)

\* One row, told of at most once, which has a status once it is stored.
Single(e) ==
    /\ stored[e] <= 1 /\ told[e] <= stored[e]
    /\ stored[e] = 0 => status[e] = "none"

\* Who writes a note decided the row, alone, and no note is there yet.
Noting(d) ==
    desk[d].pc = "note" =>
        /\ desk[d].entry \in Entry
        /\ status[desk[d].entry] = desk[d].verdict
        /\ notes[desk[d].entry] = <<>>
        /\ \A c \in Desk : desk[c].pc = "note" /\ desk[c].entry = desk[d].entry => c = d

Deciding(d) == desk[d].pc = "update" => desk[d].entry \in Entry

\* A note is the row's verdict.
Settled(e) == notes[e] # <<>> => status[e] \in Decision /\ notes[e] = <<status[e]>>

PhoneInv  == (\A e \in Entry : Phoned(e)) /\ (\A t \in Tab : Flushing(t))
ServerInv == (\A r \in Slot : Earnest(r)) /\ (\A r, s \in Slot : Alone(r, s))
RowInv    == \A e \in Entry : Single(e)
DeskInv   == (\A d \in Desk : Noting(d) /\ Deciding(d)) /\ (\A e \in Entry : Settled(e))

FieldInv == FieldTypeOK /\ PhoneInv /\ ServerInv /\ RowInv /\ DeskInv

--------------------------------------------------------------------------------
LEMMA FieldInvInit == FieldInit => FieldInv
<1> SUFFICES ASSUME FieldInit PROVE FieldInv
  OBVIOUS
<1>1. FieldTypeOK
  <2>1. <<>> \in Seq(Decision)
    OBVIOUS
  <2>2. notes \in [Entry -> Seq(Decision)]
    BY <2>1 DEF FieldInit
  <2>3. /\ tab \in [Tab -> [flushing : BOOLEAN, todo : SUBSET Entry, awaits : Slot \cup {Nil}]]
        /\ desk \in [Desk -> [pc : {"idle", "update", "note"}, entry : Entry \cup {Nil}, verdict : Decision]]
    BY DEF FieldInit, Quiet, IdleDesk, Decision
  <2>4. losses \in 0..MaxLoss
    BY FieldAssumption DEF FieldInit
  <2> QED BY <2>2, <2>3, <2>4 DEF FieldInit, FieldTypeOK
<1>2. PhoneInv
  BY DEF FieldInit, PhoneInv, Phoned, Flushing, Quiet
<1>3. ServerInv
  BY DEF FieldInit, ServerInv, Earnest, Alone
<1>4. RowInv
  BY DEF FieldInit, RowInv, Single
<1>5. DeskInv
  BY DEF FieldInit, DeskInv, Noting, Deciding, Settled, IdleDesk
<1> QED BY <1>1, <1>2, <1>3, <1>4, <1>5 DEF FieldInv

\* A free slot, when there is one.
LEMMA SlotIs == Free # {} => ASlot \in Slot /\ request[ASlot] = Nil
BY DEF Free, ASlot

\* A posted entry is a request that has just arrived.
LEMMA PostIs ==
    ASSUME NEW e \in Entry
    PROVE  /\ Post(e) \in Asking /\ Post(e) # Nil
           /\ Post(e).entry = e /\ Post(e).at = "verify" /\ Post(e).code = "none"
<1>1. Post(e) \in Asking
  BY DEF Post, Asking
<1> QED BY <1>1, NilIsNoRequest DEF Post

\* Records whose fields move stay records of their type.
LEMMA RecordMoves ==
    ASSUME NEW E, NEW A, NEW B, NEW C, NEW p \in [entry : E, at : A, deduped : B, code : C],
           NEW at \in A, NEW code \in C
    PROVE  /\ [p EXCEPT !.at = at, !.code = code] \in [entry : E, at : A, deduped : B, code : C]
           /\ [p EXCEPT !.at = at] \in [entry : E, at : A, deduped : B, code : C]
OBVIOUS
LEMMA TabMoves ==
    ASSUME NEW E, NEW A, NEW B, NEW p \in [flushing : E, todo : A, awaits : B], NEW y \in B
    PROVE  /\ [p EXCEPT !.awaits = y] \in [flushing : E, todo : A, awaits : B]
           /\ [p EXCEPT !.awaits = y].awaits = y
           /\ [p EXCEPT !.awaits = y].todo = p.todo
OBVIOUS

LEMMA Moves ==
    ASSUME NEW p \in Asking, NEW code \in {"ok", "later", "refused"}
    PROVE  \E q \in Asking : /\ q = [p EXCEPT !.at = "answer", !.code = code]
                            /\ q.entry = p.entry /\ q.at = "answer" /\ q.code = code
<1> DEFINE q == [p EXCEPT !.at = "answer", !.code = code]
<1>1. code \in {"none", "ok", "later", "refused"} /\ "answer" \in {"verify", "insert", "notify", "answer"}
  OBVIOUS
<1>2. q \in Asking
  BY <1>1, RecordMoves, Zenon DEF Asking
<1>3. q.entry = p.entry /\ q.at = "answer" /\ q.code = code
  BY DEF Asking
<1> HIDE DEF q
<1> QED BY <1>2, <1>3 DEF q

LEMMA MovesIn ==
    ASSUME NEW p \in Asking
    PROVE  \E q \in Asking : /\ q = [p EXCEPT !.at = "insert"]
                            /\ q.entry = p.entry /\ q.at = "insert" /\ q.code = p.code
<1> DEFINE q == [p EXCEPT !.at = "insert"]
<1>1. "insert" \in {"verify", "insert", "notify", "answer"} /\ p.code \in {"none", "ok", "later", "refused"}
  BY DEF Asking
<1>2. q \in Asking
  BY <1>1, RecordMoves, Zenon DEF Asking
<1>3. q.entry = p.entry /\ q.at = "insert" /\ q.code = p.code
  BY DEF Asking
<1> HIDE DEF q
<1> QED BY <1>2, <1>3 DEF q

LEMMA RecordMarks ==
    ASSUME NEW E, NEW A, NEW B, NEW C, NEW p \in [entry : E, at : A, deduped : B, code : C],
           NEW at \in A, NEW d \in B
    PROVE  /\ [p EXCEPT !.at = at, !.deduped = d] \in [entry : E, at : A, deduped : B, code : C]
           /\ [p EXCEPT !.at = at, !.deduped = d].entry = p.entry
           /\ [p EXCEPT !.at = at, !.deduped = d].at = at
           /\ [p EXCEPT !.at = at, !.deduped = d].code = p.code
           /\ [p EXCEPT !.at = at, !.deduped = d].deduped = d
OBVIOUS

LEMMA Marks ==
    ASSUME NEW p \in Asking, NEW d \in BOOLEAN
    PROVE  /\ [p EXCEPT !.at = "notify", !.deduped = d] \in Asking
           /\ [p EXCEPT !.at = "notify", !.deduped = d].entry = p.entry
           /\ [p EXCEPT !.at = "notify", !.deduped = d].at = "notify"
           /\ [p EXCEPT !.at = "notify", !.deduped = d].code = p.code
           /\ [p EXCEPT !.at = "notify", !.deduped = d].deduped = d
BY RecordMarks, Zenon DEF Asking

\* The state and the requests of a step that leaves the desk and its rows alone.
LEMMA DeskSame ==
    ASSUME DeskInv, UNCHANGED <<desk, status, notes>> PROVE DeskInv'
BY DEF DeskInv, Noting, Deciding, Settled

LEMMA RowSame ==
    ASSUME RowInv, UNCHANGED <<stored, status, told>> PROVE RowInv'
BY DEF RowInv, Single

--------------------------------------------------------------------------------
(* The phone.                                                               *)

LEMMA SubmitKeeps == ASSUME FieldInv, NEW e \in Entry, SubmitForm(e) PROVE FieldInv'
<1> USE DEF FieldInv
<1> DEFINE r == ASlot
<1>1. r \in Slot /\ request[r] = Nil
  BY SlotIs DEF SubmitForm
<1>2. /\ request' = [request EXCEPT ![r] = Post(e)] /\ keyless' = keyless \cup {e}
      /\ UNCHANGED <<outbox, tab, link, stored, status, told, desk, notes, losses>>
      /\ outbox[e] = "absent" /\ e \notin keyless
  BY DEF SubmitForm, Entered
<1> HIDE DEF r
<1>3. FieldTypeOK'
  BY <1>1, <1>2, PostIs DEF FieldTypeOK
<1>4. /\ request'[r] = Post(e) /\ \A s \in Slot : s # r => request'[s] = request[s]
      /\ r \in Slot
  BY <1>1, <1>2 DEF FieldTypeOK
<1>5. stored[e] = 0
  BY <1>2 DEF PhoneInv, Phoned, FieldTypeOK
<1>6. \A s \in Slot : request[s] # Nil => request[s].entry # e
  BY <1>2 DEF ServerInv, Earnest
<1>7. PhoneInv'
  <2>1. \A f \in Entry : Phoned(f)'
    BY <1>2 DEF PhoneInv, Phoned
  <2>2. \A t \in Tab : Flushing(t)'
    BY <1>1, <1>2, <1>4 DEF PhoneInv, Flushing, FieldTypeOK
  <2> QED BY <2>1, <2>2 DEF PhoneInv
<1>8. ServerInv'
  <2>1. ASSUME NEW s \in Slot PROVE Earnest(s)'
    <3>1. CASE s = r
      BY <1>2, <1>4, <1>5, <3>1, PostIs DEF Earnest
    <3>2. CASE s # r
      BY <1>2, <1>4, <1>6, <3>2 DEF ServerInv, Earnest
    <3> QED BY <3>1, <3>2
  <2>2. ASSUME NEW s \in Slot, NEW u \in Slot PROVE Alone(s, u)'
    BY <1>2, <1>4, <1>6, PostIs DEF ServerInv, Alone
  <2> QED BY <2>1, <2>2 DEF ServerInv
<1> QED BY <1>2, <1>3, <1>7, <1>8, RowSame, DeskSame

LEMMA QueueKeeps == ASSUME FieldInv, NEW e \in Entry, Queue(e) PROVE FieldInv'
<1> USE DEF FieldInv
<1>1. /\ outbox' = [outbox EXCEPT ![e] = "pending"] /\ outbox[e] = "absent" /\ e \notin keyless
      /\ UNCHANGED <<keyless, tab, request, link, stored, status, told, desk, notes, losses>>
  BY DEF Queue, Entered
<1>2. FieldTypeOK'
  BY <1>1 DEF FieldTypeOK
<1>3. outbox'[e] = "pending" /\ \A f \in Entry : f # e => outbox'[f] = outbox[f]
  BY <1>1 DEF FieldTypeOK
<1>4. PhoneInv'
  <2>1. \A f \in Entry : Phoned(f)'
    BY <1>1, <1>3 DEF PhoneInv, Phoned
  <2>2. ASSUME NEW t \in Tab PROVE Flushing(t)'
    <3>1. tab[t].todo \subseteq Entry
      BY DEF FieldTypeOK
    <3> QED BY <1>1, <1>3, <3>1 DEF PhoneInv, Flushing
  <2> QED BY <2>1, <2>2 DEF PhoneInv
<1>5. ServerInv'
  <2>1. ASSUME NEW s \in Slot PROVE Earnest(s)'
    <3>1. request[s] # Nil => request[s].entry \in Entry
      BY DEF FieldTypeOK, Asking
    <3> QED BY <1>1, <1>3, <3>1 DEF ServerInv, Earnest
  <2>2. \A s, u \in Slot : Alone(s, u)'
    BY <1>1 DEF ServerInv, Alone
  <2> QED BY <2>1, <2>2 DEF ServerInv
<1> QED BY <1>1, <1>2, <1>4, <1>5, RowSame, DeskSame

LEMMA FlushKeeps == ASSUME FieldInv, NEW t \in Tab, Flush(t) PROVE FieldInv'
<1> USE DEF FieldInv
<1> DEFINE n == [Quiet EXCEPT !.flushing = TRUE, !.todo = Pending]
<1>1. /\ tab' = [tab EXCEPT ![t] = n]
      /\ UNCHANGED <<outbox, keyless, request, link, stored, status, told, desk, notes, losses>>
  BY DEF Flush
<1>2. n.todo = Pending /\ n.awaits = Nil
      /\ n \in [flushing : BOOLEAN, todo : SUBSET Entry, awaits : Slot \cup {Nil}]
  BY DEF Quiet, Pending
<1> HIDE DEF n
<1>3. FieldTypeOK'
  BY <1>1, <1>2 DEF FieldTypeOK
<1>4. tab'[t] = n /\ \A u \in Tab : u # t => tab'[u] = tab[u]
  BY <1>1 DEF FieldTypeOK
<1>5. PhoneInv'
  <2>1. \A f \in Entry : Phoned(f)'
    BY <1>1 DEF PhoneInv, Phoned
  <2>2. ASSUME NEW u \in Tab PROVE Flushing(u)'
    BY <1>1, <1>2, <1>4 DEF PhoneInv, Flushing, Pending
  <2> QED BY <2>1, <2>2 DEF PhoneInv
<1>6. ServerInv'
  BY <1>1 DEF ServerInv, Earnest, Alone
<1> QED BY <1>1, <1>3, <1>5, <1>6, RowSame, DeskSame

LEMMA SendKeeps == ASSUME FieldInv, NEW t \in Tab, Send(t) PROVE FieldInv'
<1> USE DEF FieldInv
<1> DEFINE r == ASlot
<1>1. r \in Slot /\ request[r] = Nil
  BY SlotIs DEF Send
<1>2. PICK e \in tab[t].todo :
         /\ request' = [request EXCEPT ![r] = Post(e)]
         /\ tab' = [tab EXCEPT ![t].awaits = r, ![t].todo = @ \ {e}]
  BY DEF Send
<1>3. UNCHANGED <<outbox, keyless, link, stored, status, told, desk, notes, losses>>
  BY DEF Send
<1> HIDE DEF r
<1>4. e \in Entry /\ outbox[e] # "absent" /\ e \notin keyless
  <2>1. e \in Entry /\ outbox[e] # "absent"
    BY DEF FieldTypeOK, PhoneInv, Flushing
  <2> QED BY <2>1 DEF PhoneInv, Phoned
<1>5. FieldTypeOK'
  <2>1. request' \in [Slot -> Asking \cup {Nil}]
    BY <1>1, <1>2, <1>4, PostIs DEF FieldTypeOK
  <2>2. tab' \in [Tab -> [flushing : BOOLEAN, todo : SUBSET Entry, awaits : Slot \cup {Nil}]]
    <3>0. PICK b : b = tab[t] /\ b.todo \subseteq Entry /\ b.flushing \in BOOLEAN
                   /\ b \in [flushing : BOOLEAN, todo : SUBSET Entry, awaits : Slot \cup {Nil}]
      BY DEF FieldTypeOK
    <3>1. [b EXCEPT !.awaits = r, !.todo = @ \ {e}] \in
             [flushing : BOOLEAN, todo : SUBSET Entry, awaits : Slot \cup {Nil}]
      BY <1>1, <3>0
    <3>2. tab' = [tab EXCEPT ![t] = [b EXCEPT !.awaits = r, !.todo = @ \ {e}]]
      BY <1>2, <3>0 DEF FieldTypeOK
    <3> QED BY <3>1, <3>2 DEF FieldTypeOK
  <2> QED BY <1>3, <2>1, <2>2 DEF FieldTypeOK
<1>6. /\ request'[r] = Post(e) /\ \A s \in Slot : s # r => request'[s] = request[s]
  BY <1>1, <1>2 DEF FieldTypeOK
<1>7. /\ tab'[t].awaits = r /\ tab'[t].todo = tab[t].todo \ {e}
      /\ \A u \in Tab : u # t => tab'[u] = tab[u]
  BY <1>1, <1>2 DEF FieldTypeOK
<1>8. ASSUME NEW u \in Tab PROVE tab[u].awaits # r
  <2>1. r # Nil /\ Flushing(u)
    BY <1>1, FieldAssumption DEF PhoneInv
  <2> QED BY <1>1, <2>1 DEF Flushing
<1>9. \A u \in Tab : tab[u].awaits # Nil => tab[u].awaits \in Slot
  BY DEF FieldTypeOK
<1>10. PhoneInv'
  <2>1. \A f \in Entry : Phoned(f)'
    BY <1>3 DEF PhoneInv, Phoned
  <2>2. ASSUME NEW u \in Tab PROVE Flushing(u)'
    <3>1. CASE u = t
      BY <1>3, <1>4, <1>6, <1>7, <1>8, <3>1, PostIs DEF PhoneInv, Flushing
    <3>2. CASE u # t
      <4>1. Flushing(u) /\ tab'[u] = tab[u] /\ tab[u].awaits # r
        BY <1>7, <1>8, <3>2 DEF PhoneInv
      <4> QED BY <1>3, <1>6, <1>7, <1>9, <4>1 DEF Flushing
    <3> QED BY <3>1, <3>2
  <2> QED BY <2>1, <2>2 DEF PhoneInv
<1>11. ServerInv'
  <2>1. ASSUME NEW s \in Slot PROVE Earnest(s)'
    <3>1. CASE s = r
      BY <1>3, <1>4, <1>6, <3>1, PostIs DEF Earnest
    <3>2. CASE s # r
      BY <1>3, <1>6, <3>2 DEF ServerInv, Earnest
    <3> QED BY <3>1, <3>2
  <2>2. ASSUME NEW s \in Slot, NEW u \in Slot PROVE Alone(s, u)'
    BY <1>3, <1>4, <1>6, PostIs DEF ServerInv, Alone
  <2> QED BY <2>1, <2>2 DEF ServerInv
<1> QED BY <1>3, <1>5, <1>10, <1>11, RowSame, DeskSame

LEMMA FlushEndsKeeps == ASSUME FieldInv, NEW t \in Tab, FlushEnds(t) PROVE FieldInv'
<1> USE DEF FieldInv
<1>1. /\ tab' = [tab EXCEPT ![t] = Quiet]
      /\ UNCHANGED <<outbox, keyless, request, link, stored, status, told, desk, notes, losses>>
  BY DEF FlushEnds
<1>2. /\ Quiet.todo = {} /\ Quiet.awaits = Nil
      /\ Quiet \in [flushing : BOOLEAN, todo : SUBSET Entry, awaits : Slot \cup {Nil}]
  BY DEF Quiet
<1>3. FieldTypeOK'
  BY <1>1, <1>2 DEF FieldTypeOK
<1>4. tab'[t] = Quiet /\ \A u \in Tab : u # t => tab'[u] = tab[u]
  BY <1>1 DEF FieldTypeOK
<1>5. PhoneInv'
  <2>1. \A f \in Entry : Phoned(f)'
    BY <1>1 DEF PhoneInv, Phoned
  <2>2. ASSUME NEW u \in Tab PROVE Flushing(u)'
    BY <1>1, <1>2, <1>4 DEF PhoneInv, Flushing
  <2> QED BY <2>1, <2>2 DEF PhoneInv
<1>6. ServerInv'
  BY <1>1 DEF ServerInv, Earnest, Alone
<1> QED BY <1>1, <1>3, <1>5, <1>6, RowSame, DeskSame

\* A request that is gone: nothing that is left minds.
LEMMA ServerLess ==
    ASSUME ServerInv, NEW r \in Slot, UNCHANGED <<keyless, stored, told>>,
           request' = [request EXCEPT ![r] = Nil], FieldTypeOK,
           \A f \in Entry : outbox[f] # "absent" => outbox'[f] # "absent"
    PROVE  ServerInv'
<1>1. request'[r] = Nil /\ \A s \in Slot : s # r => request'[s] = request[s]
  BY DEF FieldTypeOK
<1>2. \A s \in Slot : request[s] # Nil => request[s].entry \in Entry
  BY DEF FieldTypeOK, Asking
<1>3. ASSUME NEW s \in Slot PROVE Earnest(s)'
  BY <1>1, <1>2 DEF ServerInv, Earnest
<1>4. ASSUME NEW s \in Slot, NEW u \in Slot PROVE Alone(s, u)'
  BY <1>1 DEF ServerInv, Alone
<1> QED BY <1>3, <1>4 DEF ServerInv

LEMMA ReceiveKeeps == ASSUME FieldInv, NEW t \in Tab, Receive(t) PROVE FieldInv'
<1> USE DEF FieldInv
<1>0. PICK r : r = tab[t].awaits
  OBVIOUS
<1>1. /\ r # Nil /\ request[r].at = "answer" /\ request' = [request EXCEPT ![r] = Nil]
      /\ outbox' = [outbox EXCEPT ![request[r].entry] =
                      IF Heard(request[r].code) = "pending" THEN @ ELSE Heard(request[r].code)]
      /\ tab' = [tab EXCEPT ![t] = IF request[r].code = "later" THEN Quiet
                                   ELSE [@ EXCEPT !.awaits = Nil]]
      /\ UNCHANGED <<keyless, link, stored, status, told, desk, notes, losses>>
  BY <1>0 DEF Receive
<1>2. r \in Slot /\ request[r] # Nil
  BY <1>0, <1>1 DEF FieldTypeOK, PhoneInv, Flushing
<1>3. PICK e \in Entry : e = request[r].entry
  BY <1>2 DEF FieldTypeOK, Asking
<1>4. outbox[e] # "absent" /\ e \notin keyless
  BY <1>0, <1>1, <1>3 DEF PhoneInv, Flushing, Phoned
<1>5. PICK o \in {"pending", "failed", "deleted", outbox[e]} :
         /\ outbox' = [outbox EXCEPT ![e] = o] /\ o # "absent"
         /\ o = "deleted" => stored[e] > 0
  <2>1. outbox' = [outbox EXCEPT ![e] = IF Heard(request[r].code) = "pending" THEN outbox[e]
                                        ELSE Heard(request[r].code)]
    BY <1>1, <1>3
  <2>2. Heard(request[r].code) = "deleted" => stored[e] > 0
    BY <1>2, <1>3 DEF ServerInv, Earnest, Heard
  <2>3. outbox[e] = "deleted" => stored[e] > 0
    BY DEF PhoneInv, Phoned
  <2>4. Heard(request[r].code) \in {"pending", "failed", "deleted"}
    BY DEF Heard
  <2> QED BY <1>4, <2>1, <2>2, <2>3, <2>4
<1>6. PICK n \in [flushing : BOOLEAN, todo : SUBSET Entry, awaits : Slot \cup {Nil}] :
         tab' = [tab EXCEPT ![t] = n] /\ n.todo \subseteq tab[t].todo /\ n.awaits = Nil
  <2>1. PICK b \in [flushing : BOOLEAN, todo : SUBSET Entry, awaits : Slot \cup {Nil}] : b = tab[t]
    BY DEF FieldTypeOK
  <2>2. CASE request[r].code = "later"
    <3>1. /\ Quiet \in [flushing : BOOLEAN, todo : SUBSET Entry, awaits : Slot \cup {Nil}]
          /\ Quiet.todo = {} /\ Quiet.awaits = Nil
      BY DEF Quiet
    <3>2. tab' = [tab EXCEPT ![t] = Quiet]
      BY <1>1, <2>2
    <3> QED BY <3>1, <3>2
  <2>3. CASE request[r].code # "later"
    <3> DEFINE c == [b EXCEPT !.awaits = Nil]
    <3>1. tab' = [tab EXCEPT ![t] = c]
      BY <1>1, <2>1, <2>3
    <3>2. /\ c \in [flushing : BOOLEAN, todo : SUBSET Entry, awaits : Slot \cup {Nil}]
          /\ c.todo = b.todo /\ c.awaits = Nil
      BY <2>1, TabMoves
    <3> HIDE DEF c
    <3> QED BY <2>1, <3>1, <3>2
  <2> QED BY <2>2, <2>3
<1>7. FieldTypeOK'
  <2>1. outbox' \in [Entry -> {"absent", "pending", "failed", "deleted"}]
    BY <1>5 DEF FieldTypeOK
  <2>2. request' \in [Slot -> Asking \cup {Nil}]
    BY <1>1 DEF FieldTypeOK
  <2>3. tab' \in [Tab -> [flushing : BOOLEAN, todo : SUBSET Entry, awaits : Slot \cup {Nil}]]
    BY <1>6 DEF FieldTypeOK
  <2> QED BY <1>1, <2>1, <2>2, <2>3 DEF FieldTypeOK
<1>8. outbox'[e] = o /\ \A f \in Entry : f # e => outbox'[f] = outbox[f]
  BY <1>5 DEF FieldTypeOK
<1>9. \A f \in Entry : outbox[f] # "absent" => outbox'[f] # "absent"
  BY <1>5, <1>8
<1>10. tab'[t] = n /\ \A u \in Tab : u # t => tab'[u] = tab[u]
  BY <1>6 DEF FieldTypeOK
<1>11. PhoneInv'
  <2>1. ASSUME NEW f \in Entry PROVE Phoned(f)'
    BY <1>1, <1>4, <1>5, <1>8 DEF PhoneInv, Phoned
  <2>2. ASSUME NEW u \in Tab PROVE Flushing(u)'
    <3>1. \A f \in tab'[u].todo : outbox'[f] # "absent"
      <4>1. tab'[u].todo \subseteq tab[u].todo /\ tab[u].todo \subseteq Entry
        BY <1>6, <1>10 DEF FieldTypeOK
      <4> QED BY <1>9, <4>1 DEF PhoneInv, Flushing
    <3>2. CASE u = t
      BY <1>6, <1>10, <3>1, <3>2 DEF Flushing
    <3>3. CASE u # t
      <4>1. tab'[u] = tab[u] /\ Flushing(u) /\ Flushing(t) /\ tab[u].awaits # r
        BY <1>0, <1>1, <1>10, <3>3 DEF PhoneInv, Flushing
      <4>2. ASSUME tab[u].awaits # Nil
            PROVE  /\ request'[tab[u].awaits] = request[tab[u].awaits]
                   /\ request[tab[u].awaits] # Nil => request[tab[u].awaits].entry \in Entry
        BY <1>1, <1>2, <4>1, <4>2 DEF FieldTypeOK, Asking
      <4>3. \A v \in Tab : tab'[v].awaits # Nil => tab'[v].awaits = tab[v].awaits
        BY <1>6, <1>10
      <4> QED BY <1>9, <3>1, <4>1, <4>2, <4>3 DEF Flushing
    <3> QED BY <3>2, <3>3
  <2> QED BY <2>1, <2>2 DEF PhoneInv
<1>12. ServerInv'
  BY <1>1, <1>2, <1>9, ServerLess
<1> QED BY <1>1, <1>7, <1>11, <1>12, RowSame, DeskSame

LEMMA LoseKeeps == ASSUME FieldInv, NEW t \in Tab, Lose(t) PROVE FieldInv'
<1> USE DEF FieldInv
<1>0. PICK r : r = tab[t].awaits
  OBVIOUS
<1>1. /\ r # Nil /\ tab' = [tab EXCEPT ![t] = Quiet] /\ losses' = losses + 1 /\ losses < MaxLoss
      /\ UNCHANGED request \/ request' = [request EXCEPT ![r] = Nil]
      /\ UNCHANGED <<outbox, keyless, link, stored, status, told, desk, notes>>
  BY <1>0 DEF Lose
<1>2. r \in Slot
  BY <1>0, <1>1 DEF FieldTypeOK
<1>3. /\ Quiet.todo = {} /\ Quiet.awaits = Nil
      /\ Quiet \in [flushing : BOOLEAN, todo : SUBSET Entry, awaits : Slot \cup {Nil}]
  BY DEF Quiet
<1>4. FieldTypeOK'
  <2>1. losses' \in 0..MaxLoss
    BY <1>1, FieldAssumption DEF FieldTypeOK
  <2>2. request' \in [Slot -> Asking \cup {Nil}]
    BY <1>1 DEF FieldTypeOK
  <2> QED BY <1>1, <1>3, <2>1, <2>2 DEF FieldTypeOK
<1>5. tab'[t] = Quiet /\ \A u \in Tab : u # t => tab'[u] = tab[u]
  BY <1>1 DEF FieldTypeOK
<1>6. \A s \in Slot : s # r => request'[s] = request[s]
  BY <1>1 DEF FieldTypeOK
<1>7. PhoneInv'
  <2>1. \A f \in Entry : Phoned(f)'
    BY <1>1 DEF PhoneInv, Phoned
  <2>2. ASSUME NEW u \in Tab PROVE Flushing(u)'
    <3>1. CASE u = t
      BY <1>3, <1>5, <3>1 DEF Flushing
    <3>2. CASE u # t
      <4>1. tab'[u] = tab[u] /\ Flushing(u) /\ Flushing(t) /\ tab[u].awaits # r
        BY <1>0, <1>1, <1>5, <3>2 DEF PhoneInv, Flushing
      <4>2. tab[u].awaits # Nil => request'[tab[u].awaits] = request[tab[u].awaits]
        BY <1>6, <4>1 DEF FieldTypeOK
      <4>3. \A v \in Tab : tab'[v].awaits # Nil => tab'[v].awaits = tab[v].awaits
        BY <1>3, <1>5
      <4> QED BY <1>1, <4>1, <4>2, <4>3 DEF Flushing
    <3> QED BY <3>1, <3>2
  <2> QED BY <2>1, <2>2 DEF PhoneInv
<1>8. ServerInv'
  <2>1. CASE UNCHANGED request
    BY <1>1, <2>1 DEF ServerInv, Earnest, Alone
  <2>2. CASE request' = [request EXCEPT ![r] = Nil]
    BY <1>1, <1>2, <2>2, ServerLess
  <2> QED BY <1>1, <2>1, <2>2
<1> QED BY <1>1, <1>4, <1>7, <1>8, RowSame, DeskSame

--------------------------------------------------------------------------------
(* The server.                                                              *)

\* A request that goes on to q, about the same entry, leaves the phone as it is.
LEMMA PhoneKeeps ==
    ASSUME FieldTypeOK, PhoneInv, ServerInv, NEW r \in Slot, request[r] # Nil, NEW q \in Asking,
           q.entry = request[r].entry, request' = [request EXCEPT ![r] = q],
           UNCHANGED <<outbox, keyless, tab>>,
           \A e \in Entry : /\ stored[e] > 0 => stored'[e] > 0
                            /\ e # q.entry => stored'[e] = stored[e]
    PROVE  PhoneInv'
<1>1. /\ request'[r] = q /\ q # Nil
      /\ \A s \in Slot : s # r => request'[s] = request[s]
  BY NilIsNoRequest DEF FieldTypeOK
<1>2. q.entry \in Entry /\ (q.entry \in keyless \/ outbox[q.entry] # "absent")
  BY DEF ServerInv, Earnest, Asking
<1>3. ASSUME NEW e \in Entry PROVE Phoned(e)'
  BY <1>2 DEF PhoneInv, Phoned
<1>4. ASSUME NEW t \in Tab PROVE Flushing(t)'
  <2>1. Flushing(t) /\ (tab[t].awaits # Nil => tab[t].awaits \in Slot)
    BY DEF PhoneInv, FieldTypeOK
  <2> QED BY <1>1, <2>1 DEF Flushing
<1> QED BY <1>3, <1>4 DEF PhoneInv

\* A request moves without a row: what it now claims was so before.
LEMMA RequestKeeps ==
    ASSUME FieldTypeOK, ServerInv, NEW r \in Slot, request[r] # Nil, NEW q \in Asking,
           q.entry = request[r].entry, request' = [request EXCEPT ![r] = q],
           UNCHANGED <<outbox, keyless, stored, told>>,
           q.at # "notify", q.code = "ok" => stored[q.entry] > 0,
           q.at \in {"verify", "insert"} => request[r].at \in {"verify", "insert"} /\ q.code = "none"
    PROVE  ServerInv'
<1>1. /\ request'[r] = q /\ \A s \in Slot : s # r => request'[s] = request[s]
  BY DEF FieldTypeOK
<1>2. ASSUME NEW s \in Slot PROVE Earnest(s)'
  BY <1>1 DEF ServerInv, Earnest
<1>3. ASSUME NEW s \in Slot, NEW u \in Slot PROVE Alone(s, u)'
  BY <1>1 DEF ServerInv, Alone
<1> QED BY <1>2, <1>3 DEF ServerInv

LEMMA RequestTyped ==
    ASSUME FieldTypeOK, NEW r \in Slot, NEW q \in Asking, request' = [request EXCEPT ![r] = q]
    PROVE  request' \in [Slot -> Asking \cup {Nil}]
BY DEF FieldTypeOK

LEMMA VerifyKeeps == ASSUME FieldInv, NEW r \in Slot, Verify(r) PROVE FieldInv'
<1> USE DEF FieldInv
<1>1. PICK p \in Asking : p = request[r] /\ p.at = "verify" /\ p.code = "none"
  BY DEF FieldTypeOK, Verify, ServerInv, Earnest
<1>2. UNCHANGED <<outbox, keyless, tab, link, stored, status, told, desk, notes, losses>>
  BY DEF Verify
<1>3. PICK q \in Asking : /\ request' = [request EXCEPT ![r] = q] /\ q.entry = p.entry
                          /\ \/ q.at = "insert" /\ q.code = "none"
                             \/ q.at = "answer" /\ q.code = "refused"
  <2>1. CASE link = "open"
    <3>1. request' = [request EXCEPT ![r] = [p EXCEPT !.at = "insert"]]
      BY <1>1, <2>1 DEF Verify
    <3>2. PICK q \in Asking : /\ q = [p EXCEPT !.at = "insert"]
                              /\ q.entry = p.entry /\ q.at = "insert" /\ q.code = p.code
      BY MovesIn
    <3>3. request' = [request EXCEPT ![r] = q]
      BY <3>1, <3>2
    <3> QED BY <1>1, <3>2, <3>3
  <2>2. CASE link # "open"
    <3>1. request' = [request EXCEPT ![r] = [p EXCEPT !.at = "answer", !.code = "refused"]]
      BY <1>1, <2>2 DEF Verify
    <3>2. PICK q \in Asking : /\ q = [p EXCEPT !.at = "answer", !.code = "refused"]
                              /\ q.entry = p.entry /\ q.at = "answer" /\ q.code = "refused"
      BY Moves
    <3>3. request' = [request EXCEPT ![r] = q]
      BY <3>1, <3>2
    <3> QED BY <3>2, <3>3
  <2> QED BY <2>1, <2>2
<1>4. request[r] # Nil
  BY DEF Verify
<1>5. PhoneInv'
  BY <1>1, <1>2, <1>3, <1>4, PhoneKeeps
<1>6. ServerInv'
  BY <1>1, <1>2, <1>3, <1>4, RequestKeeps
<1>7. FieldTypeOK'
  BY <1>2, <1>3, RequestTyped DEF FieldTypeOK
<1> QED BY <1>2, <1>5, <1>6, <1>7, RowSame, DeskSame

LEMMA FailKeeps == ASSUME FieldInv, NEW r \in Slot, Fail(r) PROVE FieldInv'
<1> USE DEF FieldInv
<1>1. PICK p \in Asking : p = request[r]
  BY DEF FieldTypeOK, Fail
<1>2. /\ UNCHANGED <<outbox, keyless, tab, link, stored, status, told, desk, notes>>
      /\ request' = [request EXCEPT ![r] = [p EXCEPT !.at = "answer", !.code = "later"]]
      /\ losses < MaxLoss /\ losses' = losses + 1 /\ request[r] # Nil
  BY <1>1 DEF Fail
<1>3. PICK q \in Asking : /\ request' = [request EXCEPT ![r] = q] /\ q.entry = p.entry
                          /\ q.at = "answer" /\ q.code = "later"
  <2>1. PICK q \in Asking : /\ q = [p EXCEPT !.at = "answer", !.code = "later"]
                            /\ q.entry = p.entry /\ q.at = "answer" /\ q.code = "later"
    BY Moves
  <2>2. request' = [request EXCEPT ![r] = q]
    BY <1>2, <2>1
  <2> QED BY <2>1, <2>2
<1>4. PhoneInv'
  BY <1>1, <1>2, <1>3, PhoneKeeps
<1>5. ServerInv'
  BY <1>1, <1>2, <1>3, RequestKeeps
<1>6. FieldTypeOK'
  <2>1. losses' \in 0..MaxLoss
    BY <1>2, FieldAssumption DEF FieldTypeOK
  <2> QED BY <1>2, <1>3, <2>1, RequestTyped DEF FieldTypeOK
<1> QED BY <1>2, <1>4, <1>5, <1>6, RowSame, DeskSame


LEMMA VanishKeeps == ASSUME FieldInv, NEW r \in Slot, Vanish(r) PROVE FieldInv'
<1> USE DEF FieldInv
<1>1. /\ request' = [request EXCEPT ![r] = Nil] /\ \A t \in Tab : tab[t].awaits # r
      /\ UNCHANGED <<outbox, keyless, tab, link, stored, status, told, desk, notes, losses>>
  BY DEF Vanish, Listening
<1>2. FieldTypeOK'
  BY <1>1 DEF FieldTypeOK
<1>3. \A s \in Slot : s # r => request'[s] = request[s]
  BY <1>1 DEF FieldTypeOK
<1>4. PhoneInv'
  <2>1. \A f \in Entry : Phoned(f)'
    BY <1>1 DEF PhoneInv, Phoned
  <2>2. ASSUME NEW t \in Tab PROVE Flushing(t)'
    <3>1. Flushing(t) /\ (tab[t].awaits # Nil => tab[t].awaits \in Slot)
      BY DEF PhoneInv, FieldTypeOK
    <3> QED BY <1>1, <1>3, <3>1 DEF Flushing
  <2> QED BY <2>1, <2>2 DEF PhoneInv
<1>5. ServerInv'
  BY <1>1, ServerLess
<1> QED BY <1>1, <1>2, <1>4, <1>5, RowSame, DeskSame

\* Only the first insert of an entry adds a row, and its request is then the one that
\* tells: nobody else has passed the insert before it.
LEMMA InsertKeeps == ASSUME FieldInv, NEW r \in Slot, Insert(r) PROVE FieldInv'
<1> USE DEF FieldInv
<1>1. PICK p \in Asking : p = request[r] /\ p.at = "insert" /\ p.code = "none"
  BY DEF FieldTypeOK, Insert, ServerInv, Earnest
<1>2. PICK e \in Entry : e = p.entry
  BY DEF Asking
<1>3. PICK d \in BOOLEAN : d = ~IsNew(e)
  BY DEF IsNew
<1>4. /\ stored' = [stored EXCEPT ![e] = IF d THEN @ ELSE @ + 1]
      /\ status' = [status EXCEPT ![e] = IF d THEN @ ELSE
                      IF e \in ChangeOrder THEN "submitted" ELSE "approved"]
      /\ UNCHANGED <<outbox, keyless, tab, link, told, desk, notes, losses>>
      /\ request' = [request EXCEPT ![r].at = "notify", ![r].deduped = d]
      /\ request[r] # Nil
  BY <1>1, <1>2, <1>3 DEF Insert
<1>5. PICK q \in Asking : /\ request' = [request EXCEPT ![r] = q] /\ q.entry = e
                          /\ q.at = "notify" /\ q.code = "none" /\ q.deduped = d
  <2> DEFINE q == [p EXCEPT !.at = "notify", !.deduped = d]
  <2>1. q \in Asking /\ q.entry = p.entry /\ q.at = "notify" /\ q.code = p.code /\ q.deduped = d
    BY Marks
  <2>2. request' = [request EXCEPT ![r] = q]
    BY <1>1, <1>4
  <2> HIDE DEF q
  <2> QED BY <1>1, <1>2, <2>1, <2>2
<1>6. /\ request'[r] = q /\ \A s \in Slot : s # r => request'[s] = request[s]
  BY <1>5 DEF FieldTypeOK
<1>0. UNCHANGED <<outbox, keyless, tab, link, told, desk, notes, losses>> /\ request[r] # Nil
  BY <1>4
<1>7. ~d => stored[e] = 0 /\ status[e] = "none" /\ told[e] = 0
  <2>1. ~d => stored[e] = 0
    BY <1>1, <1>2, <1>3, <1>4 DEF IsNew, ServerInv, Earnest
  <2> QED BY <2>1 DEF RowInv, Single, FieldTypeOK
<1>8. d => stored[e] > 0 /\ e \notin keyless
  <2>1. stored[e] \in Nat
    BY DEF FieldTypeOK
  <2>2. d => stored[e] # 0 /\ e \notin keyless
    BY <1>3 DEF IsNew
  <2> QED BY <2>1, <2>2
<1>9. /\ stored[e] \in Nat /\ stored'[e] > 0 /\ (d => stored'[e] = stored[e])
      /\ (~d => stored'[e] = 1)
      /\ \A f \in Entry : f # e => stored'[f] = stored[f] /\ status'[f] = status[f]
      /\ d => status'[e] = status[e]
  BY <1>4, <1>7, <1>8 DEF FieldTypeOK
<1>10. FieldTypeOK'
  <2>1. stored' \in [Entry -> Nat]
    BY <1>4 DEF FieldTypeOK
  <2>2. status' \in [Entry -> {"none", "submitted"} \cup Decision]
    BY <1>4 DEF FieldTypeOK, Decision
  <2> QED BY <1>4, <1>5, <2>1, <2>2, RequestTyped DEF FieldTypeOK
<1>11. PhoneInv'
  <2>1. \A f \in Entry : /\ stored[f] > 0 => stored'[f] > 0
                         /\ f # q.entry => stored'[f] = stored[f]
    BY <1>5, <1>9
  <2> QED BY <1>1, <1>2, <1>0, <1>5, <2>1, PhoneKeeps
<1>12. ServerInv'
  <2>1. ASSUME NEW s \in Slot PROVE Earnest(s)'
    <3>1. CASE s = r
      BY <1>1, <1>2, <1>0, <1>5, <1>6, <1>7, <1>9, <3>1 DEF ServerInv, Earnest
    <3>2. CASE s # r
      <4>1. Earnest(s) /\ request'[s] = request[s] /\ Alone(r, s)
        BY <1>6, <3>2 DEF ServerInv
      <4>2. request[s] # Nil => request[s].entry \in Entry
        BY DEF FieldTypeOK, Asking
      <4>3. request[s] # Nil /\ request[s].entry = e => e \notin keyless
        BY <1>1, <1>2, <1>0, <3>2, <4>1 DEF Alone
      <4>4. CASE request[s] # Nil /\ request[s].entry = e
        BY <1>0, <1>9, <4>1, <4>3, <4>4 DEF Earnest
      <4>5. CASE request[s] # Nil /\ request[s].entry # e
        <5>1. stored'[request[s].entry] = stored[request[s].entry]
          BY <1>9, <4>2, <4>5
        <5> QED BY <1>0, <4>1, <5>1 DEF Earnest
      <4>6. CASE request[s] = Nil
        BY <4>1, <4>6 DEF Earnest
      <4> QED BY <4>4, <4>5, <4>6
    <3> QED BY <3>1, <3>2
  <2>2. ASSUME NEW s \in Slot, request[s] # Nil, request[s].entry = e, request[s].at = "notify", ~d
        PROVE  FALSE
    <3>1. stored[e] > 0
      BY <2>2 DEF ServerInv, Earnest
    <3> QED BY <1>7, <2>2, <3>1
  <2>3. ASSUME NEW s \in Slot, s # r PROVE Alone(r, s)' /\ Alone(s, r)'
    <3>1. request'[s] = request[s] /\ request'[r] = q
      BY <1>6, <2>3
    <3>2. request[s] # Nil /\ request[s].entry = e => e \notin keyless
      BY <1>1, <1>2, <1>0, <2>3 DEF ServerInv, Alone
    <3>3. request[s] # Nil /\ request[s].entry = e /\ request[s].at = "notify" => d
      BY <2>2
    <3> QED BY <1>0, <1>5, <3>1, <3>2, <3>3 DEF Alone
  <2>4. ASSUME NEW s \in Slot, NEW u \in Slot PROVE Alone(s, u)'
    <3>1. CASE s # r /\ u # r
      <4>1. Alone(s, u) /\ request'[s] = request[s] /\ request'[u] = request[u]
        BY <1>6, <3>1 DEF ServerInv
      <4> QED BY <1>0, <4>1 DEF Alone
    <3>2. CASE u = s
      BY <3>2 DEF Alone
    <3> QED BY <2>3, <3>1, <3>2
  <2> QED BY <2>1, <2>4 DEF ServerInv
<1>13. RowInv'
  <2>1. ASSUME NEW f \in Entry PROVE Single(f)'
    <3>1. CASE f = e
      BY <1>0, <1>7, <1>9, <3>1 DEF RowInv, Single, FieldTypeOK
    <3>2. CASE f # e
      BY <1>0, <1>9, <3>2 DEF RowInv, Single
    <3> QED BY <3>1, <3>2
  <2> QED BY <2>1 DEF RowInv
<1>14. DeskInv'
  <2>1. ~d => notes[e] = <<>> /\ \A c \in Desk : ~(desk[c].pc = "note" /\ desk[c].entry = e)
    <3>1. ASSUME ~d PROVE notes[e] = <<>>
      BY <1>7, <3>1 DEF DeskInv, Settled, Decision
    <3>2. ASSUME ~d, NEW c \in Desk, desk[c].pc = "note", desk[c].entry = e PROVE FALSE
      <4>1. status[e] = desk[c].verdict /\ desk[c].verdict \in Decision
        BY <3>2 DEF DeskInv, Noting, FieldTypeOK
      <4> QED BY <1>7, <3>2, <4>1 DEF Decision
    <3> QED BY <3>1, <3>2
  <2>2. ASSUME NEW c \in Desk PROVE Noting(c)' /\ Deciding(c)'
    BY <1>0, <1>9, <2>1 DEF DeskInv, Noting, Deciding
  <2>3. ASSUME NEW f \in Entry PROVE Settled(f)'
    BY <1>0, <1>9, <2>1 DEF DeskInv, Settled
  <2> QED BY <2>2, <2>3 DEF DeskInv
<1> QED BY <1>10, <1>11, <1>12, <1>13, <1>14

\* The owner is told by the request that stored the row.
LEMMA NotifyKeeps == ASSUME FieldInv, NEW r \in Slot, Notify(r) PROVE FieldInv'
<1> USE DEF FieldInv
<1>1. PICK p \in Asking : p = request[r] /\ p.at = "notify"
  BY DEF FieldTypeOK, Notify
<1>2. PICK e \in Entry : e = p.entry
  BY DEF Asking
<1>3. /\ told' = [told EXCEPT ![e] = IF Tells(p) THEN @ + 1 ELSE @]
      /\ request' = [request EXCEPT ![r] = [p EXCEPT !.at = "answer", !.code = "ok"]]
      /\ UNCHANGED <<outbox, keyless, tab, link, stored, status, desk, notes, losses>>
      /\ request[r] # Nil
  BY <1>1, <1>2 DEF Notify
<1>4. PICK q \in Asking : /\ request' = [request EXCEPT ![r] = q] /\ q.entry = e
                          /\ q.at = "answer" /\ q.code = "ok"
  <2>1. PICK q \in Asking : /\ q = [p EXCEPT !.at = "answer", !.code = "ok"]
                            /\ q.entry = p.entry /\ q.at = "answer" /\ q.code = "ok"
    BY Moves
  <2>2. request' = [request EXCEPT ![r] = q]
    BY <1>3, <2>1
  <2> QED BY <1>2, <2>1, <2>2
<1>5. /\ request'[r] = q /\ \A s \in Slot : s # r => request'[s] = request[s]
  BY <1>4 DEF FieldTypeOK
<1>0. UNCHANGED <<outbox, keyless, tab, link, stored, status, desk, notes, losses>> /\ request[r] # Nil
  BY <1>3
<1>6. stored[e] > 0 /\ (~p.deduped => told[e] = 0)
  BY <1>1, <1>2, <1>3 DEF ServerInv, Earnest
<1>7. /\ told[e] \in Nat /\ \A f \in Entry : f # e => told'[f] = told[f]
      /\ told'[e] = IF Tells(p) THEN told[e] + 1 ELSE told[e]
  BY <1>3 DEF FieldTypeOK
<1>8. FieldTypeOK'
  <2>1. told' \in [Entry -> Nat]
    BY <1>3 DEF FieldTypeOK
  <2> QED BY <1>3, <1>4, <2>1, RequestTyped DEF FieldTypeOK
<1>9. PhoneInv'
  BY <1>1, <1>2, <1>0, <1>4, PhoneKeeps
<1>10. ServerInv'
  <2>1. ASSUME NEW s \in Slot PROVE Earnest(s)'
    <3>1. CASE s = r
      BY <1>1, <1>2, <1>0, <1>4, <1>5, <1>6, <3>1 DEF ServerInv, Earnest
    <3>2. CASE s # r
      <4>1. Earnest(s) /\ request'[s] = request[s] /\ Alone(r, s)
        BY <1>5, <3>2 DEF ServerInv
      <4>2. request[s] # Nil => request[s].entry \in Entry
        BY DEF FieldTypeOK, Asking
      <4>3. request[s] # Nil /\ request[s].entry = e /\ request[s].at = "notify" /\ ~request[s].deduped
              => ~Tells(p)
        BY <1>1, <1>2, <1>0, <3>2, <4>1 DEF Alone, Tells
      <4>4. CASE request[s] # Nil /\ request[s].entry = e
        BY <1>0, <1>7, <4>1, <4>3, <4>4 DEF Earnest
      <4>5. CASE request[s] # Nil /\ request[s].entry # e
        <5>1. told'[request[s].entry] = told[request[s].entry]
          BY <1>7, <4>2, <4>5
        <5> QED BY <1>0, <4>1, <5>1 DEF Earnest
      <4>6. CASE request[s] = Nil
        BY <4>1, <4>6 DEF Earnest
      <4> QED BY <4>4, <4>5, <4>6
    <3> QED BY <3>1, <3>2
  <2>2. ASSUME NEW s \in Slot, NEW u \in Slot PROVE Alone(s, u)'
    BY <1>1, <1>2, <1>0, <1>4, <1>5 DEF ServerInv, Alone
  <2> QED BY <2>1, <2>2 DEF ServerInv
<1>11. RowInv'
  <2>1. ASSUME NEW f \in Entry PROVE Single(f)'
    <3>1. Single(f) /\ stored[f] \in Nat /\ UNCHANGED <<stored, status>>
      BY <1>0 DEF RowInv, FieldTypeOK
    <3>2. f = e => told'[f] <= stored[f]
      BY <1>6, <1>7, <3>1 DEF Single, Tells
    <3>3. f # e => told'[f] = told[f]
      BY <1>7
    <3> QED BY <3>1, <3>2, <3>3 DEF Single
  <2> QED BY <2>1 DEF RowInv
<1> QED BY <1>0, <1>8, <1>9, <1>10, <1>11, DeskSame


LEMMA RevokeKeeps == ASSUME FieldInv, Revoke PROVE FieldInv'
<1> USE DEF FieldInv
<1>1. link' = "gone" /\ UNCHANGED <<outbox, keyless, tab, request, stored, status, told, desk, notes, losses>>
  BY DEF Revoke
<1>2. FieldTypeOK'
  BY <1>1 DEF FieldTypeOK
<1>3. PhoneInv'
  BY <1>1 DEF PhoneInv, Phoned, Flushing
<1>4. ServerInv'
  BY <1>1 DEF ServerInv, Earnest, Alone
<1> QED BY <1>1, <1>2, <1>3, <1>4, RowSame, DeskSame

--------------------------------------------------------------------------------
(* The desk.                                                                *)

\* A step of the desk leaves the phone and the server as they are.
LEMMA DeskOnly ==
    ASSUME PhoneInv, ServerInv, UNCHANGED <<outbox, keyless, tab, request, stored, told>>
    PROVE  PhoneInv' /\ ServerInv'
<1>1. PhoneInv'
  BY DEF PhoneInv, Phoned, Flushing
<1>2. ServerInv'
  BY DEF ServerInv, Earnest, Alone
<1> QED BY <1>1, <1>2

Desks == [pc : {"idle", "update", "note"}, entry : Entry \cup {Nil}, verdict : Decision]

LEMMA PickKeeps == ASSUME FieldInv, NEW d \in Desk, NEW e \in Entry, Pick(d, e) PROVE FieldInv'
<1> USE DEF FieldInv
<1> DEFINE n == [IdleDesk EXCEPT !.pc = "update", !.entry = e]
<1>1. /\ desk' = [desk EXCEPT ![d] = n] /\ e \in Entry
      /\ UNCHANGED <<outbox, keyless, tab, request, link, stored, status, told, notes, losses>>
  BY DEF Pick
<1>2. n \in Desks /\ n.pc = "update" /\ n.entry = e
  BY DEF IdleDesk, Decision, Desks
<1> HIDE DEF n
<1>3. FieldTypeOK'
  BY <1>1, <1>2 DEF FieldTypeOK, Desks
<1>4. desk'[d] = n /\ \A c \in Desk : c # d => desk'[c] = desk[c]
  BY <1>1 DEF FieldTypeOK
<1>5. DeskInv'
  <2>1. ASSUME NEW c \in Desk PROVE Noting(c)' /\ Deciding(c)'
    BY <1>1, <1>2, <1>4 DEF DeskInv, Noting, Deciding
  <2>2. \A f \in Entry : Settled(f)'
    BY <1>1 DEF DeskInv, Settled
  <2> QED BY <2>1, <2>2 DEF DeskInv
<1> QED BY <1>1, <1>3, <1>5, RowSame, DeskOnly

\* The update takes a submitted row only, on which nobody is about to write a note.
LEMMA OrderKeeps == ASSUME FieldInv, NEW d \in Desk, DecideOrder(d) PROVE FieldInv'
<1> USE DEF FieldInv
<1>1. PICK b \in Desks : b = desk[d] /\ b.pc = "update"
  BY DEF FieldTypeOK, DecideOrder, Desks
<1>2. PICK e \in Entry : e = b.entry
  BY <1>1 DEF DeskInv, Deciding
<1>3. UNCHANGED <<outbox, keyless, tab, request, link, stored, told, notes, losses>>
  BY DEF DecideOrder
<1>4. PhoneInv' /\ ServerInv'
  BY <1>3, DeskOnly
<1>5. CASE ~Undecided(e)
  <2>1. desk' = [desk EXCEPT ![d] = IdleDesk] /\ UNCHANGED status
    BY <1>1, <1>2, <1>5 DEF DecideOrder
  <2>2. IdleDesk \in Desks /\ IdleDesk.pc = "idle"
    BY DEF IdleDesk, Desks, Decision
  <2>3. FieldTypeOK'
    BY <1>3, <2>1, <2>2 DEF FieldTypeOK, Desks
  <2>4. desk'[d] = IdleDesk /\ \A c \in Desk : c # d => desk'[c] = desk[c]
    BY <2>1 DEF FieldTypeOK
  <2>5. DeskInv'
    <3>1. ASSUME NEW c \in Desk PROVE Noting(c)' /\ Deciding(c)'
      BY <1>3, <2>1, <2>2, <2>4 DEF DeskInv, Noting, Deciding
    <3>2. \A f \in Entry : Settled(f)'
      BY <1>3, <2>1 DEF DeskInv, Settled
    <3> QED BY <3>1, <3>2 DEF DeskInv
  <2> QED BY <1>3, <1>4, <2>1, <2>3, <2>5, RowSame
<1>6. CASE Undecided(e)
  <2>1. PICK v \in Decision : /\ status' = [status EXCEPT ![e] = v]
                              /\ desk' = [desk EXCEPT ![d].pc = "note", ![d].verdict = v]
    BY <1>1, <1>2, <1>6 DEF DecideOrder
  <2>2. PICK n \in Desks : /\ desk' = [desk EXCEPT ![d] = n]
                          /\ n.pc = "note" /\ n.entry = e /\ n.verdict = v
    <3> DEFINE n == [b EXCEPT !.pc = "note", !.verdict = v]
    <3>1. n \in Desks /\ n.pc = "note" /\ n.entry = b.entry /\ n.verdict = v
      BY DEF Desks
    <3>2. desk' = [desk EXCEPT ![d] = n]
      BY <1>1, <2>1
    <3> HIDE DEF n
    <3> QED BY <1>2, <3>1, <3>2
  <2>3. FieldTypeOK'
    <3>1. status' \in [Entry -> {"none", "submitted"} \cup Decision]
      BY <2>1 DEF FieldTypeOK
    <3> QED BY <1>3, <2>2, <3>1 DEF FieldTypeOK, Desks
  <2>4. /\ desk'[d] = n /\ \A c \in Desk : c # d => desk'[c] = desk[c]
        /\ status'[e] = v /\ \A f \in Entry : f # e => status'[f] = status[f]
    BY <2>1, <2>2 DEF FieldTypeOK
  <2>5. status[e] = "submitted"
    BY <1>6 DEF Undecided
  <2>6. notes[e] = <<>>
    BY <2>5 DEF DeskInv, Settled, Decision
  <2>7. \A c \in Desk : ~(desk[c].pc = "note" /\ desk[c].entry = e)
    <3>1. ASSUME NEW c \in Desk, desk[c].pc = "note", desk[c].entry = e PROVE FALSE
      <4>1. status[e] = desk[c].verdict /\ desk[c].verdict \in Decision
        BY <3>1 DEF DeskInv, Noting, FieldTypeOK
      <4> QED BY <2>5, <4>1 DEF Decision
    <3> QED BY <3>1
  <2>8. DeskInv'
    <3>1. ASSUME NEW c \in Desk PROVE Noting(c)' /\ Deciding(c)'
      <4>1. CASE c = d
        BY <1>3, <2>2, <2>4, <2>6, <2>7, <4>1 DEF Noting, Deciding
      <4>2. CASE c # d
        BY <1>3, <2>2, <2>4, <2>7, <4>2 DEF DeskInv, Noting, Deciding
      <4> QED BY <4>1, <4>2
    <3>2. ASSUME NEW f \in Entry PROVE Settled(f)'
      BY <1>3, <2>4, <2>6 DEF DeskInv, Settled
    <3> QED BY <3>1, <3>2 DEF DeskInv
  <2>9. RowInv'
    <3>1. stored[e] # 0
      BY <2>5 DEF RowInv, Single
    <3>2. ASSUME NEW f \in Entry PROVE Single(f)'
      BY <1>3, <2>4, <3>1 DEF RowInv, Single
    <3> QED BY <3>2 DEF RowInv
  <2> QED BY <1>4, <2>3, <2>8, <2>9
<1> QED BY <1>5, <1>6

LEMMA NoteKeeps == ASSUME FieldInv, NEW d \in Desk, Note(d) PROVE FieldInv'
<1> USE DEF FieldInv
<1>1. PICK b \in Desks : b = desk[d] /\ b.pc = "note"
  BY DEF FieldTypeOK, Note, Desks
<1>2. PICK e \in Entry : e = b.entry
  BY <1>1 DEF DeskInv, Noting
<1>3. /\ notes' = [notes EXCEPT ![e] = Append(@, b.verdict)] /\ desk' = [desk EXCEPT ![d] = IdleDesk]
      /\ UNCHANGED <<outbox, keyless, tab, request, link, stored, status, told, losses>>
  BY <1>1, <1>2 DEF Note
<1>4. notes[e] = <<>> /\ status[e] = b.verdict /\ b.verdict \in Decision
  BY <1>1, <1>2 DEF DeskInv, Noting, Desks
<1>5. notes' = [notes EXCEPT ![e] = <<b.verdict>>] /\ <<b.verdict>> \in Seq(Decision)
  BY <1>3, <1>4
<1>6. IdleDesk \in Desks /\ IdleDesk.pc = "idle"
  BY DEF IdleDesk, Desks, Decision
<1>7. FieldTypeOK'
  BY <1>3, <1>5, <1>6 DEF FieldTypeOK, Desks
<1>8. /\ desk'[d] = IdleDesk /\ \A c \in Desk : c # d => desk'[c] = desk[c]
      /\ notes'[e] = <<b.verdict>> /\ \A f \in Entry : f # e => notes'[f] = notes[f]
  BY <1>3, <1>5 DEF FieldTypeOK
<1>9. \A c \in Desk : c # d => ~(desk[c].pc = "note" /\ desk[c].entry = e)
  BY <1>1, <1>2 DEF DeskInv, Noting
<1>10. DeskInv'
  <2>1. ASSUME NEW c \in Desk PROVE Noting(c)' /\ Deciding(c)'
    <3>1. CASE c = d
      BY <1>6, <1>8, <3>1 DEF Noting, Deciding
    <3>2. CASE c # d
      BY <1>3, <1>6, <1>8, <1>9, <3>2 DEF DeskInv, Noting, Deciding
    <3> QED BY <3>1, <3>2
  <2>2. ASSUME NEW f \in Entry PROVE Settled(f)'
    BY <1>3, <1>4, <1>8 DEF DeskInv, Settled
  <2> QED BY <2>1, <2>2 DEF DeskInv
<1> QED BY <1>3, <1>7, <1>10, RowSame, DeskOnly

LEMMA FieldInvStep == FieldInv /\ [FieldNext]_fieldVars => FieldInv'
<1> SUFFICES ASSUME FieldInv, [FieldNext]_fieldVars PROVE FieldInv'
  OBVIOUS
<1>1. CASE UNCHANGED fieldVars
  <2>1. FieldTypeOK'
    BY <1>1 DEF FieldInv, fieldVars, FieldTypeOK
  <2> QED BY <1>1, <2>1, RowSame, DeskSame, DeskOnly DEF FieldInv, fieldVars
<1>2. CASE \E e \in Entry : SubmitForm(e) \/ Queue(e)
  BY <1>2, SubmitKeeps, QueueKeeps
<1>3. CASE \E t \in Tab : Phone(t) \/ Lose(t)
  BY <1>3, FlushKeeps, SendKeeps, FlushEndsKeeps, ReceiveKeeps, LoseKeeps DEF Phone
<1>4. CASE \E r \in Slot : Server(r) \/ Fail(r)
  BY <1>4, VerifyKeeps, InsertKeeps, NotifyKeeps, VanishKeeps, FailKeeps DEF Server
<1>5. CASE Revoke
  BY <1>5, RevokeKeeps
<1>6. CASE \E d \in Desk : DecideOrder(d) \/ Note(d) \/ \E e \in Entry : Pick(d, e)
  BY <1>6, OrderKeeps, NoteKeeps, PickKeeps
<1> QED BY <1>1, <1>2, <1>3, <1>4, <1>5, <1>6 DEF FieldNext

--------------------------------------------------------------------------------
(* The theorems.                                                            *)

\* The inductive invariant: where each word is between the phone and the row, who will
\* tell the owner, and who will write the note.
THEOREM FieldInvariant == FieldSpec => []FieldInv
BY FieldInvInit, FieldInvStep, PTL DEF FieldSpec

\* What a crew typed survives the losses, the repetitions and the second tab, is one
\* row and one mail, and is decided once (field.ts, offline-client.tsx).
THEOREM WordsSurvive == FieldSpec => []CrewWordsSurvive
<1>1. FieldInv => CrewWordsSurvive
  <2> SUFFICES ASSUME FieldInv PROVE CrewWordsSurvive
    OBVIOUS
  <2> USE DEF FieldInv
  <2>1. NothingLost
    BY DEF NothingLost, PhoneInv, Phoned
  <2>2. OneRowOneMail
    <3>1. ASSUME NEW e \in Entry PROVE stored[e] <= 1 /\ told[e] <= 1
      <4>1. stored[e] \in Nat /\ told[e] \in Nat /\ Single(e)
        BY DEF FieldTypeOK, RowInv
      <4> QED BY <4>1 DEF Single
    <3> QED BY <3>1 DEF OneRowOneMail
  <2>3. DecidedOnce
    BY DEF DecidedOnce, DeskInv, Settled
  <2> QED BY <2>1, <2>2, <2>3 DEF CrewWordsSurvive
<1> QED BY <1>1, FieldInvariant, PTL

================================================================================
