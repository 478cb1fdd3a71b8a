-------------------------------- MODULE Pursuit --------------------------------
(***************************************************************************)
(* The pursuit of one opportunity by one account (intelligence/pursuit.ts):  *)
(* opened from the app (api/app/pursuits) or by a one-tap link (api/action), *)
(* moved along the pipeline by transitionPursuit.  A transition reads the    *)
(* row, validates, writes the audit row, then the row and, for an outcome,   *)
(* a label; nothing holds the row in between, so that two requests may work  *)
(* from the same state.  Tasks, notes and the takeoff sheet are left out.    *)
(***************************************************************************)
EXTENDS Integers, Sequences, FiniteSets

CONSTANTS
    Request,      \* requests the app serves at the same time
    Token,        \* the pursue tokens that digests have sent
    Paths,        \* states the pursuit may have gone through already, <<>>: not opened
    MaxRequest,   \* bound: requests made
    MaxFault,     \* bound: requests that stop half way
    None

VARIABLES
    row,          \* the row of pursuits, None: no row
    log,          \* pursuit_transitions, oldest first
    labels,       \* decision_labels of kind pursuit_outcome: their outcomes
    live,         \* tokens neither used nor expired
    work,         \* what each request is doing
    made, faults,
    overlapped,   \* history: a request was begun while another was at work
    died          \* history: a request stopped half way

table == <<row, log, labels, live>>
past  == <<made, faults, overlapped, died>>
vars  == <<row, log, labels, live, work, made, faults, overlapped, died>>

Transitions ==
    [discovered           |-> {"qualified", "no_bid", "archived"},
     qualified            |-> {"relationship_target", "bid_confirmed", "no_bid", "archived"},
     relationship_target  |-> {"bid_confirmed", "no_bid", "archived"},
     bid_confirmed        |-> {"bid_decision_pending", "no_bid", "archived"},
     bid_decision_pending |-> {"estimating", "no_bid", "archived"},
     estimating           |-> {"submitted", "no_bid", "archived"},
     submitted            |-> {"won", "lost", "archived"},
     won                  |-> {"follow_up", "archived"},
     lost                 |-> {"follow_up", "archived"},
     no_bid               |-> {"follow_up", "archived"},
     follow_up            |-> {"archived"},
     archived             |-> {}]

State     == DOMAIN Transitions
HumanOnly == {"estimating", "submitted", "won", "lost", "no_bid"}
Outcome   == {"won", "lost", "no_bid"}
Actor     == {"human", "ai"}

\* States that cannot be entered without a reason, a date or an owner.
NeedsData == Outcome \cup {"submitted", "follow_up"}

ASSUME PursuitAssumption ==
    /\ MaxRequest \in Nat /\ MaxFault \in Nat /\ IsFiniteSet(Request)
    /\ \A path \in Paths :
         /\ path \in Seq(State)
         /\ path # <<>> => path[1] = "discovered"
         /\ \A i \in 2..Len(path) : path[i] \in Transitions[path[i - 1]] \ (Outcome \cup {"archived"})

Row   == [state : State, closed : BOOLEAN]
Entry == [from : State \cup {None}, to : State, actor : Actor]

ASSUME NoneIsNothing == None \notin Row \cup State

\* pc: the statement a request is at; tok: the token of a tap; from: the state it
\* read; to, actor: the transition it asks for.
Idle == [pc |-> "idle", tok |-> None, from |-> None, to |-> None, actor |-> "human"]

Busy(r) == work[r].pc # "idle"

Init ==
    /\ \E path \in Paths :
         /\ row = IF path = <<>> THEN None ELSE [state |-> path[Len(path)], closed |-> FALSE]
         /\ log = [i \in DOMAIN path |->
                     [from |-> IF i = 1 THEN None ELSE path[i - 1], to |-> path[i], actor |-> "human"]]
    /\ labels = <<>> /\ live = Token
    /\ work = [r \in Request |-> Idle]
    /\ made = 0 /\ faults = 0 /\ overlapped = FALSE /\ died = FALSE

\* A request arrives and is at its first statement.
Arrive(r, me) ==
    /\ ~Busy(r) /\ made < MaxRequest
    /\ work' = [work EXCEPT ![r] = me]
    /\ made' = made + 1
    /\ overlapped' = (overlapped \/ \E q \in Request : Busy(q))
    /\ UNCHANGED <<table, faults, died>>

Goto(r, pc) == work' = [work EXCEPT ![r] = IF pc = "idle" THEN Idle ELSE [@ EXCEPT !.pc = pc]]

-----------------------------------------------------------------------------
(* Opening a pursuit *)

\* POST /api/app/pursuits
Open(r) == Arrive(r, [Idle EXCEPT !.pc = "select"])

\* POST /api/action with a pursue token
Tap(r, t) == Arrive(r, [Idle EXCEPT !.pc = "claim", !.tok = t])

\* consumeActionToken
Claim(r) ==
    /\ work[r].pc = "claim"
    /\ Goto(r, IF work[r].tok \in live THEN "select" ELSE "idle")
    /\ live' = live \ {work[r].tok}
    /\ UNCHANGED <<row, log, labels, past>>

\* An existing pursuit is returned as it is.
Select(r) ==
    /\ work[r].pc = "select"
    /\ Goto(r, IF row = None THEN "create" ELSE "idle")
    /\ UNCHANGED <<table, past>>

\* mutant: the row is written whatever is there
CreateAlways(r) ==
    /\ work[r].pc = "create"
    /\ row' = [state |-> "discovered", closed |-> FALSE]
    /\ Goto(r, "opening")
    /\ UNCHANGED <<log, labels, live, past>>

\* createPursuit: the unique index makes the second insert throw.
Create(r) ==
    /\ work[r].pc = "create"
    /\ IF row = None
       THEN row' = [state |-> "discovered", closed |-> FALSE] /\ Goto(r, "opening")
       ELSE UNCHANGED row /\ Goto(r, "idle")
    /\ UNCHANGED <<log, labels, live, past>>

InsertOpening(r) ==
    /\ work[r].pc = "opening"
    /\ log' = Append(log, [from |-> None, to |-> "discovered", actor |-> "human"])
    /\ Goto(r, "idle")
    /\ UNCHANGED <<row, labels, live, past>>

-----------------------------------------------------------------------------
(* transitionPursuit *)

Move(r, to, actor) == Arrive(r, [Idle EXCEPT !.pc = "load", !.to = to, !.actor = actor])

\* mutant: any move is allowed
AnyMove(from, to) == to # from

Allowed(from, to) == to \in Transitions[from]
MayEnter(to, actor) == to \in HumanOnly => actor = "human"

\* mutant: the row is updated before its audit row is written
RowFirst(pc, to) ==
    CASE pc = "checked" -> "set" [] pc = "set" -> "audit"
      [] pc = "audit" -> IF to \in Outcome THEN "label" ELSE "idle"

\* The order of the statements of a transition that has passed its checks.
Then(pc, to) ==
    CASE pc = "checked" -> "audit" [] pc = "audit" -> "set"
      [] pc = "set" -> IF to \in Outcome THEN "label" ELSE "idle"

\* loadPursuit and the checks; `complete` is whether the request brings the reason,
\* date or owner that the state needs.
Validate(r, complete) ==
    /\ work[r].pc = "load"
    /\ LET me == work[r]
           ok == /\ row # None /\ Allowed(row.state, me.to) /\ MayEnter(me.to, me.actor)
                 /\ me.to \in NeedsData => complete
       IN  work' = [work EXCEPT ![r] =
               IF ok THEN [me EXCEPT !.from = row.state,
                              !.pc = IF me.to = "qualified" THEN "gate" ELSE Then("checked", me.to)]
               ELSE Idle]
    /\ UNCHANGED <<table, past>>

\* evaluateGate, of evidence and a score that change all the time.  A verifier that has
\* not run does not bar qualification; a failed gate does.
CheckGate(r, verdict) ==
    /\ work[r].pc = "gate"
    /\ Goto(r, IF verdict = "fail" THEN "idle" ELSE Then("checked", work[r].to))
    /\ UNCHANGED <<table, past>>

InsertAudit(r) ==
    /\ work[r].pc = "audit"
    /\ log' = Append(log, [from |-> work[r].from, to |-> work[r].to, actor |-> work[r].actor])
    /\ Goto(r, Then("audit", work[r].to))
    /\ UNCHANGED <<row, labels, live, past>>

\* The state that was read is not asserted again.
SetState(r) ==
    /\ work[r].pc = "set"
    /\ row' = [state |-> work[r].to, closed |-> row.closed \/ work[r].to = "archived"]
    /\ Goto(r, Then("set", work[r].to))
    /\ UNCHANGED <<log, labels, live, past>>

InsertLabel(r) ==
    /\ work[r].pc = "label"
    /\ labels' = Append(labels, work[r].to)
    /\ Goto(r, "idle")
    /\ UNCHANGED <<row, log, live, past>>

-----------------------------------------------------------------------------

\* Two weeks pass.
Expire(t) ==
    /\ t \in live
    /\ live' = live \ {t}
    /\ UNCHANGED <<row, log, labels, work, past>>

Fault(r) ==
    /\ Busy(r) /\ faults < MaxFault
    /\ work' = [work EXCEPT ![r] = Idle]
    /\ faults' = faults + 1 /\ died' = TRUE
    /\ UNCHANGED <<table, made, overlapped>>

Next ==
    \/ \E r \in Request :
         \/ Open(r) \/ Claim(r) \/ Select(r) \/ Create(r) \/ InsertOpening(r)
         \/ InsertAudit(r) \/ SetState(r) \/ InsertLabel(r) \/ Fault(r)
         \/ \E t \in Token : Tap(r, t)
         \/ \E to \in State, actor \in Actor : Move(r, to, actor)
         \/ \E complete \in BOOLEAN : Validate(r, complete)
         \/ \E verdict \in {"pass", "fail", "blocked_on_verifier"} : CheckGate(r, verdict)
    \/ \E t \in Token : Expire(t)

Spec == Init /\ [][Next]_vars

-----------------------------------------------------------------------------
(* Properties *)

Quiet == \A r \in Request : ~Busy(r)

TypeOK ==
    /\ row \in Row \cup {None} /\ log \in Seq(Entry) /\ labels \in Seq(Outcome)
    /\ live \subseteq Token
    /\ \A r \in Request :
         /\ work[r].pc \in {"idle", "claim", "select", "create", "opening", "load", "gate",
                            "audit", "set", "label"}
         /\ work[r].tok \in Token \cup {None} /\ work[r].actor \in Actor
         /\ work[r].from \in State \cup {None} /\ work[r].to \in State \cup {None}

\* "One pursuit per (account, opportunity)": taps on the links of several digests and
\* requests of the app that race open it once, and no opening takes it back to the start.
OpenedOnce ==
    /\ Cardinality({i \in DOMAIN log : log[i].from = None}) <= 1
    /\ row = None => log = <<>>

\* "Every transition is audited; states that represent a human commitment can never be
\* entered by an AI job": whatever requests overlap or stop half way, the audit trail
\* has the move that made the row what it is, by a person where it commits the account,
\* and no outcome is counted for calibration that the trail has not got.
StateIsAudited ==
    /\ row # None /\ row.state # "discovered" =>
         \E i \in DOMAIN log :
            log[i].to = row.state /\ (row.state \in HumanOnly => log[i].actor = "human")
    /\ \A x \in Outcome :
         Cardinality({i \in DOMAIN labels : labels[i] = x})
           <= Cardinality({i \in DOMAIN log : log[i].to = x})

\* While requests come one at a time and run to their end, the audit trail is one path
\* of allowed moves from the opening to the row's state, which is closed exactly when
\* it is archived, and the labels are the outcome on the path: a path has one at most.
SerialHistory ==
    ~overlapped /\ ~died /\ Quiet /\ row # None =>
        /\ log # <<>> /\ log[1].to = "discovered" /\ log[Len(log)].to = row.state
        /\ \A i \in 2..Len(log) :
             log[i].from = log[i - 1].to /\ log[i].to \in Transitions[log[i].from]
        /\ row.closed <=> row.state = "archived"
        /\ \A i \in DOMAIN log : log[i].to \in Outcome => labels = <<log[i].to>>
        /\ (\A i \in DOMAIN log : log[i].to \notin Outcome) => labels = <<>>
================================================================================
