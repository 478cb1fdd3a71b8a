------------------------------ MODULE Invitations ------------------------------
(***************************************************************************)
(* The intake of bid invitations (intelligence/invitations.ts): a message    *)
(* arrives by webhook or upload, more than once and beside others; it is     *)
(* stored once, and opens an invitation or revises the one of its project.   *)
(* Each statement is a step and nothing is undone.                           *)
(***************************************************************************)
EXTENDS Integers, Sequences, FiniteSets

CONSTANTS
    Message, Project, Date,
    Match,        \* [Message -> the projects the match may find, or Nothing]
    Due,          \* [Message -> the due date it states, or Nothing]
    Addendum,     \* messages that carry an addendum
    Worker,       \* deliveries at work at once
    MaxDelivery, MaxDeath,   \* bounds
    Nothing

ASSUME InvitationsAssumption ==
    /\ Match \in [Message -> SUBSET (Project \cup {Nothing})]
    /\ Due \in [Message -> Date \cup {Nothing}]
    /\ Addendum \subseteq Message
    /\ Nothing \notin Message \cup Project \cup Date
    /\ MaxDelivery \in Nat /\ MaxDeath \in Nat

VARIABLES
    inbox,        \* inbound_messages
    invitations,  \* bid_invitations in the order of their updates, the last one last
    events,       \* bid_invitation_events, append-only
    worker,       \* what each delivery is doing
    everDue,      \* <<invitation, date>> for every due date an invitation had
    deliveries, deaths

intakeVars == <<inbox, invitations, events, worker, everDue, deliveries, deaths>>

\* An invitation is known by the message that opened it, which it keeps.
Invitation == [of : Message, project : Project \cup {Nothing}, due : Date \cup {Nothing}]
Event == [on : Message, by : Message, prior : Date \cup {Nothing}, revised : Date \cup {Nothing},
          type : {"invitation_received", "deadline_changed", "addendum"}]

Listening == [pc |-> "idle", message |-> Nothing, project |-> Nothing, prior |-> Nothing]

Steps == {"idle", "insert", "correlate", "open", "received", "change", "update", "addendum"}

IntakeTypeOK ==
    /\ inbox \subseteq Message
    /\ invitations \in Seq(Invitation)
    /\ events \subseteq Event
    /\ worker \in [Worker -> [pc : Steps, message : Message \cup {Nothing},
                              project : Project \cup {Nothing}, prior : Invitation \cup {Nothing}]]
    /\ everDue \subseteq Message \X (Date \cup {Nothing})
    /\ deliveries \in 0..MaxDelivery /\ deaths \in 0..MaxDeath

IntakeInit ==
    /\ inbox = {} /\ invitations = <<>> /\ events = {}
    /\ worker = [w \in Worker |-> Listening]
    /\ everDue = {} /\ deliveries = 0 /\ deaths = 0

Go(w, to) == worker' = [worker EXCEPT ![w] = to]

--------------------------------------------------------------------------------
\* A delivery or a repetition of one; a message that is stored is a duplicate.
Deliver(w, m) ==
    /\ worker[w] = Listening
    /\ deliveries < MaxDelivery
    /\ deliveries' = deliveries + 1
    /\ Go(w, IF m \in inbox THEN Listening ELSE [Listening EXCEPT !.pc = "insert", !.message = m])
    /\ UNCHANGED <<inbox, invitations, events, everDue, deaths>>

\* mutant: no unique index on the provider's message id
NeverTaken(m) == FALSE

Taken(m) == m \in inbox

\* The unique index refuses the second of two deliveries: it fails.  Otherwise the
\* project is matched among those the account sees by now.
InsertMessage(w) ==
    /\ worker[w].pc = "insert"
    /\ \E p \in Match[worker[w].message] :
          Go(w, IF Taken(worker[w].message) THEN Listening
                ELSE [worker[w] EXCEPT !.pc = "correlate", !.project = p])
    /\ inbox' = inbox \cup {worker[w].message}
    /\ UNCHANGED <<invitations, events, everDue, deliveries, deaths>>

\* The invitation of the project that was updated last, when there is one.
Latest(p) == LET at == {i \in 1..Len(invitations) : invitations[i].project = p}
             IN  IF p = Nothing \/ at = {} THEN Nothing
                 ELSE invitations[CHOOSE i \in at : \A j \in at : j <= i]

Correlate(w) ==
    /\ worker[w].pc = "correlate"
    /\ LET prior == Latest(worker[w].project)
           due == Due[worker[w].message]
       IN  Go(w, [worker[w] EXCEPT !.prior = prior,
                    !.pc = IF prior = Nothing THEN "open"
                           ELSE IF due # Nothing /\ prior.due # due THEN "change" ELSE "addendum"])
    /\ UNCHANGED <<inbox, invitations, events, everDue, deliveries, deaths>>

OpenInvitation(w) ==
    /\ worker[w].pc = "open"
    /\ LET m == worker[w].message
           opened == [of |-> m, project |-> worker[w].project, due |-> Due[m]]
       IN  /\ invitations' = Append(invitations, opened)
           /\ everDue' = everDue \cup {<<m, Due[m]>>}
           /\ Go(w, [worker[w] EXCEPT !.pc = "received", !.prior = opened])
    /\ UNCHANGED <<inbox, events, deliveries, deaths>>

\* An event on the invitation the delivery found or opened.
Log(w, type, prior, revised) ==
    events' = events \cup {[on |-> worker[w].prior.of, by |-> worker[w].message, type |-> type,
                            prior |-> prior, revised |-> revised]}

LogReceived(w) ==
    /\ worker[w].pc = "received"
    /\ Log(w, "invitation_received", Nothing, Nothing)
    /\ Go(w, [worker[w] EXCEPT !.pc = "addendum"])
    /\ UNCHANGED <<inbox, invitations, everDue, deliveries, deaths>>

\* The event keeps both dates before the row loses one.
LogChange(w) ==
    /\ worker[w].pc = "change"
    /\ Log(w, "deadline_changed", worker[w].prior.due, Due[worker[w].message])
    /\ Go(w, [worker[w] EXCEPT !.pc = "update"])
    /\ UNCHANGED <<inbox, invitations, everDue, deliveries, deaths>>

\* An update makes the row the last one.
Touched(i, entry) ==
    [j \in 1..Len(invitations) |->
        IF j = Len(invitations) THEN entry ELSE invitations[IF j < i THEN j ELSE j + 1]]

Revise(w) ==
    /\ worker[w].pc = "update"
    /\ LET i == CHOOSE k \in 1..Len(invitations) : invitations[k].of = worker[w].prior.of
           entry == [invitations[i] EXCEPT !.due = Due[worker[w].message]]
       IN  /\ invitations' = Touched(i, entry)
           /\ everDue' = everDue \cup {<<entry.of, entry.due>>}
    /\ Go(w, [worker[w] EXCEPT !.pc = "addendum"])
    /\ UNCHANGED <<inbox, events, deliveries, deaths>>

LogAddendum(w) ==
    /\ worker[w].pc = "addendum"
    /\ IF worker[w].message \in Addendum THEN Log(w, "addendum", Nothing, Nothing) ELSE UNCHANGED events
    /\ Go(w, Listening)
    /\ UNCHANGED <<inbox, invitations, everDue, deliveries, deaths>>

DeliveryDies(w) ==
    /\ deaths < MaxDeath
    /\ deaths' = deaths + 1
    /\ worker[w] # Listening
    /\ Go(w, Listening)
    /\ UNCHANGED <<inbox, invitations, events, everDue, deliveries>>

IntakeNext == \E w \in Worker :
    \/ \E m \in Message : Deliver(w, m)
    \/ InsertMessage(w) \/ Correlate(w) \/ OpenInvitation(w) \/ LogReceived(w)
    \/ LogChange(w) \/ Revise(w) \/ LogAddendum(w) \/ DeliveryDies(w)

IntakeSpec == IntakeInit /\ [][IntakeNext]_intakeVars

--------------------------------------------------------------------------------
\* A message repeated by its provider, or uploaded twice, opens one invitation at most,
\* and one that revised another's opened none (invitations.ts:57-83, the index of
\* schema.ts:791).
IngestedOnce ==
    /\ \A i, j \in 1..Len(invitations) : invitations[i].of = invitations[j].of => i = j
    /\ \A a, b \in events : a.by = b.by => a.on = b.on

\* No deadline is lost: every date an invitation ever had is its own now or in the event
\* of a change, also when two messages revise it at once or one dies between the event
\* and the row; and a date it did not open with has its event (invitations.ts:102-115).
DeadlinesKept ==
    \A d \in everDue :
      \/ \E i \in 1..Len(invitations) : invitations[i].of = d[1] /\ invitations[i].due = d[2]
      \/ \E e \in events : e.on = d[1] /\ e.type = "deadline_changed"
                           /\ d[2] \in {e.prior, e.revised}

Revised ==
    \A i \in 1..Len(invitations) :
      \/ invitations[i].due = Due[invitations[i].of]
      \/ \E e \in events : e.on = invitations[i].of /\ e.type = "deadline_changed"
                           /\ e.revised = invitations[i].due

\* A message is ingested once, and no deadline is lost from an invitation's history
\* (invitations.ts:53-149).
IntakeKeepsHistory == IntakeTypeOK /\ IngestedOnce /\ DeadlinesKept /\ Revised
================================================================================
