------------------------------- MODULE Delivery -------------------------------
(***************************************************************************)
(* The weekly digest of one account: what a run reads to build it            *)
(* (delivery/digest.ts, buildDigest), the row it stores under one key per    *)
(* week, the items and one-tap links it adds afterwards, and the mail        *)
(* (delivery/deliver.ts, deliverDigest; actions.ts, issueActionTokens).  The *)
(* weekly schedule drafts and an operator drafts or sends; neither uses a    *)
(* transaction, and both may be at work on the same week.                    *)
(*                                                                          *)
(* An item of a digest is an opportunity and whether it is called new; its   *)
(* wording and its section are left out.  The pursue and the dismiss link of *)
(* an item are one link.                                                     *)
(***************************************************************************)
EXTENDS Integers, Sequences, FiniteSets

CONSTANTS
    Week,         \* dates a digest can end on, as numbers
    Opportunity,  \* the account's opportunities
    Facts,        \* what the tables may say of one
    Unseen,       \* what they say of one at first
    ActionLinks,  \* ACTION_BASE_URL is set
    MaxStart,     \* bound: runs begun
    MaxChange,    \* bound: changes of what the tables say
    MaxFault,     \* bound: runs that stop half way
    None

\* listed: in a deliverable state; passes: not suppressed, scored by the current
\* algorithm, gate passed; auto: may be included without a person; easy: an easy win.
FactSpace == [listed : BOOLEAN, passes : BOOLEAN, auto : BOOLEAN, easy : BOOLEAN]

ASSUME DeliveryAssumption ==
    /\ Week \subseteq Nat /\ Week # {}
    /\ Unseen \in Facts /\ Facts \subseteq FactSpace
    /\ ActionLinks \in BOOLEAN
    /\ MaxStart \in Nat /\ MaxChange \in Nat /\ MaxFault \in Nat

VARIABLES
    facts,        \* what the tables say of each opportunity
    today,        \* the current week
    deliveries,   \* the row of each week's idempotency key, None before the insert
    items,        \* rows of delivery_items: how many of each week and opportunity
    tokens,       \* rows of action_tokens: likewise
    mails,        \* mails handed to the SMTP server, oldest first
    work,         \* what each process is doing
    starts, changes, faults,
    overlapped,   \* history: weeks a run worked on while another run was busy
    died          \* history: weeks a run of which stopped half way

tables == <<deliveries, items, tokens>>
count  == <<starts, changes, faults>>
vars   == <<facts, today, deliveries, items, tokens, mails, work, starts, changes,
            faults, overlapped, died>>

Process == {"schedule", "operator"}

\* What renderDigestHtml writes: the opportunities shown, those called new and those
\* with links.
Content == [shown : SUBSET Opportunity, new : SUBSET Opportunity,
            links : SUBSET Opportunity]

DeliveryRow == [status : {"draft", "sent"}, content : Content]

ASSUME NoneIsNothing == None \notin Content \cup DeliveryRow \cup Week

\* pc: the statement a process is at; week, send: its request; the rest its locals.
Idle == [pc |-> "idle", week |-> None, send |-> FALSE, listed |-> {}, easy |-> {},
         delivered |-> {}, model |-> None, status |-> "draft", todo |-> {}, html |-> None]

Busy(p) == work[p].pc # "idle"

Init ==
    /\ facts = [o \in Opportunity |-> Unseen]
    /\ today = CHOOSE w \in Week : \A v \in Week : w <= v
    /\ deliveries = [w \in Week |-> None]
    /\ items = [w \in Week |-> [o \in Opportunity |-> 0]]
    /\ tokens = items
    /\ mails = <<>>
    /\ work = [p \in Process |-> Idle]
    /\ starts = 0 /\ changes = 0 /\ faults = 0
    /\ overlapped = {} /\ died = {}

-----------------------------------------------------------------------------
(* Building the digest *)

\* mutant: only the deliveries that were sent
PreviouslySent ==
    {o \in Opportunity : \E w \in Week :
        items[w][o] > 0 /\ deliveries[w] # None /\ deliveries[w].status = "sent"}

\* previouslyDelivered: opportunities with an item in any delivery, sent or not.
PreviouslyDelivered == {o \in Opportunity : \E w \in Week : items[w][o] > 0}

\* A run begins: the queries buildDigest makes together.
Load(p, w, send) ==
    /\ ~Busy(p) /\ starts < MaxStart /\ w <= today
    /\ p = "schedule" => w = today /\ ~send
    /\ LET listed == {o \in Opportunity : facts[o].listed}
       IN  work' = [work EXCEPT ![p] =
               [Idle EXCEPT !.pc = "assemble", !.week = w, !.send = send,
                            !.listed = listed,
                            !.easy = {o \in listed : facts[o].easy},
                            !.delivered = PreviouslyDelivered]]
    /\ starts' = starts + 1
    /\ overlapped' =
         LET others == {q \in Process : Busy(q)}
         IN  overlapped \cup IF others = {} THEN {} ELSE {w} \cup {work[q].week : q \in others}
    /\ UNCHANGED <<facts, today, tables, mails, changes, faults, died>>

\* The loop over the candidates: the gate and the inclusion policy read the tables
\* again; what is held for a person is in no section.
Assemble(p) ==
    /\ work[p].pc = "assemble"
    /\ LET me    == work[p]
           shown == {o \in me.listed : facts[o].passes /\ facts[o].auto}
       IN  work' = [work EXCEPT ![p].pc = "lookup",
               ![p].model = [shown |-> shown, new |-> shown \ me.delivered,
                             links |-> IF ActionLinks THEN me.easy \cap shown ELSE {}]]
    /\ UNCHANGED <<facts, today, tables, mails, count, overlapped, died>>

-----------------------------------------------------------------------------
(* Storing it *)

\* Where a run goes once it knows its row and the status it read there.
AfterRow(me, status) == IF me.send /\ status # "sent" THEN "stored" ELSE "idle"

\* The next statement of a run that created the row: one item at a time, then one
\* token at a time, then the content with the links.
AfterItem(me) ==
    IF me.todo # {} THEN "item"
    ELSE IF me.model.links # {} THEN "token" ELSE AfterRow(me, "draft")

\* A process that has nothing left to do forgets its locals.
At(me, pc) == IF pc = "idle" THEN Idle ELSE [me EXCEPT !.pc = pc]

\* mutant: the status of the row is not looked at
SeesAnyRow(me, row) == At(me, AfterRow(me, "draft"))

\* A run that finds the row there does nothing but, perhaps, send it.
SeesRow(me, row) == At([me EXCEPT !.status = row.status], AfterRow(me, row.status))

\* SELECT ... WHERE idempotency_key: an existing row is used as it is.
Lookup(p) ==
    /\ work[p].pc = "lookup"
    /\ LET me == work[p]
           row == deliveries[me.week]
       IN  work' = [work EXCEPT ![p] =
               IF row = None THEN At(me, "insert") ELSE SeesRow(me, row)]
    /\ UNCHANGED <<facts, today, tables, mails, count, overlapped, died>>

\* mutant: the loser of a race carries on as if the row were its own
LostRaceAdds(me, row) ==
    LET mine == [me EXCEPT !.todo = me.model.shown] IN At(mine, AfterItem(mine))

\* The loser of a race reads the winner's row.
LostRace(me, row) == SeesRow(me, row)

\* INSERT ... ON CONFLICT DO NOTHING.
Insert(p) ==
    /\ work[p].pc = "insert"
    /\ LET me  == work[p]
           row == deliveries[me.week]
           won == [me EXCEPT !.todo = me.model.shown]
       IN  IF row = None
           THEN /\ deliveries' = [deliveries EXCEPT ![me.week] =
                       [status |-> "draft", content |-> [me.model EXCEPT !.links = {}]]]
                /\ work' = [work EXCEPT ![p] = At(won, AfterItem(won))]
           ELSE /\ work' = [work EXCEPT ![p] = LostRace(me, row)]
                /\ UNCHANGED deliveries
    /\ UNCHANGED <<facts, today, items, tokens, mails, count, overlapped, died>>

InsertItem(p) ==
    /\ work[p].pc = "item"
    /\ \E o \in work[p].todo :
         LET me == [work[p] EXCEPT !.todo = @ \ {o}]
         IN  /\ items' = [items EXCEPT ![me.week][o] = @ + 1]
             /\ work' = [work EXCEPT ![p] =
                    At([me EXCEPT !.todo = IF AfterItem(me) = "token" THEN me.model.links ELSE @],
                       AfterItem(me))]
    /\ UNCHANGED <<facts, today, deliveries, tokens, mails, count, overlapped, died>>

\* mutant: the links are written after the first token
IssueOneToken(p) ==
    /\ work[p].pc = "token"
    /\ \E o \in work[p].todo :
         /\ tokens' = [tokens EXCEPT ![work[p].week][o] = @ + 1]
         /\ work' = [work EXCEPT ![p].todo = @ \ {o}, ![p].pc = "link"]
    /\ UNCHANGED <<facts, today, deliveries, items, mails, count, overlapped, died>>

IssueToken(p) ==
    /\ work[p].pc = "token"
    /\ \E o \in work[p].todo :
         LET me == [work[p] EXCEPT !.todo = @ \ {o}]
         IN  /\ tokens' = [tokens EXCEPT ![me.week][o] = @ + 1]
             /\ work' = [work EXCEPT ![p] = At(me, IF me.todo = {} THEN "link" ELSE "token")]
    /\ UNCHANGED <<facts, today, deliveries, items, mails, count, overlapped, died>>

\* UPDATE rendered_content, whatever the row has become.
WriteLinks(p) ==
    /\ work[p].pc = "link"
    /\ LET me == work[p]
       IN  /\ deliveries' = [deliveries EXCEPT ![me.week].content = me.model]
           /\ work' = [work EXCEPT ![p] = At(me, AfterRow(me, "draft"))]
    /\ UNCHANGED <<facts, today, items, tokens, mails, count, overlapped, died>>

-----------------------------------------------------------------------------
(* Sending it *)

\* mutant: the run sends what it has built itself
SendOwn(p) ==
    /\ work[p].pc = "stored"
    /\ work' = [work EXCEPT ![p].html = work[p].model, ![p].pc = "mail"]
    /\ UNCHANGED <<facts, today, tables, mails, count, overlapped, died>>

ReadStored(p) ==
    /\ work[p].pc = "stored"
    /\ work' = [work EXCEPT ![p].html = deliveries[work[p].week].content, ![p].pc = "mail"]
    /\ UNCHANGED <<facts, today, tables, mails, count, overlapped, died>>

SendMail(p) ==
    /\ work[p].pc = "mail"
    /\ mails' = Append(mails, [week |-> work[p].week, content |-> work[p].html])
    /\ work' = [work EXCEPT ![p].pc = "mark"]
    /\ UNCHANGED <<facts, today, tables, count, overlapped, died>>

MarkSent(p) ==
    /\ work[p].pc = "mark"
    /\ deliveries' = [deliveries EXCEPT ![work[p].week].status = "sent"]
    /\ work' = [work EXCEPT ![p] = Idle]
    /\ UNCHANGED <<facts, today, items, tokens, mails, count, overlapped, died>>

-----------------------------------------------------------------------------
(* The world *)

\* A statement throws, the SMTP server refuses, or the process dies.
Fault(p) ==
    /\ Busy(p) /\ faults < MaxFault
    /\ died' = died \cup {work[p].week}
    /\ work' = [work EXCEPT ![p] = Idle]
    /\ faults' = faults + 1
    /\ UNCHANGED <<facts, today, tables, mails, starts, changes, overlapped>>

\* Scoring, the gate's evidence or a person changes what the tables say.
Change(o, f) ==
    /\ changes < MaxChange /\ f # facts[o]
    /\ facts' = [facts EXCEPT ![o] = f]
    /\ changes' = changes + 1
    /\ UNCHANGED <<today, tables, mails, work, starts, faults, overlapped, died>>

NextWeek ==
    /\ today + 1 \in Week
    /\ today' = today + 1
    /\ UNCHANGED <<facts, tables, mails, work, count, overlapped, died>>

Step(p) ==
    \/ Assemble(p) \/ Lookup(p) \/ Insert(p) \/ InsertItem(p) \/ IssueToken(p)
    \/ WriteLinks(p) \/ ReadStored(p) \/ SendMail(p) \/ MarkSent(p)

Next ==
    \/ \E p \in Process : Step(p) \/ Fault(p)
    \/ \E p \in Process, w \in Week, send \in BOOLEAN : Load(p, w, send)
    \/ \E o \in Opportunity, f \in Facts : Change(o, f)
    \/ NextWeek

Spec == Init /\ [][Next]_vars

-----------------------------------------------------------------------------
(* Properties *)

TypeOK ==
    /\ facts \in [Opportunity -> Facts] /\ today \in Week
    /\ deliveries \in [Week -> DeliveryRow \cup {None}]
    /\ items \in [Week -> [Opportunity -> Nat]] /\ tokens \in [Week -> [Opportunity -> Nat]]
    /\ mails \in Seq([week : Week, content : Content])
    /\ \A p \in Process :
         /\ work[p].pc \in {"idle", "assemble", "lookup", "insert", "item", "token", "link",
                            "stored", "mail", "mark"}
         /\ work[p].week \in Week \cup {None}
         /\ work[p].model \in Content \cup {None} /\ work[p].html \in Content \cup {None}
         /\ work[p].todo \subseteq Opportunity
    /\ overlapped \subseteq Week /\ died \subseteq Week

Creating(w) == \E p \in Process : work[p].week = w /\ work[p].pc \in {"item", "token", "link"}
Shown(w)    == deliveries[w].content.shown
MailsOf(w)  == {i \in DOMAIN mails : mails[i].week = w}

\* However many runs build one week and in whatever order they reach the table, each
\* shown opportunity gets one row in delivery_items and one set of tokens, and a row
\* nobody is still filling, and no run died on, has the items it shows.
WrittenOnce ==
    \A w \in Week :
        /\ \A o \in Opportunity : items[w][o] <= 1 /\ tokens[w][o] <= 1
        /\ deliveries[w] # None /\ w \notin died /\ ~Creating(w) =>
             {o \in Opportunity : items[w][o] > 0} = Shown(w)

\* Every mail of a week shows what the week's row shows and calls new what it calls
\* new, even when the run that sent it had built something else.
MailIsTheRow ==
    \A i \in DOMAIN mails :
        LET row == deliveries[mails[i].week]
        IN  /\ row # None
            /\ mails[i].content.shown = row.content.shown
            /\ mails[i].content.new = row.content.new

\* A one-tap link that is stored, or that has left in a mail, has its token.
LinksWork ==
    /\ \A w \in Week : deliveries[w] # None =>
         \A o \in deliveries[w].content.links : tokens[w][o] > 0
    /\ \A i \in DOMAIN mails : \A o \in mails[i].content.links : tokens[mails[i].week][o] > 0

\* Run one after the other, and none stopping half way, the runs of a week mail it at
\* most once, and mail it with its links.
MailedOnce ==
    \A w \in Week \ (overlapped \cup died) :
        /\ Cardinality(MailsOf(w)) <= 1
        /\ \A i \in MailsOf(w) : mails[i].content = deliveries[w].content

\* What the duplicate metric counts stays at zero for weeks whose runs neither
\* overlapped nor died, sent or not, in whatever order they are built.
NewOnlyOnce ==
    \A v, w \in Week \ (overlapped \cup died) :
        v # w /\ deliveries[v] # None /\ deliveries[w] # None =>
            deliveries[v].content.new \cap deliveries[w].content.new = {}

\* Nobody is mailed a week twice by runs that do not overlap or die, and no mail calls new
\* what an earlier week's mail showed (deliver.ts:56-70, 148-174, digest.ts:444-451).
WeeksTellOnce == MailedOnce /\ NewOnlyOnce
===============================================================================
