--------------------------------- MODULE Field ---------------------------------
(***************************************************************************)
(* The crew's link (intelligence/field.ts, the entries route and the        *)
(* offline outbox of web/app/field): what a crew types goes to the server    *)
(* as a form or waits on the phone until a flush posts it; the server stores *)
(* it under the key the phone gave it and tells the owner of a change order; *)
(* somebody decides the change order.  Requests and answers are lost, pages  *)
(* are closed, two tabs flush the same outbox, the link is revoked.          *)
(***************************************************************************)
EXTENDS Integers, Sequences, FiniteSets

CONSTANTS
    Entry,        \* what the crew types, one member per submit
    ChangeOrder,  \* the entries that are money
    Tab,          \* open pages of the link, which share the phone's outbox
    Slot,         \* requests the server may be working on at a time
    Desk,         \* requests that decide a change order
    MaxLoss,     \* bound on lost or limited requests and on deaths
    Nil

ASSUME FieldAssumption ==
    /\ ChangeOrder \subseteq Entry
    /\ Nil \notin Tab \cup Slot \cup Entry
    /\ MaxLoss \in Nat

VARIABLES
    outbox,    \* IndexedDB: "absent", "pending", "failed" with its reason, "deleted"
    keyless,   \* entries the browser posted itself: they carry no key
    tab,       \* a flush: what allEntries returned, and the fetch it waits for
    request,   \* what the server is doing
    link,      \* "open", or "gone": revoked or expired
    stored,    \* field_entries: how many rows an entry has
    status,    \* of those rows
    told,      \* mails to the owner
    desk,      \* what a deciding request is doing
    notes,     \* pursuit_notes, one per decision
    losses

fieldVars == <<outbox, keyless, tab, request, link, stored, status, told, desk, notes, losses>>

Decision == {"approved", "rejected"}

\* flushLock: a tab that flushes ignores the triggers.
Quiet    == [flushing |-> FALSE, todo |-> {}, awaits |-> Nil]
IdleDesk == [pc |-> "idle", entry |-> Nil, verdict |-> "approved"]

Asking == [entry : Entry, at : {"verify", "insert", "notify", "answer"}, deduped : BOOLEAN,
           code : {"none", "ok", "later", "refused"}]

ASSUME NilIsNoRequest == Nil \notin Asking

FieldTypeOK ==
    /\ outbox \in [Entry -> {"absent", "pending", "failed", "deleted"}]
    /\ keyless \subseteq Entry
    /\ tab \in [Tab -> [flushing : BOOLEAN, todo : SUBSET Entry, awaits : Slot \cup {Nil}]]
    /\ request \in [Slot -> Asking \cup {Nil}]
    /\ link \in {"open", "gone"}
    /\ stored \in [Entry -> Nat] /\ told \in [Entry -> Nat]
    /\ status \in [Entry -> {"none", "submitted"} \cup Decision]
    /\ desk \in [Desk -> [pc : {"idle", "update", "note"}, entry : Entry \cup {Nil}, verdict : Decision]]
    /\ notes \in [Entry -> Seq(Decision)]
    /\ losses \in 0..MaxLoss

FieldInit ==
    /\ outbox = [e \in Entry |-> "absent"] /\ keyless = {}
    /\ tab = [t \in Tab |-> Quiet]
    /\ request = [r \in Slot |-> Nil]
    /\ link = "open"
    /\ stored = [e \in Entry |-> 0] /\ status = [e \in Entry |-> "none"]
    /\ told = [e \in Entry |-> 0]
    /\ desk = [d \in Desk |-> IdleDesk] /\ notes = [e \in Entry |-> <<>>]
    /\ losses = 0

Pending == {e \in Entry : outbox[e] = "pending"}
Entered == {e \in Entry : outbox[e] # "absent" \/ e \in keyless}

\* Slots are alike: any free one will do.
Free  == {r \in Slot : request[r] = Nil}
ASlot == CHOOSE r \in Free : TRUE

Post(e) == [entry |-> e, at |-> "verify", deduped |-> FALSE, code |-> "none"]

--------------------------------------------------------------------------------
(* The phone.                                                               *)

\* Online with no backlog the browser posts the form, without a key.
SubmitForm(e) ==
    /\ e \notin Entered
    /\ Pending = {}
    /\ Free # {}
    /\ request' = [request EXCEPT ![ASlot] = Post(e)]
    /\ keyless' = keyless \cup {e}
    /\ UNCHANGED <<outbox, tab, link, stored, status, told, desk, notes, losses>>

\* Offline or behind a backlog it is kept on the phone under a key of its own.
Queue(e) ==
    /\ e \notin Entered
    /\ outbox' = [outbox EXCEPT ![e] = "pending"]
    /\ UNCHANGED <<keyless, tab, request, link, stored, status, told, desk, notes, losses>>

\* A trigger: the page opened, the signal back, the page visible again.
Flush(t) ==
    /\ ~tab[t].flushing
    /\ Pending # {}
    /\ tab' = [tab EXCEPT ![t] = [Quiet EXCEPT !.flushing = TRUE, !.todo = Pending]]
    /\ UNCHANGED <<outbox, keyless, request, link, stored, status, told, desk, notes, losses>>

\* getAll returns the entries by key, and the keys are random.
Send(t) ==
    /\ tab[t].flushing /\ tab[t].awaits = Nil
    /\ Free # {}
    /\ \E e \in tab[t].todo :
          /\ request' = [request EXCEPT ![ASlot] = Post(e)]
          /\ tab' = [tab EXCEPT ![t].awaits = ASlot, ![t].todo = @ \ {e}]
    /\ UNCHANGED <<outbox, keyless, link, stored, status, told, desk, notes, losses>>

FlushEnds(t) ==
    /\ tab[t].flushing /\ tab[t].awaits = Nil /\ tab[t].todo = {}
    /\ tab' = [tab EXCEPT ![t] = Quiet]
    /\ UNCHANGED <<outbox, keyless, request, link, stored, status, told, desk, notes, losses>>

\* mutant: a limited answer counts as delivered
HeardAnyway(code) == IF code \in {"ok", "later"} THEN "deleted" ELSE "failed"

\* mutant: a refusal is tried again
HeardAgain(code) == IF code = "ok" THEN "deleted" ELSE "pending"

\* What an answer does to the queued entry; a refusal is shown, never dropped.
Heard(code) == IF code = "ok" THEN "deleted" ELSE IF code = "later" THEN "pending" ELSE "failed"

\* The entry is put back as it was read when the flush began: a put after another
\* tab's delete brings it back.
Receive(t) ==
    LET r == tab[t].awaits
    IN  /\ r # Nil /\ request[r].at = "answer"
        /\ outbox' = [outbox EXCEPT ![request[r].entry] =
                        IF Heard(request[r].code) = "pending" THEN @ ELSE Heard(request[r].code)]
        /\ tab' = [tab EXCEPT ![t] = IF request[r].code = "later" THEN Quiet
                                     ELSE [@ EXCEPT !.awaits = Nil]]
        /\ request' = [request EXCEPT ![r] = Nil]
        /\ UNCHANGED <<keyless, link, stored, status, told, desk, notes, losses>>

\* The fetch fails while its request is on the way, at work or answered, or the page
\* is closed: the server goes on without a listener, or never hears of it.
Lose(t) ==
    /\ losses < MaxLoss
    /\ losses' = losses + 1
    /\ tab[t].awaits # Nil
    /\ tab' = [tab EXCEPT ![t] = Quiet]
    /\ \/ UNCHANGED request
       \/ /\ request[tab[t].awaits].at = "verify"
          /\ request' = [request EXCEPT ![tab[t].awaits] = Nil]
    /\ UNCHANGED <<outbox, keyless, link, stored, status, told, desk, notes>>

--------------------------------------------------------------------------------
(* The server: POST of the entries route.                                   *)

Listening(r) == \E t \in Tab : tab[t].awaits = r

Verify(r) ==
    /\ request[r] # Nil /\ request[r].at = "verify"
    /\ request' = [request EXCEPT ![r] = IF link = "open" THEN [@ EXCEPT !.at = "insert"]
                                         ELSE [@ EXCEPT !.at = "answer", !.code = "refused"]]
    /\ UNCHANGED <<outbox, keyless, tab, link, stored, status, told, desk, notes, losses>>

\* mutant: the insert has no conflict target
AlwaysNew(e) == TRUE

\* ON CONFLICT (client_entry_id) DO NOTHING; an entry without a key never conflicts.
IsNew(e) == e \in keyless \/ stored[e] = 0

\* addFieldEntry; what is not a change order needs no decision.
Insert(r) ==
    /\ request[r] # Nil /\ request[r].at = "insert"
    /\ LET e == request[r].entry
       IN  /\ stored' = [stored EXCEPT ![e] = IF IsNew(e) THEN @ + 1 ELSE @]
           /\ status' = [status EXCEPT ![e] = IF ~IsNew(e) THEN @ ELSE
                           IF e \in ChangeOrder THEN "submitted" ELSE "approved"]
           /\ request' = [request EXCEPT ![r].at = "notify", ![r].deduped = ~IsNew(e)]
    /\ UNCHANGED <<outbox, keyless, tab, link, told, desk, notes, losses>>

\* mutant: a replay is told again
TellsAlways(q) == q.entry \in ChangeOrder

\* Change orders are money, and a replay was told before.
Tells(q) == q.entry \in ChangeOrder /\ ~q.deduped

Notify(r) ==
    /\ request[r] # Nil /\ request[r].at = "notify"
    /\ told' = [told EXCEPT ![request[r].entry] = IF Tells(request[r]) THEN @ + 1 ELSE @]
    /\ request' = [request EXCEPT ![r] = [@ EXCEPT !.at = "answer", !.code = "ok"]]
    /\ UNCHANGED <<outbox, keyless, tab, link, stored, status, desk, notes, losses>>

\* An answer nobody waits for.
Vanish(r) ==
    /\ request[r] # Nil /\ request[r].at = "answer" /\ ~Listening(r)
    /\ request' = [request EXCEPT ![r] = Nil]
    /\ UNCHANGED <<outbox, keyless, tab, link, stored, status, told, desk, notes, losses>>

\* The limiter, or a statement that fails: 429 or 500, both "later" to the phone.
Fail(r) ==
    /\ losses < MaxLoss
    /\ losses' = losses + 1
    /\ request[r] # Nil /\ request[r].at # "answer"
    /\ request' = [request EXCEPT ![r] = [@ EXCEPT !.at = "answer", !.code = "later"]]
    /\ UNCHANGED <<outbox, keyless, tab, link, stored, status, told, desk, notes>>

\* revokeFieldLink, or the link's last day is over.
Revoke ==
    /\ link = "open"
    /\ link' = "gone"
    /\ UNCHANGED <<outbox, keyless, tab, request, stored, status, told, desk, notes, losses>>

--------------------------------------------------------------------------------
(* decideChangeOrder.                                                       *)

Pick(d, e) ==
    /\ desk[d] = IdleDesk
    /\ e \in ChangeOrder /\ stored[e] > 0
    /\ desk' = [desk EXCEPT ![d] = [IdleDesk EXCEPT !.pc = "update", !.entry = e]]
    /\ UNCHANGED <<outbox, keyless, tab, request, link, stored, status, told, notes, losses>>

\* mutant: the update does not ask whether the order was decided
AnyStatus(e) == TRUE

Undecided(e) == status[e] = "submitted"

DecideOrder(d) ==
    /\ desk[d].pc = "update"
    /\ IF Undecided(desk[d].entry)
         THEN \E v \in Decision :
              /\ status' = [status EXCEPT ![desk[d].entry] = v]
              /\ desk' = [desk EXCEPT ![d].pc = "note", ![d].verdict = v]
         ELSE /\ desk' = [desk EXCEPT ![d] = IdleDesk]
              /\ UNCHANGED status
    /\ UNCHANGED <<outbox, keyless, tab, request, link, stored, told, notes, losses>>

Note(d) ==
    /\ desk[d].pc = "note"
    /\ notes' = [notes EXCEPT ![desk[d].entry] = Append(@, desk[d].verdict)]
    /\ desk' = [desk EXCEPT ![d] = IdleDesk]
    /\ UNCHANGED <<outbox, keyless, tab, request, link, stored, status, told, losses>>

--------------------------------------------------------------------------------
Phone(t)  == Flush(t) \/ Send(t) \/ FlushEnds(t) \/ Receive(t)
Server(r) == Verify(r) \/ Insert(r) \/ Notify(r) \/ Vanish(r)

FieldNext ==
    \/ \E e \in Entry : SubmitForm(e) \/ Queue(e)
    \/ \E t \in Tab : Phone(t) \/ Lose(t)
    \/ \E r \in Slot : Server(r) \/ Fail(r)
    \/ Revoke
    \/ \E d \in Desk : DecideOrder(d) \/ Note(d) \/ \E e \in Entry : Pick(d, e)

FieldSpec == FieldInit /\ [][FieldNext]_fieldVars

\* The page is opened again and the triggers come back; a server works on what
\* arrived.  Nobody has to decide.
FieldFairSpec == /\ FieldSpec
                 /\ \A t \in Tab : WF_fieldVars(Phone(t))
                 /\ \A r \in Slot : WF_fieldVars(Server(r))

--------------------------------------------------------------------------------
\* What a crew typed survives: a queue entry goes only when the server has the row,
\* also when its answer is lost or another tab repeats it (offline-client.tsx:90-126,
\* addFieldEntry).
NothingLost == \A e \in Entry : outbox[e] = "deleted" => stored[e] > 0

\* However often the outbox repeats an entry, over lost answers and from two tabs, it
\* is one row, and its owner is told of a change order once (field.ts:200-232,
\* entries/route.ts:76-98).
OneRowOneMail == \A e \in Entry : stored[e] <= 1 /\ told[e] <= 1

\* Two decisions cannot both land: a change order has at most one note, of the verdict
\* its row keeps, and none before it is decided (decideChangeOrder, field.ts:235-266).
DecidedOnce == \A e \in Entry : notes[e] # <<>> => notes[e] = <<status[e]>>

\* What a crew typed survives, once, and is decided once (field.ts:165-266,
\* offline-client.tsx:90-126).
CrewWordsSurvive == FieldTypeOK /\ NothingLost /\ OneRowOneMail /\ DecidedOnce

\* The outbox drains: a queued entry is stored or refused in the end, when the signal
\* comes back and losses stop (flush, offline-client.tsx:90-135).
OutboxDrains == \A e \in Entry : outbox[e] = "pending" ~> outbox[e] # "pending"
================================================================================
