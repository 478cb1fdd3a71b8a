-------------------------------- MODULE Registry --------------------------------
(***************************************************************************)
(* The exchange with the partner registry                                  *)
(* (resolution/registry-observations.ts, registry-link.ts, identifiers.ts): *)
(* organizations are linked to registry entities by their strong keys, a    *)
(* generation pass queues what else it finds as observations, people decide *)
(* them, and what was accepted for export is pushed to the partner's        *)
(* database.  No function uses a transaction: every statement is a step, by *)
(* the nightly chain, by an operator's strict-bind and by reviewers at      *)
(* once.                                                                    *)
(*                                                                          *)
(* Which candidates a pass finds for an organization, and which of them     *)
(* clear the strict gate, is what RegistryMatch computes: here it is any    *)
(* member of Offers.  The evidence of a pass is a number that Change raises. *)
(***************************************************************************)
EXTENDS Integers, Sequences

CONSTANTS
    Org, Entity,
    Offers,         \* [Org -> the sets of candidates <<entity, strict>> a pass may find]
    Licensed,       \* entities whose brand licence is known
    Filed,          \* [Org -> the entities the UBI on its permits may belong to, or None]
    Pair,           \* entities that are the smaller one of a pair somebody may relate
    Histories,      \* the sets of rules whose reviewed history may have earned auto-accept
    Chain,          \* the nightly process: link, generate, export
    Operator,       \* processes that only generate (cli/strict-bind.ts)
    Reviewer,       \* requests that decide an observation
    MaxEvidence, MaxDecision, MaxBreak,   \* bounds
    None

Pass == {Chain} \cup Operator

ASSUME RegistryAssumption ==
    /\ Offers \in [Org -> SUBSET SUBSET (Entity \X BOOLEAN)]
    /\ Licensed \subseteq Entity
    /\ Filed \in [Org -> SUBSET (Entity \cup {None})]
    /\ Pair \subseteq Entity /\ None \notin Entity
    /\ Histories \subseteq SUBSET {"phone", "alias_export"}
    /\ Pass \cap Reviewer = {}
    /\ MaxEvidence \in Nat \ {0} /\ MaxDecision \in Nat /\ MaxBreak \in Nat

VARIABLES
    evidence,   \* the state of the sources a pass reads
    org,        \* organizations: registry_ref and the entities its keys belong to
    rows,       \* registry_observations by dedupe key
    contacts,   \* organization_contacts: the public numbers adopted from an entity
    partner,    \* partner_observations by dedupe key: the evidence they hold
    pass,       \* what each generating process is doing
    review,     \* what each request is doing
    decided, breaks

registryVars == <<evidence, org, rows, contacts, partner, pass, review, decided, breaks>>

Exported == {"alias_export", "relationship_export"}
\* An observation about an organization and an entity; a relationship is keyed by
\* its pair of entities alone, named here by the smaller one.
Key      == [type : {"binding", "phone", "alias_export"}, org : Org, entity : Entity]
            \cup [type : {"relationship_export"}, org : {None}, entity : Pair]

Organization == [ref : Entity \cup {None}, ubi : Entity \cup {None},
                 licence : Entity \cup {None}]
Observation == [status : {"pending", "accepted", "rejected"}, by : {"nobody", "auto", "human"},
                seen : 1..MaxEvidence, exported : BOOLEAN]

ASSUME NoneIsNoRow ==
    None \notin Key /\ None \notin Observation /\ None \notin 1..MaxEvidence

IdlePass   == [pc |-> "idle", todo |-> {}, item |-> None, seen |-> 1, proven |-> {}]
IdleReview == [todo |-> <<>>, key |-> None, verdict |-> "accepted"]

RegistryTypeOK ==
    /\ evidence \in 1..MaxEvidence
    /\ org \in [Org -> Organization]
    /\ rows \in [Key -> Observation \cup {None}]
    /\ contacts \subseteq Org \X Entity
    /\ partner \in [Key -> 1..MaxEvidence \cup {None}]
    /\ \A p \in Pass :
          /\ pass[p].pc \in {"idle", "link", "generate", "exports", "persist", "bind", "ubi",
                             "licence", "send", "mark"}
          /\ pass[p].seen \in 1..MaxEvidence /\ pass[p].proven \subseteq {"phone", "alias_export"}
    /\ \A q \in Reviewer :
          /\ review[q].todo \in Seq({"bind", "ubi", "licence", "contact", "write"})
          /\ review[q].key \in Key \cup {None} /\ review[q].verdict \in {"accepted", "rejected"}
    /\ decided \in 0..MaxDecision /\ breaks \in 0..MaxBreak

RegistryInit ==
    /\ evidence = 1
    /\ org \in [Org -> [ref : {None}, ubi : UNION {Filed[o] : o \in Org}, licence : {None}]]
    /\ \A o \in Org : org[o].ubi \in Filed[o]
    /\ rows = [k \in Key |-> None]
    /\ contacts = {}
    /\ partner = [k \in Key |-> None]
    /\ pass = [p \in Pass |-> IdlePass]
    /\ review = [q \in Reviewer |-> IdleReview]
    /\ decided = 0 /\ breaks = 0

--------------------------------------------------------------------------------
(* Accepting a binding: three statements, here as functions of the          *)
(* organization's row.                                                      *)

Bound(o, e) == IF o.ref = None THEN [o EXCEPT !.ref = e] ELSE o

\* backfeedAcceptedIdentity fills what is NULL, bound or not.
WithUbi(o, e)     == IF o.ubi = None THEN [o EXCEPT !.ubi = e] ELSE o
WithLicence(o, e) ==
    IF o.licence = None /\ e \in Licensed THEN [o EXCEPT !.licence = e] ELSE o

Given(pc, o, e) ==
    IF pc = "bind" THEN Bound(o, e) ELSE IF pc = "ubi" THEN WithUbi(o, e) ELSE WithLicence(o, e)

Accepting(pc, k) == org' = [org EXCEPT ![k.org] = Given(pc, @, k.entity)]

AfterAccepting(pc) == IF pc = "bind" THEN "ubi" ELSE IF pc = "ubi" THEN "licence" ELSE "persist"

--------------------------------------------------------------------------------
(* linkRegistry.                                                            *)

\* The organizations without a link are selected with their keys, once.
StartNight ==
    /\ pass[Chain].pc = "idle"
    /\ pass' = [pass EXCEPT ![Chain] = [IdlePass EXCEPT
         !.pc = "link",
         !.todo = {[of |-> o, ubi |-> org[o].ubi, licence |-> org[o].licence] :
                     o \in {x \in Org : /\ org[x].ref = None
                                        /\ {org[x].ubi, org[x].licence} # {None}}}]]
    /\ UNCHANGED <<evidence, org, rows, contacts, partner, review, decided, breaks>>

\* The entity two keys agree on; a conflict links nothing.
Matched(ubi, licence) ==
    IF ubi = None THEN licence
    ELSE IF licence \in {None, ubi} THEN ubi ELSE None

\* The update asks only whether the link differs, not whether there is one now.
LinkOne ==
    /\ pass[Chain].pc = "link"
    /\ \E t \in pass[Chain].todo :
          /\ org' = [org EXCEPT ![t.of].ref =
                       IF Matched(t.ubi, t.licence) = None THEN @ ELSE Matched(t.ubi, t.licence)]
          /\ pass' = [pass EXCEPT ![Chain].todo = @ \ {t}]
    /\ UNCHANGED <<evidence, rows, contacts, partner, review, decided, breaks>>

LinkEnds ==
    /\ pass[Chain].pc = "link"
    /\ pass[Chain].todo = {}
    /\ pass' = [pass EXCEPT ![Chain].pc = "generate"]
    /\ UNCHANGED <<evidence, org, rows, contacts, partner, review, decided, breaks>>

--------------------------------------------------------------------------------
(* generateRegistryObservations.                                            *)

\* The rule history and the candidates of unbound organizations.  Which rules
\* have a proven history is any set: it depends on decisions of other rows.
Generate(p) ==
    /\ pass[p].pc = "generate" \/ (p \in Operator /\ pass[p].pc = "idle")
    /\ \E offer \in [Org -> UNION {Offers[o] : o \in Org}], proven \in Histories :
          /\ \A o \in Org : offer[o] \in Offers[o]
          /\ pass' = [pass EXCEPT ![p] = [IdlePass EXCEPT
               !.pc = "exports", !.seen = evidence, !.proven = proven,
               !.todo = UNION {
                 {[key |-> [type |-> "binding", org |-> o, entity |-> c[1]], strict |-> c[2]] :
                    c \in offer[o]} : o \in {x \in Org : org[x].ref = None}}]]
    /\ UNCHANGED <<evidence, org, rows, contacts, partner, review, decided, breaks>>

\* What bound organizations have to offer: the registry's phone, the name the
\* registry does not know.  (trade_export goes the way of alias_export.)
GenerateForBound(p) ==
    /\ pass[p].pc = "exports"
    /\ pass' = [pass EXCEPT ![p].pc = "persist", ![p].todo = @ \cup
         {[key |-> [type |-> t, org |-> o, entity |-> org[o].ref], strict |-> FALSE] :
            t \in {"phone", "alias_export"}, o \in {x \in Org : org[x].ref # None}}]
    /\ UNCHANGED <<evidence, org, rows, contacts, partner, review, decided, breaks>>

\* mutant: the upserts do not ask whether the row was decided
MayRewriteAny(k) == TRUE

\* ON CONFLICT ... WHERE status = 'pending' (AND decided_at IS NULL).
MayRewrite(k) == rows[k] # None => rows[k].status = "pending"

\* The strict tier: the row is accepted first, the organization bound after.
PersistStrict(p, item) ==
    LET k == item.key
    IN  /\ item.strict
        /\ \/ /\ MayRewrite(k)
              /\ rows' = [rows EXCEPT ![k] =
                   [status |-> "accepted", by |-> "auto", exported |-> FALSE,
                    seen |-> IF rows[k] = None THEN pass[p].seen ELSE rows[k].seen]]
              /\ pass' = [pass EXCEPT ![p].todo = @ \ {item}, ![p].item = k, ![p].pc = "bind"]
           \/ /\ ~MayRewrite(k)
              /\ pass' = [pass EXCEPT ![p].todo = @ \ {item}]
              /\ UNCHANGED rows

\* Everything else is queued, or accepted when its rule has earned it.
PersistQueued(p, item) ==
    LET k == item.key
        auto == k.type # "binding" /\ k.type \in pass[p].proven
    IN  /\ ~item.strict
        /\ pass' = [pass EXCEPT ![p].todo = @ \ {item}]
        /\ \/ /\ rows[k] = None
              /\ rows' = [rows EXCEPT ![k] =
                   [status |-> IF auto THEN "accepted" ELSE "pending",
                    by |-> IF auto THEN "auto" ELSE "nobody",
                    seen |-> pass[p].seen, exported |-> FALSE]]
           \/ /\ rows[k] # None /\ MayRewrite(k)
              /\ rows' = [rows EXCEPT ![k].seen = pass[p].seen]
           \/ /\ ~MayRewrite(k)
              /\ UNCHANGED rows

\* The candidates lie in an array in this order of types.
Position == [binding |-> 1, phone |-> 2, alias_export |-> 3]
First(items) == {i \in items : \A j \in items : Position[i.key.type] <= Position[j.key.type]}

Persist(p) ==
    /\ pass[p].pc = "persist"
    /\ \E item \in First(pass[p].todo) : PersistStrict(p, item) \/ PersistQueued(p, item)
    /\ UNCHANGED <<evidence, org, contacts, partner, review, decided, breaks>>

StrictBind(p) ==
    /\ pass[p].pc \in {"bind", "ubi", "licence"}
    /\ Accepting(pass[p].pc, pass[p].item)
    /\ pass' = [pass EXCEPT ![p].pc = AfterAccepting(@),
                            ![p].item = IF pass[p].pc = "licence" THEN None ELSE @]
    /\ UNCHANGED <<evidence, rows, contacts, partner, review, decided, breaks>>

--------------------------------------------------------------------------------
(* exportRegistryObservations.                                              *)

\* mutant: the select takes only what a person accepted
PeoplesChoice == {k \in Key : k.type \in Exported /\ rows[k] # None /\ rows[k].status = "accepted"
                              /\ ~rows[k].exported /\ rows[k].by = "human"}

\* The select: accepted and not yet marked, whatever night it was accepted.
Unsent == {k \in Key : k.type \in Exported /\ rows[k] # None /\ rows[k].status = "accepted"
                       /\ ~rows[k].exported}

\* The end of a generation: the chain selects what is accepted and not yet
\* exported, an operator's pass is over.
GenerateEnds(p) ==
    /\ pass[p].pc = "persist"
    /\ pass[p].todo = {}
    /\ pass' = [pass EXCEPT ![p] =
         IF p = Chain
           THEN [IdlePass EXCEPT !.pc = "send", !.todo = Unsent]
           ELSE IdlePass]
    /\ UNCHANGED <<evidence, org, rows, contacts, partner, review, decided, breaks>>

\* mutant: the local mark is written before the partner's row
FirstMark == <<"mark", "send">>

\* The two databases are written in this order.
FirstSend == <<"send", "mark">>

\* The partner's insert does nothing when its dedupe key is there.  Which row is
\* sent was decided by the select: it carries the evidence read there, which a
\* decided row keeps.
Insert(k) == partner' = [partner EXCEPT ![k] = IF @ = None THEN rows[k].seen ELSE @]
Mark(k)   == rows' = [rows EXCEPT ![k].exported = TRUE]

ExportOne(k) ==
    /\ pass[Chain].pc = "send"
    /\ k \in pass[Chain].todo
    /\ IF FirstSend[1] = "send" THEN Insert(k) /\ UNCHANGED rows
                                ELSE Mark(k) /\ UNCHANGED partner
    /\ pass' = [pass EXCEPT ![Chain].pc = "mark", ![Chain].item = k]
    /\ UNCHANGED <<evidence, org, contacts, review, decided, breaks>>

MarkExported ==
    /\ pass[Chain].pc = "mark"
    /\ IF FirstSend[2] = "mark" THEN Mark(pass[Chain].item) /\ UNCHANGED partner
                                ELSE Insert(pass[Chain].item) /\ UNCHANGED rows
    /\ pass' = [pass EXCEPT ![Chain].pc = "send", ![Chain].todo = @ \ {pass[Chain].item},
                            ![Chain].item = None]
    /\ UNCHANGED <<evidence, org, contacts, review, decided, breaks>>

NightEnds ==
    /\ pass[Chain].pc = "send"
    /\ pass[Chain].todo = {}
    /\ pass' = [pass EXCEPT ![Chain] = IdlePass]
    /\ UNCHANGED <<evidence, org, rows, contacts, partner, review, decided, breaks>>

--------------------------------------------------------------------------------
(* decideRegistryObservation: the row is read, the effect of an acceptance is  *)
(* applied, the verdict is written, whatever the row has become meanwhile.     *)

\* What an acceptance changes, in order; an export waits for the night.
Effects(k) == IF k.type = "binding" THEN <<"bind", "ubi", "licence">>
              ELSE IF k.type = "phone" THEN <<"contact">> ELSE <<>>

\* mutant: the verdict of an acceptance is written before its effect
VerdictFirst(k) == <<"write">> \o Effects(k)

Statements(k) == Append(Effects(k), "write")

Look(q) ==
    /\ review[q] = IdleReview
    /\ decided < MaxDecision
    /\ \E k \in Key, verdict \in {"accepted", "rejected"} :
          /\ rows[k] # None /\ rows[k].status = "pending"
          /\ review' = [review EXCEPT ![q] =
               [todo |-> IF verdict = "accepted" THEN Statements(k) ELSE <<"write">>,
                key |-> k, verdict |-> verdict]]
    /\ decided' = decided + 1
    /\ UNCHANGED <<evidence, org, rows, contacts, partner, pass, breaks>>

Written(q) == review' = [review EXCEPT ![q] =
    IF Len(review[q].todo) = 1 THEN IdleReview
    ELSE [review[q] EXCEPT !.todo = Tail(review[q].todo)]]

Turn(q, step) == review[q].todo # <<>> /\ Head(review[q].todo) = step

ApplyBinding(q) ==
    /\ \E pc \in {"bind", "ubi", "licence"} : Turn(q, pc) /\ Accepting(pc, review[q].key)
    /\ Written(q)
    /\ UNCHANGED <<evidence, rows, contacts, partner, pass, decided, breaks>>

\* INSERT ... WHERE NOT EXISTS.
CreateContact(q) ==
    /\ Turn(q, "contact")
    /\ contacts' = contacts \cup {<<review[q].key.org, review[q].key.entity>>}
    /\ Written(q)
    /\ UNCHANGED <<evidence, org, rows, partner, pass, decided, breaks>>

WriteVerdict(q) ==
    /\ Turn(q, "write")
    /\ rows' = [rows EXCEPT ![review[q].key].status = review[q].verdict,
                            ![review[q].key].by = "human"]
    /\ Written(q)
    /\ UNCHANGED <<evidence, org, contacts, partner, pass, decided, breaks>>

\* recordRelationshipAcceptance: a click is the row, accepted when it is written.
RecordRelationship(k) ==
    /\ k.type = "relationship_export"
    /\ rows[k] = None
    /\ decided < MaxDecision
    /\ decided' = decided + 1
    /\ rows' = [rows EXCEPT ![k] = [status |-> "accepted", by |-> "human", seen |-> evidence,
                                   exported |-> FALSE]]
    /\ UNCHANGED <<evidence, org, contacts, partner, pass, review, breaks>>

--------------------------------------------------------------------------------
\* The permits and the registry's tables move on.
Change ==
    /\ evidence < MaxEvidence
    /\ evidence' = evidence + 1
    /\ UNCHANGED <<org, rows, contacts, partner, pass, review, decided, breaks>>

\* A pass or a request dies, or one of its statements fails for good.
Break ==
    /\ breaks < MaxBreak
    /\ breaks' = breaks + 1
    /\ \/ \E p \in Pass : /\ pass[p] # IdlePass
                         /\ pass' = [pass EXCEPT ![p] = IdlePass]
                         /\ UNCHANGED review
       \/ \E q \in Reviewer : /\ review[q] # IdleReview
                             /\ review' = [review EXCEPT ![q] = IdleReview]
                             /\ UNCHANGED pass
    /\ UNCHANGED <<evidence, org, rows, contacts, partner, decided>>

RegistryNext ==
    \/ StartNight \/ LinkOne \/ LinkEnds \/ MarkExported \/ NightEnds
    \/ \E p \in Pass : \/ Generate(p) \/ GenerateForBound(p) \/ Persist(p) \/ StrictBind(p)
                      \/ GenerateEnds(p)
    \/ \E k \in Key : ExportOne(k) \/ RecordRelationship(k)
    \/ \E q \in Reviewer : Look(q) \/ ApplyBinding(q) \/ CreateContact(q) \/ WriteVerdict(q)
    \/ Change \/ Break

RegistrySpec == RegistryInit /\ [][RegistryNext]_registryVars

\* The queue starts the nightly chain every night, and a step of it that can be
\* taken is.  Nobody has to review anything and no operator has to come.
Night ==
    \/ StartNight \/ LinkOne \/ LinkEnds \/ MarkExported \/ NightEnds
    \/ Generate(Chain) \/ GenerateForBound(Chain) \/ Persist(Chain) \/ StrictBind(Chain)
    \/ GenerateEnds(Chain) \/ \E k \in Key : ExportOne(k)

RegistryFairSpec == RegistrySpec /\ WF_registryVars(Night)

--------------------------------------------------------------------------------
Row(k, status) == rows[k] # None /\ rows[k].status = status

\* A decision is final for the machines and its evidence is frozen: only a request
\* that had read the row before may write it again, and no pass rescores, promotes or
\* reopens a row that was accepted or rejected (the two guarded upserts of
\* generateRegistryObservations, registry-observations.ts:1716-1790).
VerdictStands ==
    [][\A k \in Key : rows[k] # None /\ rows[k].status # "pending" =>
          /\ rows'[k].seen = rows[k].seen
          /\ rows'[k].exported \/ ~rows[k].exported
          /\ rows'[k].status # rows[k].status \/ rows'[k].by # rows[k].by =>
                \E q \in Reviewer : review[q].key = k /\ rows'[k].by = "human"]_registryVars

\* What the log says was done was done: a binding a person accepted left its
\* organization bound, a phone a person accepted is among its contacts, and what
\* counts as exported is in the partner's table with the evidence of the decision, in
\* spite of deaths and of two people deciding at once (2122-2182, 2321-2375).
AcceptedTakesEffect ==
    /\ RegistryTypeOK
    /\ \A k \in Key : rows[k] # None =>
         /\ rows[k].exported => partner[k] = rows[k].seen
         /\ rows[k].status = "accepted" /\ rows[k].by = "human" =>
              /\ k.type = "binding" => org[k.org].ref # None
              /\ k.type = "phone" => <<k.org, k.entity>> \in contacts

\* What is accepted for export reaches the partner, however often a night dies half
\* way, unless a person takes the verdict back: the select finds again what was not
\* marked, and sending it twice does nothing (2303-2375).
AcceptedGetsExported ==
    \A k \in {j \in Key : j.type \in Exported} :
        Row(k, "accepted") ~> partner[k] # None \/ Row(k, "rejected")
================================================================================
