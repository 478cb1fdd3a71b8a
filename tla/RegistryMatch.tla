----------------------------- MODULE RegistryMatch -----------------------------
(***************************************************************************)
(* Who an unlinked organization may be                                      *)
(* (resolution/registry-observations.ts, registry-identifiers.ts): a pass   *)
(* takes every organization down a ladder of rules, from its name to a name *)
(* that contains it, and stops at the first that finds an entity; a name    *)
(* that several entities bear becomes one row for each of them.  What is    *)
(* found is scored, kept if the score clears the floor, and bound at once if *)
(* the strict gate holds: first the row is accepted, by one statement, then  *)
(* the organization bound, by another.  A person's decision is a request that *)
(* reads the row, binds, and writes the verdict, with anything in between.   *)
(*                                                                         *)
(* A name stands for its cross-system key; how alike two names are is a     *)
(* constant.  Scores are in percent, trust in thousandths.  The registry's  *)
(* tables and the permits move between passes: what happens when they move  *)
(* during one, and everything an acceptance does, is in Registry.           *)
(***************************************************************************)
EXTENDS Integers, FiniteSets, FiniteSetsExt

CONSTANTS
    Org, Name, Phone,
    Firms,              \* the entities, as a number in the order of their ids
    OneWord,            \* names with a single token
    Person,             \* names shaped like a person's
    Public,             \* names of public bodies
    Alike,              \* [Name \X Name -> 0..100]: nameSimilarity
    Within,             \* pairs of names one of which contains the other
    Includes,           \* pairs of place names of which the first contains the second
    Vouched,            \* phones and domains the identifier graph calls strong
    Registrations,      \* [Firms -> what the registry may say of an entity]
    Evidences,          \* what the permits may say of an organization
    Reviewer,           \* people's requests to decide a row, each one at a time
    Fanout,             \* AMBIGUOUS_FANOUT_CAP
    Learned,            \* MIN_HUMAN_DECISIONS
    MaxPass, MaxDecision, MaxDeath,   \* bounds
    Absent

Entity == 1..Firms
Pair   == Org \X Entity
Rules == {"name_exact", "name_phone", "single_token", "ambiguous", "phone", "google_phone",
          "address", "domain", "alias", "containment"}

\* A row of registry_observations.
Observation == [rule : Rules, of : 1..Firms, trust : 0..1000,
                locality : 0..100, status : {"pending", "accepted", "rejected"},
                by : {"nobody", "auto", "human"}, pass : 1..MaxPass]

\* A request under way to decide a row.
Decision == [pair : Pair, verdict : {"accepted", "rejected"}, pc : {"bind", "write"}]

ASSUME RegistryMatchAssumption ==
    /\ IsFiniteSet(Org)
    /\ Firms \in Nat \ {0} /\ Fanout \in Nat \ {0} /\ Learned \in Nat \ {0}
    /\ MaxPass \in Nat /\ MaxDecision \in Nat /\ MaxDeath \in Nat
    /\ OneWord \cup Person \cup Public \subseteq Name
    /\ Alike \in [Name \X Name -> 0..100] /\ \A n \in Name : Alike[<<n, n>>] = 100
    /\ Within \subseteq Name \X Name
    /\ \A e \in Entity : \A r \in Registrations[e] :
          /\ r.name \in Name /\ r.phone \in Phone \cup {Absent}
          /\ {r.records, r.strong, r.weak} \subseteq Nat
    /\ \A f \in Evidences :
          /\ f.name \in Name /\ f.phones \subseteq Phone
          /\ f.role \in 0..100 /\ f.records \in Nat
    /\ Absent \notin Entity \cup Observation \cup Decision \cup Pair

VARIABLES
    reg,        \* the registry contract: a row for each entity
    known,      \* what is known of each organization
    bound,      \* organizations.registry_ref
    rows,       \* registry_observations of type binding_name_match, by organization and entity
    pass,       \* what the generating pass is doing, the row it has just accepted
    review,     \* the decision each reviewer's request is making
    refused,    \* history: the rows a person turned down
    crossed,    \* history: the rows a pass accepted while a request that had read them ran
    passes, decided, deaths

matchVars == <<reg, known, bound, rows, pass, review, refused, crossed, passes, decided, deaths>>

Resting == [pc |-> "idle", todo |-> {}, item |-> Absent]

MatchTypeOK ==
    /\ reg \in [Entity -> UNION {Registrations[e] : e \in Entity}]
    /\ \A e \in Entity : reg[e] \in Registrations[e]
    /\ known \in [Org -> Evidences]
    /\ bound \in [Org -> Entity \cup {Absent}]
    /\ rows \in [Pair -> Observation \cup {Absent}]
    /\ pass.pc \in {"idle", "persist", "bind", "died"} /\ pass.item \in Pair \cup {Absent}
    /\ review \in [Reviewer -> Decision \cup {Absent}]
    /\ refused \subseteq Pair /\ crossed \subseteq Pair
    /\ passes \in 0..MaxPass /\ decided \in 0..MaxDecision /\ deaths \in 0..MaxDeath

MatchInit ==
    /\ reg \in {f \in [Entity -> UNION {Registrations[e] : e \in Entity}] :
                  \A e \in Entity : f[e] \in Registrations[e]}
    /\ known \in [Org -> Evidences]
    /\ bound = [o \in Org |-> Absent]
    /\ rows = [p \in Pair |-> Absent]
    /\ pass = Resting
    /\ review = [q \in Reviewer |-> Absent] /\ refused = {} /\ crossed = {}
    /\ passes = 0 /\ decided = 0 /\ deaths = 0

--------------------------------------------------------------------------------
(* The indexes over the registry's rows: what only one entity has finds it. *)

Bearers(n) == {e \in Entity : n = reg[e].name \/ n \in reg[e].aliases}
Listed(p)  == {e \in Entity : reg[e].phone = p}
Only(S)    == IF Cardinality(S) = 1 THEN S ELSE {}

ByPhone(p)  == Only(Listed(p))
\* A Google number that is any other entity's registered phone finds nobody.
ByGoogle(p) == {e \in Only({x \in Entity : reg[x].google = p}) : Listed(p) \subseteq {e}}
ByDomain(d) == Only({e \in Entity : reg[e].domain = d})
ByAddress(a) == {e \in Entity : a \in reg[e].addresses}

--------------------------------------------------------------------------------
(* Scores.                                                                  *)

Similarity(o, e) == Alike[<<known[o].name, reg[e].name>>]

AgreementFor(v) == IF v \in Vouched THEN "strong" ELSE "weak"

\* How the organization's phones stand to an entity found by another way.
PhoneAgrees(o, e) == reg[e].phone # Absent /\ reg[e].phone \in known[o].phones
PhoneEvidence(o, e) ==
    CASE known[o].phones = {} -> "none"
      [] PhoneAgrees(o, e)    -> AgreementFor(reg[e].phone)
      [] OTHER                -> "contradicts"

\* A place the organization's permits name contains the entity's city.
SameCity(o, e) ==
    reg[e].city # Absent /\ \E place \in known[o].cities : <<place, reg[e].city>> \in Includes

GradeLocality(o, e) ==
    CASE SameCity(o, e)                                         -> 100
      [] reg[e].county = Absent \/ known[o].counties = {}        -> 30
      [] reg[e].county \in known[o].counties                    -> 60
      [] OTHER                                                  -> 15

\* Without a word from the organization, how well the entity itself is pinned down:
\* its row's own strong and weak identifiers, and Google's confirmation.
GradeFootprint(r) ==
    CASE r.confirmed /\ r.crossed   -> 70
      [] r.strong = 0 /\ r.weak = 0 -> 30
      [] r.strong >= 3              -> 60
      [] r.strong > 0               -> 50
      [] OTHER                      -> 35

GradeIdentifier(agreement, r) ==
    CASE agreement = "strong"      -> 100
      [] agreement = "weak"        -> 75
      [] agreement = "contradicts" -> 0
      [] agreement = "none"        -> GradeFootprint(r)

CorroborationBonus(n) == CASE n >= 3 -> 50 [] n \in 1..2 -> 25 [] OTHER -> 0
Corroboration(records, n) == Min({100, (100 * records) \div 3 + CorroborationBonus(n)})

\* The accept rate of a rule among the rows people decided; Absent while they are few.
ByPeople(rule) == {p \in Pair : rows[p] # Absent /\ rows[p].rule = rule /\ rows[p].by = "human"}
RuleHistory(rule) ==
    LET accepts == {p \in ByPeople(rule) : rows[p].status = "accepted"}
    IN  IF Cardinality(ByPeople(rule)) < Learned THEN Absent
        ELSE (100 * (Cardinality(accepts) + 1)) \div (Cardinality(ByPeople(rule)) + 2)

Weight == [name |-> 30, identifier |-> 15, locality |-> 10, role |-> 10, corroboration |-> 15,
           history |-> 20]

\* The weighted average of the components that have a value, rounded.  Only the history of
\* a rule may be unknown: its weight is then spread over the others.
ComputeTrust(c) ==
    LET learned == c.history # Absent
        score  == Weight.name * c.name + Weight.identifier * c.identifier
                  + Weight.locality * c.locality + Weight.role * c.role
                  + Weight.corroboration * c.corroboration
                  + IF learned THEN Weight.history * c.history ELSE 0
        whole  == IF learned THEN 100 ELSE 100 - Weight.history
    IN  (20 * score + whole) \div (2 * whole)

MinQueueTrust == 550

--------------------------------------------------------------------------------
(* The ladder.  A rung is the set of the hits it may return: among equals the *)
(* code takes the first it meets, in an order nobody fixed.                   *)

Hit(e, rule, agreement, name) == [entity |-> e, rule |-> rule, agreement |-> agreement,
                                  name |-> name, of |-> 1]

\* What bears no registered name and looks like a person is not matched by a
\* telephone, an address, a domain or a part of a name.
IdentifierAllowed(o) == Bearers(known[o].name) # {} \/ known[o].name \notin Person

\* The most alike of several entities, if alike enough.
Closest(o, S) == {e \in S : /\ Similarity(o, e) >= 30
                            /\ \A x \in S : Similarity(o, x) <= Similarity(o, e)}

\* A name one entity bears, or several of which the telephone tells one.
NameRung(o) ==
    LET bearers  == Bearers(known[o].name)
        agreeing == {e \in bearers : PhoneAgrees(o, e)}
    IN  IF Cardinality(bearers) = 1
        THEN {Hit(e, CASE known[o].name \in OneWord -> "single_token"
                       [] agreeing # {}             -> "name_phone"
                       [] OTHER                     -> "name_exact",
                  PhoneEvidence(o, e), 100) : e \in bearers}
        ELSE {Hit(e, "name_phone", AgreementFor(reg[e].phone), 100) : e \in Only(agreeing)}

PhoneRung(o) ==
    {Hit(e, "phone", AgreementFor(reg[e].phone), Similarity(o, e)) :
        e \in IF Bearers(known[o].name) = {}
              THEN Closest(o, UNION {ByPhone(p) : p \in known[o].phones}) ELSE {}}

GoogleRung(o) ==
    {Hit(e, "google_phone", "weak", Similarity(o, e)) :
        e \in Closest(o, UNION {ByGoogle(p) : p \in known[o].phones})}

\* At a shared address one name has to stand out.
StandsOut(o, a, e) ==
    IF ByAddress(a) = {e} THEN Similarity(o, e) >= 30
    ELSE /\ Similarity(o, e) >= 50
         /\ \A x \in ByAddress(a) \ {e} : Similarity(o, e) - Similarity(o, x) >= 20

AddressRung(o) ==
    LET tops == {t \in known[o].addresses \X Entity :
                   t[2] \in ByAddress(t[1]) /\ StandsOut(o, t[1], t[2])}
    IN  {Hit(t[2], "address", IF ByAddress(t[1]) = {t[2]} THEN "strong" ELSE "weak",
             Similarity(o, t[2])) :
            t \in {x \in tops : \A y \in tops : Similarity(o, y[2]) <= Similarity(o, x[2])}}

DomainRung(o) ==
    {Hit(e, "domain", AgreementFor(reg[e].domain), Similarity(o, e)) :
        e \in Closest(o, UNION {ByDomain(d) : d \in known[o].domains})}

\* Another name the organization was published under.
AliasRung(o) ==
    LET names == known[o].aliases \ (OneWord \cup {known[o].name})
    IN  {Hit(e, "alias", PhoneEvidence(o, e), 100) :
            e \in Only(UNION {Only(Bearers(n)) : n \in names})}

\* A name that contains another, last.  The names that share nothing but a token
\* that hundreds of entities have are not in Within.
ContainmentRung(o) ==
    IF known[o].name \in Public THEN {}
    ELSE {Hit(e, "containment", PhoneEvidence(o, e), Similarity(o, e)) :
            e \in Only({x \in Entity : \E n \in {reg[x].name} \cup reg[x].aliases :
                          <<known[o].name, n>> \in Within})}

\* The entities of an ambiguous name, those whose telephone agrees first.
BuildAmbiguousCandidates(o) ==
    LET bearers == Bearers(known[o].name)
        Before(x, y) == \/ PhoneAgrees(o, x) /\ ~PhoneAgrees(o, y)
                        \/ PhoneAgrees(o, x) = PhoneAgrees(o, y) /\ x < y
        chosen  == {e \in bearers : Cardinality({x \in bearers : Before(x, e)}) < Fanout}
    IN  IF Cardinality(bearers) < 2 THEN {}
        ELSE {[Hit(e, "ambiguous", PhoneEvidence(o, e), 100 \div Cardinality(bearers))
                 EXCEPT !.of = Cardinality(bearers)] : e \in chosen}

Rungs(o) ==
    LET If(set) == IF IdentifierAllowed(o) THEN set ELSE {}
    IN  <<NameRung(o), If(PhoneRung(o)), If(GoogleRung(o)), If(AddressRung(o)),
          If(DomainRung(o)), AliasRung(o), If(ContainmentRung(o))>>

\* The sets of candidates a pass may emit for an organization.
Offers(o) ==
    LET found == {i \in DOMAIN Rungs(o) : Rungs(o)[i] # {}}
    IN  IF found = {} THEN {BuildAmbiguousCandidates(o)}
        ELSE {{hit} : hit \in Rungs(o)[Min(found)]}

--------------------------------------------------------------------------------
(* What becomes of a candidate.                                              *)

SharedTrades(o, e) == known[o].trades \cap reg[e].trades

EvaluateStrictBind(o, c) ==
    /\ c.rule \in {"name_exact", "name_phone"} /\ c.name = 100
    /\ reg[c.entity].name = known[o].name
    /\ GradeLocality(o, c.entity) = 100
    /\ SharedTrades(o, c.entity) # {}

Components(o, c) ==
    [name |-> c.name, identifier |-> GradeIdentifier(c.agreement, reg[c.entity]),
     locality |-> GradeLocality(o, c.entity), role |-> known[o].role,
     corroboration |-> Corroboration(known[o].records, reg[c.entity].records),
     history |-> RuleHistory(c.rule)]

Emission(o, c) ==
    [pair |-> <<o, c.entity>>, rule |-> c.rule, of |-> c.of, agreement |-> c.agreement,
     trust |-> ComputeTrust(Components(o, c)), locality |-> GradeLocality(o, c.entity),
     strict |-> EvaluateStrictBind(o, c)]

\* mutant: the floor asks each row of an ambiguous name by itself
FloorPerRow(i, inserts) == i.trust >= MinQueueTrust

\* The floor: the rows of an ambiguous name stand or fall with the best of them.
ClearsFloor(i, inserts) ==
    IF i.rule = "ambiguous"
    THEN \E j \in inserts : j.rule = "ambiguous" /\ j.pair[1] = i.pair[1] /\ j.trust >= MinQueueTrust
    ELSE i.trust >= MinQueueTrust

Between == pass.pc \in {"idle", "died"}

Begin ==
    /\ Between
    /\ passes < MaxPass
    /\ passes' = passes + 1
    /\ \E offer \in [Org -> UNION {Offers(o) : o \in Org}] :
          /\ \A o \in Org : offer[o] \in Offers(o)
          /\ LET inserts == UNION {{Emission(o, c) : c \in offer[o]} :
                                     o \in {x \in Org : bound[x] = Absent}}
             IN  pass' = [Resting EXCEPT !.pc = "persist",
                                         !.todo = {i \in inserts : ClearsFloor(i, inserts)}]
    /\ UNCHANGED <<reg, known, bound, rows, review, refused, crossed, decided, deaths>>

Written(i, status, by) ==
    [rule |-> i.rule, of |-> i.of, trust |-> i.trust, locality |-> i.locality,
     status |-> status, by |-> by, pass |-> passes]

\* UPDATE ... WHERE registry_ref IS NULL
Bind(o, e) == bound' = [bound EXCEPT ![o] = IF @ = Absent THEN e ELSE @]

Pending(p) == rows[p] # Absent => rows[p].status = "pending"

\* Requests that have read the row and have not written their verdict.
Deciding(p) == {q \in Reviewer : review[q] # Absent /\ review[q].pair = p}

\* mutant: the statement moves a row whatever has been decided of it
PromoteAny(i) ==
    /\ i.strict
    /\ rows' = [rows EXCEPT ![i.pair] = Written(i, "accepted", "auto")]
    /\ pass' = [pass EXCEPT !.pc = "bind", !.todo = @ \ {i}, !.item = i.pair]
    /\ crossed' = IF Deciding(i.pair) = {} THEN crossed ELSE crossed \cup {i.pair}

\* A row that waits is promoted as it is: the evidence it was queued with stays.  Only a
\* row this statement moved is bound, by the next one.
PersistStrict(i) ==
    /\ i.strict
    /\ \/ /\ Pending(i.pair)
          /\ rows' = [rows EXCEPT ![i.pair] =
               IF @ = Absent THEN Written(i, "accepted", "auto")
               ELSE [@ EXCEPT !.status = "accepted", !.by = "auto", !.pass = passes]]
          /\ pass' = [pass EXCEPT !.pc = "bind", !.todo = @ \ {i}, !.item = i.pair]
          /\ crossed' = IF Deciding(i.pair) = {} THEN crossed ELSE crossed \cup {i.pair}
       \/ /\ ~Pending(i.pair)
          /\ pass' = [pass EXCEPT !.todo = @ \ {i}]
          /\ UNCHANGED <<rows, crossed>>

\* A row that waits is rescored; a decided one is left alone.
PersistQueued(i) ==
    /\ ~i.strict
    /\ rows' = IF Pending(i.pair) THEN [rows EXCEPT ![i.pair] = Written(i, "pending", "nobody")]
               ELSE rows
    /\ pass' = [pass EXCEPT !.todo = @ \ {i}]
    /\ UNCHANGED crossed

Persist ==
    /\ pass.pc = "persist"
    /\ \E i \in pass.todo : PersistStrict(i) \/ PersistQueued(i)
    /\ UNCHANGED <<reg, known, bound, review, refused, passes, decided, deaths>>

\* The pass binds what it has accepted, whatever became of the row since.
ApplyBindingAccept ==
    /\ pass.pc = "bind"
    /\ Bind(pass.item[1], pass.item[2])
    /\ pass' = [pass EXCEPT !.pc = "persist", !.item = Absent]
    /\ UNCHANGED <<reg, known, rows, review, refused, crossed, passes, decided, deaths>>

PassEnds ==
    /\ pass.pc = "persist" /\ pass.todo = {}
    /\ pass' = Resting
    /\ UNCHANGED <<reg, known, bound, rows, review, refused, crossed, passes, decided, deaths>>

PassDies ==
    /\ ~Between
    /\ deaths < MaxDeath
    /\ deaths' = deaths + 1
    /\ pass' = [Resting EXCEPT !.pc = "died"]
    /\ UNCHANGED <<reg, known, bound, rows, review, refused, crossed, passes, decided>>

--------------------------------------------------------------------------------
(* decideRegistryObservation: the row is read, an acceptance binds, the verdict *)
(* is written over whatever the row has become.                               *)

ReadPending(q, p, verdict) ==
    /\ review[q] = Absent
    /\ rows[p] # Absent /\ rows[p].status = "pending"
    /\ decided < MaxDecision
    /\ decided' = decided + 1
    /\ review' = [review EXCEPT ![q] =
         [pair |-> p, verdict |-> verdict, pc |-> IF verdict = "accepted" THEN "bind" ELSE "write"]]
    /\ UNCHANGED <<reg, known, bound, rows, pass, refused, crossed, passes, deaths>>

BindAccepted(q) ==
    /\ review[q] # Absent /\ review[q].pc = "bind"
    /\ Bind(review[q].pair[1], review[q].pair[2])
    /\ review' = [review EXCEPT ![q].pc = "write"]
    /\ UNCHANGED <<reg, known, rows, pass, refused, crossed, passes, decided, deaths>>

WriteVerdict(q) ==
    /\ review[q] # Absent /\ review[q].pc = "write"
    /\ rows' = [rows EXCEPT ![review[q].pair].status = review[q].verdict,
                            ![review[q].pair].by = "human"]
    /\ refused' = IF review[q].verdict = "rejected" THEN refused \cup {review[q].pair} ELSE refused
    /\ review' = [review EXCEPT ![q] = Absent]
    /\ UNCHANGED <<reg, known, bound, pass, crossed, passes, decided, deaths>>

RequestDies(q) ==
    /\ review[q] # Absent
    /\ deaths < MaxDeath
    /\ deaths' = deaths + 1
    /\ review' = [review EXCEPT ![q] = Absent]
    /\ UNCHANGED <<reg, known, bound, rows, pass, refused, crossed, passes, decided>>

--------------------------------------------------------------------------------
\* The registry publishes a row anew; a permit tells more of an organization.
Republish(e, r) ==
    /\ Between /\ passes \in 1..(MaxPass - 1)
    /\ reg' = [reg EXCEPT ![e] = r]
    /\ UNCHANGED <<known, bound, rows, pass, review, refused, crossed, passes, decided, deaths>>

Learn(o, f) ==
    /\ Between /\ passes \in 1..(MaxPass - 1)
    /\ known' = [known EXCEPT ![o] = f]
    /\ UNCHANGED <<reg, bound, rows, pass, review, refused, crossed, passes, decided, deaths>>

MatchNext ==
    \/ Begin \/ Persist \/ ApplyBindingAccept \/ PassEnds \/ PassDies
    \/ \E q \in Reviewer :
          \/ \E p \in Pair, verdict \in {"accepted", "rejected"} : ReadPending(q, p, verdict)
          \/ BindAccepted(q) \/ WriteVerdict(q) \/ RequestDies(q)
    \/ \E e \in Entity : \E r \in Registrations[e] : Republish(e, r)
    \/ \E o \in Org, f \in Evidences : Learn(o, f)

MatchSpec == MatchInit /\ [][MatchNext]_matchVars

--------------------------------------------------------------------------------
\* A choice is offered whole: when a pass is over, the row it wrote that says "1 of n"
\* stands beside the others, as many as the cap lets through, each of them written by
\* that pass or decided before, however the scores of the set differ and whatever
\* passes before it left half-written (registry-observations.ts:1664-1692).
WholeChoice ==
    pass.pc = "idle" =>
      \A p \in Pair : rows[p] # Absent /\ rows[p].rule = "ambiguous" /\ rows[p].pass = passes
                      /\ rows[p].status = "pending" =>
        Cardinality({q \in Pair : /\ q[1] = p[1] /\ rows[q] # Absent
                                  /\ rows[q].pass = passes \/ rows[q].status # "pending"})
          >= Min({rows[p].of, Fanout})

\* The machine binds an organization only to the one entity it can be: one that is
\* registered under its name, in its city and in one of its trades, when every other
\* bearer of the name, registered or trading under it, lacks the telephone this one
\* shares with it; and to an entity a person turned down only if that person's request had
\* read the row before the machine accepted it and ran on across the acceptance
\* (evaluateStrictBind 265-275, the name rules 994-1032, the guarded upsert 1738-1753 and
\* the bind 1754 that follows it, the unguarded verdict 2137-2143).
SureStep ==
    \A o \in Org : pass.pc = "bind" /\ pass' # pass /\ bound'[o] # bound[o] =>
      LET e == bound'[o]
          others == Bearers(known[o].name) \ {e}
      IN  /\ reg[e].name = known[o].name
          /\ SameCity(o, e) /\ SharedTrades(o, e) # {}
          /\ others # {} => PhoneAgrees(o, e) /\ \A x \in others : ~PhoneAgrees(o, x)
          /\ <<o, e>> \in refused => <<o, e>> \in crossed

\* The tables are well formed, and a choice among the bearers of a name is offered whole
\* (registry-observations.ts:1664-1692).
ChoicesWhole == MatchTypeOK /\ WholeChoice

\* The machine binds an organization only to the one entity it can be, a person's refusal
\* heard unless it was under way when the machine accepted (registry-observations.ts:265-275,
\* 994-1032, 1732-1756, 2122-2182).
SureBinds == [][SureStep]_matchVars

--------------------------------------------------------------------------------
(* What a comment says and the code does not do.                            *)

\* "A human (or auto) decision freezes the row's score and payload as the evidence the
\* decision was made on" (registry-observations.ts:1767-1769), and of an ambiguous match
\* "auto-binding ... is impossible by construction" (112-113): what the strict gate
\* accepted shows an exact name and the city it was accepted for.
FrozenEvidence ==
    \A p \in Pair : rows[p] # Absent /\ rows[p].by = "auto" =>
        rows[p].rule \in {"name_exact", "name_phone"} /\ rows[p].locality = 100
================================================================================
