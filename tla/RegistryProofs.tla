---------------------------- MODULE RegistryProofs ----------------------------
(***************************************************************************)
(* Proofs about the registry exchange, for every number of organizations,    *)
(* entities, passes, reviewers, decisions and deaths: what the log says was  *)
(* done was done (AcceptedTakesEffect), and a verdict is final for the       *)
(* machines (VerdictStands).                                                 *)
(***************************************************************************)
EXTENDS Registry, SequenceTheorems, TLAPS

PassPc == {"idle", "link", "generate", "exports", "persist", "bind", "ubi", "licence",
           "send", "mark"}

LinkItem  == [of : Org, ubi : Entity \cup {None}, licence : Entity \cup {None}]
Candidate == [key : Key, strict : BOOLEAN]
Todo      == (SUBSET LinkItem) \cup (SUBSET Candidate) \cup (SUBSET Key)
Item      == Key \cup {None}
Evidence  == 1..MaxEvidence
Rules     == SUBSET {"phone", "alias_export"}

PassRecord == [pc : PassPc, todo : Todo, item : Item, seen : Evidence, proven : Rules]

\* What is left of a decision: its statements are these and no others.
BindPlan    == <<"bind", "ubi", "licence", "write">>
UbiPlan     == <<"ubi", "licence", "write">>
LicencePlan == <<"licence", "write">>
ContactPlan == <<"contact", "write">>
WritePlan   == <<"write">>
Step        == {"bind", "ubi", "licence", "contact", "write"}
Plan        == {<<>>, BindPlan, UbiPlan, LicencePlan, ContactPlan, WritePlan}

ReviewRecord == [todo : Plan, key : Item, verdict : {"accepted", "rejected"}]

Typed ==
    /\ evidence \in Evidence
    /\ org \in [Org -> Organization]
    /\ rows \in [Key -> Observation \cup {None}]
    /\ contacts \subseteq Org \X Entity
    /\ partner \in [Key -> Evidence \cup {None}]
    /\ pass \in [Pass -> PassRecord]
    /\ review \in [Reviewer -> ReviewRecord]
    /\ decided \in 0..MaxDecision /\ breaks \in 0..MaxBreak

There(row)   == row # None
Settled(row) == row # None /\ row.status # "pending"

\* The partner holds the evidence of a decision, and whatever is marked.
Held(row, theirs) ==
    /\ theirs # None => Settled(row) /\ theirs = row.seen
    /\ There(row) /\ row.exported => theirs # None

\* The effect of accepting k is there.
Effective(k, orgs, numbers) ==
    /\ k.type = "binding" => orgs[k.org].ref # None
    /\ k.type = "phone" => <<k.org, k.entity>> \in numbers

HumanDone(k, row, orgs, numbers) ==
    There(row) /\ row.status = "accepted" /\ row.by = "human" => Effective(k, orgs, numbers)

\* What a generating process holds fits where it is; what it is about to send or
\* mark was decided, and what it marks the partner has.
PassFits(v) ==
    /\ v.pc = "link" => v.todo \subseteq LinkItem
    /\ v.pc \in {"exports", "persist", "bind", "ubi", "licence"} => v.todo \subseteq Candidate
    /\ v.pc \in {"bind", "ubi", "licence"} => v.item \in Key
    /\ v.pc \in {"send", "mark"} => v.todo \subseteq Key /\ \A k \in v.todo : Settled(rows[k])
    /\ v.pc = "mark" => v.item \in Key /\ partner[v.item] # None

\* A decision under way is about a row, and its verdict comes after its effect.
ReviewFits(v) ==
    /\ v.todo # <<>> => v.key \in Key /\ There(rows[v.key])
    /\ v.todo \in {BindPlan, UbiPlan, LicencePlan} => v.key.type = "binding"
    /\ v.todo \in {UbiPlan, LicencePlan} => org[v.key.org].ref # None
    /\ v.todo = ContactPlan => v.key.type = "phone"
    /\ v.todo = WritePlan /\ v.verdict = "accepted" => Effective(v.key, org, contacts)

RowsFit == \A k \in Key : Held(rows[k], partner[k]) /\ HumanDone(k, rows[k], org, contacts)

\* The inductive invariant.
RegistryInv ==
    /\ Typed
    /\ RowsFit
    /\ \A p \in Pass : PassFits(pass[p])
    /\ \A q \in Reviewer : ReviewFits(review[q])

\* What no step takes back: a row, a verdict, what the partner was sent, a link, a
\* contact.
Grows ==
    /\ \A k \in Key : There(rows[k]) => There(rows'[k])
    /\ \A k \in Key : Settled(rows[k]) => Settled(rows'[k])
    /\ \A k \in Key : partner[k] # None => partner'[k] # None
    /\ \A o \in Org : org[o].ref # None => org'[o].ref # None
    /\ contacts \subseteq contacts'

--------------------------------------------------------------------------------
(* Lemmas about the data.                                                    *)

\* What a key names.
LEMMA Keys ==
    ASSUME NEW k \in Key
    PROVE  /\ k # None
           /\ k.entity \in Entity
           /\ k.type \in {"binding", "phone", "alias_export", "relationship_export"}
           /\ k.type \in {"binding", "phone"} => k.org \in Org
BY RegistryAssumption, NoneIsNoRow DEF Key

LEMMA Rows ==
    ASSUME NEW o \in Observation
    PROVE  o # None
BY NoneIsNoRow

\* The plans are told apart by their first statements, and lead to each other.
LEMMA Plans ==
    /\ Head(BindPlan) = "bind" /\ Head(UbiPlan) = "ubi" /\ Head(LicencePlan) = "licence"
    /\ Head(ContactPlan) = "contact" /\ Head(WritePlan) = "write"
    /\ Tail(BindPlan) = UbiPlan /\ Tail(UbiPlan) = LicencePlan /\ Tail(LicencePlan) = WritePlan
    /\ Tail(ContactPlan) = WritePlan
    /\ Len(BindPlan) = 4 /\ Len(UbiPlan) = 3 /\ Len(LicencePlan) = 2 /\ Len(ContactPlan) = 2
    /\ Len(WritePlan) = 1
BY DEF BindPlan, UbiPlan, LicencePlan, ContactPlan, WritePlan

LEMMA PlansLeft ==
    /\ BindPlan # <<>> /\ UbiPlan # <<>> /\ LicencePlan # <<>> /\ ContactPlan # <<>>
    /\ WritePlan # <<>>
BY DEF BindPlan, UbiPlan, LicencePlan, ContactPlan, WritePlan

\* A sequence with one more element is that element appended.
LEMMA Longer ==
    ASSUME NEW S, NEW s \in Seq(S), NEW t \in Seq(S), NEW e \in S, Len(t) = Len(s) + 1,
           \A i \in 1..Len(s) : t[i] = s[i], t[Len(s) + 1] = e
    PROVE  Append(s, e) = t
<1> DEFINE a == Append(s, e)
<1>1. a \in Seq(S) /\ Len(a) = Len(s) + 1 /\ Len(s) \in Nat
  OBVIOUS
<1>2. a[Len(s) + 1] = e
  OBVIOUS
<1>3. ASSUME NEW i \in 1..Len(s) PROVE a[i] = s[i]
  OBVIOUS
<1> HIDE DEF a
<1>4. \A i \in 1..Len(a) : a[i] = t[i]
  BY <1>1, <1>2, <1>3
<1>5. a = t
  BY <1>1, <1>4, SeqEqual
<1> QED
  BY <1>5 DEF a

\* The statements of an acceptance are one of the plans.
LEMMA Planned ==
    ASSUME NEW k \in Key
    PROVE  /\ k.type = "binding" => Statements(k) = BindPlan
           /\ k.type = "phone" => Statements(k) = ContactPlan
           /\ k.type \notin {"binding", "phone"} => Statements(k) = WritePlan
<1>0. "write" \in Step
  BY DEF Step
<1>1. Append(<<"bind", "ubi", "licence">>, "write") = BindPlan
  <2> DEFINE s == <<"bind", "ubi", "licence">>
  <2>1. s \in Seq(Step) /\ BindPlan \in Seq(Step) /\ Len(s) = 3 /\ Len(BindPlan) = 4
    BY DEF BindPlan, Step
  <2>2. \A i \in 1..3 : s[i] = BindPlan[i]
    BY DEF BindPlan
  <2>3. BindPlan[4] = "write"
    BY DEF BindPlan
  <2> HIDE DEF s
  <2>4. Len(BindPlan) = Len(s) + 1 /\ (\A i \in 1..Len(s) : BindPlan[i] = s[i])
        /\ BindPlan[Len(s) + 1] = "write"
    BY <2>1, <2>2, <2>3
  <2>5. Append(s, "write") = BindPlan
    BY <1>0, <2>1, <2>4, Longer
  <2> QED
    BY <2>5 DEF s
<1>2. Append(<<"contact">>, "write") = ContactPlan
  <2> DEFINE s == <<"contact">>
  <2>1. s \in Seq(Step) /\ ContactPlan \in Seq(Step) /\ Len(s) = 1 /\ Len(ContactPlan) = 2
    BY DEF ContactPlan, Step
  <2>2. \A i \in 1..1 : s[i] = ContactPlan[i]
    BY DEF ContactPlan
  <2>3. ContactPlan[2] = "write"
    BY DEF ContactPlan
  <2> HIDE DEF s
  <2>4. Len(ContactPlan) = Len(s) + 1 /\ (\A i \in 1..Len(s) : ContactPlan[i] = s[i])
        /\ ContactPlan[Len(s) + 1] = "write"
    BY <2>1, <2>2, <2>3
  <2>5. Append(s, "write") = ContactPlan
    BY <1>0, <2>1, <2>4, Longer
  <2> QED
    BY <2>5 DEF s
<1>3. Append(<<>>, "write") = WritePlan
  BY DEF WritePlan
<1> QED
  BY <1>1, <1>2, <1>3, Zenon DEF Statements, Effects

\* A row gets a link, an id or nothing; a link is never lost.
LEMMA Links ==
    ASSUME NEW pc \in {"bind", "ubi", "licence"}, NEW o \in Organization, NEW e \in Entity
    PROVE  /\ Given(pc, o, e) \in Organization
           /\ o.ref # None => Given(pc, o, e).ref # None
           /\ pc = "bind" => Given(pc, o, e).ref # None
<1>1. e # None
  BY RegistryAssumption
<1>2. Bound(o, e) \in Organization /\ Bound(o, e).ref # None
  BY <1>1 DEF Bound, Organization
<1>3. WithUbi(o, e) \in Organization /\ WithUbi(o, e).ref = o.ref
  BY DEF WithUbi, Organization
<1>4. WithLicence(o, e) \in Organization /\ WithLicence(o, e).ref = o.ref
  BY DEF WithLicence, Organization
<1> QED
  BY <1>2, <1>3, <1>4 DEF Given

\* Accepting an identity changes one organization, and no link is lost by it.
LEMMA Accepts ==
    ASSUME org \in [Org -> Organization], NEW pc \in {"bind", "ubi", "licence"}, NEW k \in Key,
           Accepting(pc, k)
    PROVE  /\ org' \in [Org -> Organization]
           /\ \A o \in Org : org[o].ref # None => org'[o].ref # None
           /\ pc = "bind" /\ k.org \in Org => org'[k.org].ref # None
<1>1. k.entity \in Entity
  BY Keys
<1>2. \A o \in Org : /\ Given(pc, org[o], k.entity) \in Organization
                     /\ org[o].ref # None => Given(pc, org[o], k.entity).ref # None
                     /\ pc = "bind" => Given(pc, org[o], k.entity).ref # None
  BY <1>1, Links
<1>3. \A o \in Org : org'[o] = IF o = k.org THEN Given(pc, org[o], k.entity) ELSE org[o]
  <2> TAKE o \in Org
  <2>1. CASE o = k.org
    <3> k.org \in DOMAIN org
      BY <2>1
    <3>1. org'[k.org] = Given(pc, org[k.org], k.entity)
      BY Zenon DEF Accepting
    <3> QED
      BY <2>1, <3>1
  <2>2. CASE o # k.org
    BY <2>2, Zenon DEF Accepting
  <2> QED
    BY <2>1, <2>2
<1>4. org' \in [Org -> Organization]
  BY <1>2 DEF Accepting
<1> QED
  BY <1>2, <1>3, <1>4


\* Rewriting a row's evidence, its mark or its verdict leaves the rest of it alone.
LEMMA RowUpdates ==
    ASSUME NEW o \in Observation, NEW s \in Evidence, NEW v \in {"accepted", "rejected"}
    PROVE  /\ \E r \in Observation : /\ r = [o EXCEPT !.seen = s] /\ r.seen = s
                                     /\ r.status = o.status /\ r.by = o.by
                                     /\ r.exported = o.exported
           /\ \E r \in Observation : /\ r = [o EXCEPT !.exported = TRUE] /\ r.exported
                                     /\ r.status = o.status /\ r.by = o.by /\ r.seen = o.seen
           /\ \E r \in Observation : /\ r = [o EXCEPT !.status = v, !.by = "human"]
                                     /\ r.status = v /\ r.by = "human" /\ r.seen = o.seen
                                     /\ r.exported = o.exported
<1>1. \E r \in Observation : r = [o EXCEPT !.seen = s]
             /\ r.seen = s /\ r.status = o.status /\ r.by = o.by /\ r.exported = o.exported
  <2> DEFINE r == [o EXCEPT !.seen = s]
  <2>1. r \in Observation /\ r.seen = s /\ r.status = o.status /\ r.by = o.by /\ r.exported = o.exported
    BY DEF Observation, Evidence
  <2> QED
    BY <2>1, Zenon
<1>2. \E r \in Observation : r = [o EXCEPT !.exported = TRUE]
             /\ r.exported /\ r.status = o.status /\ r.by = o.by /\ r.seen = o.seen
  <2> DEFINE r == [o EXCEPT !.exported = TRUE]
  <2>1. r \in Observation /\ r.exported /\ r.status = o.status /\ r.by = o.by /\ r.seen = o.seen
    BY DEF Observation, Evidence
  <2> QED
    BY <2>1, Zenon
<1>3. \E r \in Observation : r = [o EXCEPT !.status = v, !.by = "human"]
             /\ r.status = v /\ r.by = "human" /\ r.seen = o.seen /\ r.exported = o.exported
  <2> DEFINE r == [o EXCEPT !.status = v, !.by = "human"]
  <2>1. r \in Observation /\ r.status = v /\ r.by = "human" /\ r.seen = o.seen /\ r.exported = o.exported
    BY DEF Observation, Evidence
  <2> QED
    BY <2>1, Zenon
<1> QED
  BY <1>1, <1>2, <1>3, Zenon

\* Where a process goes: nothing else of it or of the others changes.
Goes(p, pc, todo, item) ==
    /\ pass' \in [Pass -> PassRecord]
    /\ pass'[p].pc = pc /\ pass'[p].todo = todo /\ pass'[p].item = item
    /\ \A o \in Pass : o # p => pass'[o] = pass[o]

LEMMA PassFields ==
    ASSUME NEW v \in PassRecord
    PROVE  v.pc \in PassPc /\ v.todo \in Todo /\ v.item \in Item /\ v.seen \in Evidence
           /\ v.proven \in Rules
BY DEF PassRecord

\* The records a pass is replaced by.
LEMMA PassUpdates ==
    ASSUME NEW v \in PassRecord, NEW pc \in PassPc, NEW todo \in Todo, NEW item \in Item
    PROVE  /\ \E r \in PassRecord : /\ r = [v EXCEPT !.pc = pc] /\ r.pc = pc
                                    /\ r.todo = v.todo /\ r.item = v.item
           /\ \E r \in PassRecord : /\ r = [v EXCEPT !.todo = todo] /\ r.todo = todo
                                    /\ r.pc = v.pc /\ r.item = v.item
           /\ \E r \in PassRecord : /\ r = [v EXCEPT !.pc = pc, !.todo = todo] /\ r.todo = todo
                                    /\ r.pc = pc /\ r.item = v.item
           /\ \E r \in PassRecord : /\ r = [v EXCEPT !.pc = pc, !.item = item]
                                    /\ r.todo = v.todo /\ r.pc = pc /\ r.item = item
           /\ \E r \in PassRecord : /\ r = [v EXCEPT !.todo = todo, !.item = item, !.pc = pc]
                                    /\ r.todo = todo /\ r.pc = pc /\ r.item = item
           /\ \E r \in PassRecord : /\ r = [v EXCEPT !.pc = pc, !.todo = todo, !.item = item]
                                    /\ r.todo = todo /\ r.pc = pc /\ r.item = item
<1>1. \E r \in PassRecord : r = [v EXCEPT !.pc = pc]
             /\ r.pc = pc /\ r.todo = v.todo /\ r.item = v.item
  <2> DEFINE r == [v EXCEPT !.pc = pc]
  <2>1. r \in PassRecord /\ r.pc = pc /\ r.todo = v.todo /\ r.item = v.item
    BY DEF PassRecord
  <2> QED
    BY <2>1, Zenon
<1>2. \E r \in PassRecord : r = [v EXCEPT !.todo = todo]
             /\ r.todo = todo /\ r.pc = v.pc /\ r.item = v.item
  <2> DEFINE r == [v EXCEPT !.todo = todo]
  <2>1. r \in PassRecord /\ r.todo = todo /\ r.pc = v.pc /\ r.item = v.item
    BY DEF PassRecord
  <2> QED
    BY <2>1, Zenon
<1>3. \E r \in PassRecord : r = [v EXCEPT !.pc = pc, !.todo = todo]
             /\ r.todo = todo /\ r.pc = pc /\ r.item = v.item
  <2> DEFINE r == [v EXCEPT !.pc = pc, !.todo = todo]
  <2>1. r \in PassRecord /\ r.todo = todo /\ r.pc = pc /\ r.item = v.item
    BY DEF PassRecord
  <2> QED
    BY <2>1, Zenon
<1>4. \E r \in PassRecord : r = [v EXCEPT !.pc = pc, !.item = item]
             /\ r.todo = v.todo /\ r.pc = pc /\ r.item = item
  <2> DEFINE r == [v EXCEPT !.pc = pc, !.item = item]
  <2>1. r \in PassRecord /\ r.todo = v.todo /\ r.pc = pc /\ r.item = item
    BY DEF PassRecord
  <2> QED
    BY <2>1, Zenon
<1>5. \E r \in PassRecord : r = [v EXCEPT !.todo = todo, !.item = item, !.pc = pc]
             /\ r.todo = todo /\ r.pc = pc /\ r.item = item
  <2> DEFINE r == [v EXCEPT !.todo = todo, !.item = item, !.pc = pc]
  <2>1. r \in PassRecord /\ r.todo = todo /\ r.pc = pc /\ r.item = item
    BY DEF PassRecord
  <2> QED
    BY <2>1, Zenon
<1>6. \E r \in PassRecord : r = [v EXCEPT !.pc = pc, !.todo = todo, !.item = item]
             /\ r.todo = todo /\ r.pc = pc /\ r.item = item
  <2> DEFINE r == [v EXCEPT !.pc = pc, !.todo = todo, !.item = item]
  <2>1. r \in PassRecord /\ r.todo = todo /\ r.pc = pc /\ r.item = item
    BY DEF PassRecord
  <2> QED
    BY <2>1, Zenon
<1> QED
  BY <1>1, <1>2, <1>3, <1>4, <1>5, <1>6, Zenon

LEMMA IdleFits ==
    /\ IdlePass \in PassRecord /\ IdlePass.pc = "idle" /\ IdlePass.todo = {}
    /\ IdlePass.item = None /\ IdlePass.seen = 1
    /\ PassFits(IdlePass)
<1>1. 1 \in Evidence
  BY RegistryAssumption DEF Evidence
<1>2. {} \in Todo /\ None \in Item /\ "idle" \in PassPc /\ {} \in Rules
  BY DEF Todo, Item, PassPc, Rules
<1>3. IdlePass \in PassRecord /\ IdlePass.pc = "idle" /\ IdlePass.todo = {}
      /\ IdlePass.item = None /\ IdlePass.seen = 1
  BY <1>1, <1>2 DEF IdlePass, PassRecord
<1> QED
  BY <1>3 DEF PassFits

LEMMA IdleReviewFits ==
    /\ IdleReview \in ReviewRecord /\ IdleReview.todo = <<>>
    /\ ReviewFits(IdleReview)
<1>1. IdleReview \in ReviewRecord /\ IdleReview.todo = <<>>
  BY DEF IdleReview, ReviewRecord, Plan, Item
<1>2. <<>> \notin {BindPlan, UbiPlan, LicencePlan, ContactPlan, WritePlan}
  BY PlansLeft
<1> QED
  BY <1>1, <1>2 DEF ReviewFits

\* A pass or a decision whose own record stands fits on, whatever grows around it.
LEMMA PassKept ==
    ASSUME NEW v \in PassRecord, PassFits(v), Grows
    PROVE  PassFits(v)'
BY DEF PassFits, Grows

LEMMA ReviewKept ==
    ASSUME NEW v \in ReviewRecord, ReviewFits(v), Grows
    PROVE  ReviewFits(v)'
<1>1. v.todo # <<>> => v.key \in Key
  BY DEF ReviewFits
<1>3. v.key \in Key /\ v.key.type = "binding" => v.key.org \in Org
  BY Keys
<1>4. v.key \in Key /\ Effective(v.key, org, contacts) => Effective(v.key, org', contacts')
  BY <1>3 DEF Effective, Grows
<1> QED
  BY <1>1, <1>3, <1>4, PlansLeft DEF ReviewFits, Grows


LEMMA PassesKept ==
    ASSUME RegistryInv, Typed', Grows, NEW p \in Pass,
           \A o \in Pass : o # p => pass'[o] = pass[o], PassFits(pass[p])'
    PROVE  \A o \in Pass : PassFits(pass[o])'
<1> SUFFICES ASSUME NEW o \in Pass, o # p PROVE PassFits(pass[o])'
  OBVIOUS
<1>1. pass[o] \in PassRecord /\ PassFits(pass[o])
  BY DEF RegistryInv, Typed
<1>2. PICK v \in PassRecord : v = pass[o]
  BY <1>1
<1>3. PassFits(v)
  BY <1>1, <1>2
<1>4. PassFits(v)'
  BY <1>3, PassKept
<1>5. v = pass'[o]
  BY <1>2
<1> QED
  BY <1>4, <1>5

LEMMA AllPassesKept ==
    ASSUME RegistryInv, Typed', Grows, pass' = pass
    PROVE  \A o \in Pass : PassFits(pass[o])'
<1> SUFFICES ASSUME NEW o \in Pass PROVE PassFits(pass[o])'
  OBVIOUS
<1>1. pass[o] \in PassRecord /\ PassFits(pass[o])
  BY DEF RegistryInv, Typed
<1>2. PICK v \in PassRecord : v = pass[o]
  BY <1>1
<1>3. PassFits(v)
  BY <1>1, <1>2
<1>4. PassFits(v)'
  BY <1>3, PassKept
<1> QED
  BY <1>2, <1>4

LEMMA ReviewsKept ==
    ASSUME RegistryInv, Typed', Grows, NEW q \in Reviewer,
           \A o \in Reviewer : o # q => review'[o] = review[o], ReviewFits(review[q])'
    PROVE  \A o \in Reviewer : ReviewFits(review[o])'
<1> SUFFICES ASSUME NEW o \in Reviewer, o # q PROVE ReviewFits(review[o])'
  OBVIOUS
<1>1. review[o] \in ReviewRecord /\ ReviewFits(review[o])
  BY DEF RegistryInv, Typed
<1>2. PICK v \in ReviewRecord : v = review[o]
  BY <1>1
<1>3. ReviewFits(v)
  BY <1>1, <1>2
<1>4. ReviewFits(v)'
  BY <1>3, ReviewKept
<1>5. v = review'[o]
  BY <1>2
<1> QED
  BY <1>4, <1>5

LEMMA AllReviewsKept ==
    ASSUME RegistryInv, Typed', Grows, review' = review
    PROVE  \A o \in Reviewer : ReviewFits(review[o])'
<1> SUFFICES ASSUME NEW o \in Reviewer PROVE ReviewFits(review[o])'
  OBVIOUS
<1>1. review[o] \in ReviewRecord /\ ReviewFits(review[o])
  BY DEF RegistryInv, Typed
<1>2. PICK v \in ReviewRecord : v = review[o]
  BY <1>1
<1>3. ReviewFits(v)
  BY <1>1, <1>2
<1>4. ReviewFits(v)'
  BY <1>3, ReviewKept
<1> QED
  BY <1>2, <1>4

\* The rows an action leaves alone fit on.
LEMMA RowsKept ==
    ASSUME RegistryInv, Grows, NEW k \in Key, rows'[k] = rows[k], partner'[k] = partner[k]
    PROVE  Held(rows[k], partner[k])' /\ HumanDone(k, rows[k], org, contacts)'
<1>1. Held(rows[k], partner[k]) /\ HumanDone(k, rows[k], org, contacts)
  BY DEF RegistryInv, RowsFit
<1>2. k.type = "binding" => k.org \in Org
  BY Keys
<1>3. Effective(k, org, contacts) => Effective(k, org', contacts')
  BY <1>2 DEF Effective, Grows
<1> QED
  BY <1>1, <1>3 DEF Held, HumanDone, Settled, There

\* A step of a pass that writes no table.
LEMMA PassStep ==
    ASSUME RegistryInv, NEW p \in Pass, NEW w \in PassRecord, pass' = [pass EXCEPT ![p] = w],
           PassFits(w), UNCHANGED <<evidence, org, rows, contacts, partner, review, decided, breaks>>
    PROVE  RegistryInv'
<1>1. Typed'
  BY DEF RegistryInv, Typed
<1>2. Grows
  BY DEF Grows, There, Settled
<1>3. pass'[p] = w /\ \A o \in Pass : o # p => pass'[o] = pass[o]
  BY DEF RegistryInv, Typed
<1>4. PassFits(pass[p])'
  BY <1>3 DEF PassFits, Settled
<1>5. RowsFit'
  BY RowsKept, <1>2 DEF RowsFit
<1> QED
  BY <1>1, <1>2, <1>3, <1>4, <1>5, PassesKept, AllReviewsKept DEF RegistryInv


--------------------------------------------------------------------------------
(* The passes.                                                               *)

LEMMA ATodo ==
    ASSUME NEW todo, todo \subseteq LinkItem \/ todo \subseteq Candidate \/ todo \subseteq Key
    PROVE  todo \in Todo
BY DEF Todo

LEMMA ChainIsAPass == Chain \in Pass
BY DEF Pass

LEMMA NightStarts ==
    ASSUME RegistryInv, StartNight
    PROVE  RegistryInv'
<1> DEFINE todo == {[of |-> o, ubi |-> org[o].ubi, licence |-> org[o].licence] :
                      o \in {x \in Org : /\ org[x].ref = None
                                         /\ {org[x].ubi, org[x].licence} # {None}}}
           w == [IdlePass EXCEPT !.pc = "link", !.todo = todo]
<1>1. /\ pass' = [pass EXCEPT ![Chain] = w]
      /\ UNCHANGED <<evidence, org, rows, contacts, partner, review, decided, breaks>>
  BY DEF StartNight
<1>2. todo \in SUBSET LinkItem
  BY DEF RegistryInv, Typed, Organization, LinkItem
<1> HIDE DEF todo
<1>3. todo \in Todo /\ "link" \in PassPc
  BY <1>2, ATodo DEF PassPc
<1>4. w \in PassRecord /\ w.todo = todo /\ w.pc = "link"
  BY <1>3, IdleFits DEF PassRecord
<1> HIDE DEF w
<1>5. PICK r \in PassRecord : r = w /\ r.todo = todo /\ r.pc = "link"
  BY <1>4
<1>6. PassFits(r)
  BY <1>2, <1>5 DEF PassFits
<1> QED
  BY <1>1, <1>5, <1>6, ChainIsAPass, PassStep

LEMMA LinkingEnds ==
    ASSUME RegistryInv, LinkEnds
    PROVE  RegistryInv'
<1> DEFINE w == [pass[Chain] EXCEPT !.pc = "generate"]
<1>0. pass[Chain] \in PassRecord /\ "generate" \in PassPc
  BY ChainIsAPass DEF RegistryInv, Typed, PassPc
<1>1. /\ pass' = [pass EXCEPT ![Chain] = w]
      /\ UNCHANGED <<evidence, org, rows, contacts, partner, review, decided, breaks>>
  BY <1>0, ChainIsAPass DEF LinkEnds, RegistryInv, Typed
<1>2. w \in PassRecord /\ w.pc = "generate"
  BY <1>0 DEF PassRecord
<1> HIDE DEF w
<1>3. PICK r \in PassRecord : r = w /\ r.pc = "generate"
  BY <1>2
<1>4. PassFits(r)
  BY <1>3 DEF PassFits
<1> QED
  BY <1>1, <1>3, <1>4, ChainIsAPass, PassStep

\* A pass collects candidates of unbound organizations.
LEMMA Generates ==
    ASSUME RegistryInv, NEW p \in Pass, Generate(p)
    PROVE  RegistryInv'
<1>1. PICK offer \in [Org -> UNION {Offers[o] : o \in Org}], proven \in Histories :
          /\ \A o \in Org : offer[o] \in Offers[o]
          /\ pass' = [pass EXCEPT ![p] = [IdlePass EXCEPT
               !.pc = "exports", !.seen = evidence, !.proven = proven,
               !.todo = UNION {
                 {[key |-> [type |-> "binding", org |-> o, entity |-> c[1]], strict |-> c[2]] :
                    c \in offer[o]} : o \in {x \in Org : org[x].ref = None}}]]
  BY DEF Generate
<1>2. UNCHANGED <<evidence, org, rows, contacts, partner, review, decided, breaks>>
  BY DEF Generate
<1> DEFINE todo == UNION {
                 {[key |-> [type |-> "binding", org |-> o, entity |-> c[1]], strict |-> c[2]] :
                    c \in offer[o]} : o \in {x \in Org : org[x].ref = None}}
           w == [IdlePass EXCEPT !.pc = "exports", !.seen = evidence, !.proven = proven,
                                 !.todo = todo]
<1>3. todo \in SUBSET Candidate
  <2>1. ASSUME NEW o \in Org, NEW c \in offer[o]
        PROVE  [key |-> [type |-> "binding", org |-> o, entity |-> c[1]], strict |-> c[2]] \in Candidate
    <3>1. offer[o] \in SUBSET (Entity \X BOOLEAN)
      BY <1>1, RegistryAssumption
    <3>2. c[1] \in Entity /\ c[2] \in BOOLEAN
      BY <3>1
    <3> QED
      BY <3>2 DEF Candidate, Key
  <2> QED
    BY <2>1
<1>5. pass' = [pass EXCEPT ![p] = w]
  BY <1>1
<1> HIDE DEF todo
<1>4. todo \in Todo /\ "exports" \in PassPc /\ evidence \in Evidence /\ proven \in Rules
  BY <1>3, ATodo, RegistryAssumption DEF PassPc, RegistryInv, Typed, Rules
<1>6. w \in PassRecord /\ w.pc = "exports" /\ w.todo = todo
  BY <1>4, IdleFits DEF PassRecord
<1> HIDE DEF w
<1>7. PICK r \in PassRecord : r = w /\ r.pc = "exports" /\ r.todo = todo
  BY <1>6
<1>8. PassFits(r)
  BY <1>3, <1>7 DEF PassFits
<1> QED
  BY <1>2, <1>5, <1>7, <1>8, PassStep

\* And of bound ones.
LEMMA GeneratesForBound ==
    ASSUME RegistryInv, NEW p \in Pass, GenerateForBound(p)
    PROVE  RegistryInv'
<1> DEFINE more == {[key |-> [type |-> t, org |-> o, entity |-> org[o].ref], strict |-> FALSE] :
                      t \in {"phone", "alias_export"}, o \in {x \in Org : org[x].ref # None}}
           todo == pass[p].todo \cup more
           w == [pass[p] EXCEPT !.pc = "persist", !.todo = todo]
<1>0. pass[p] \in PassRecord /\ "persist" \in PassPc /\ pass[p].todo \subseteq Candidate
  BY DEF RegistryInv, Typed, PassPc, GenerateForBound, PassFits
<1>1. /\ pass' = [pass EXCEPT ![p].pc = "persist", ![p].todo = @ \cup more]
      /\ UNCHANGED <<evidence, org, rows, contacts, partner, review, decided, breaks>>
  BY DEF GenerateForBound
<1>2. more \in SUBSET Candidate
  <2>2. ASSUME NEW m \in more PROVE m \in Candidate
    <3>1. PICK t \in {"phone", "alias_export"}, o \in {x \in Org : org[x].ref # None} :
            m = [key |-> [type |-> t, org |-> o, entity |-> org[o].ref], strict |-> FALSE]
      OBVIOUS
    <3>2. o \in Org /\ org[o].ref \in Entity
      BY DEF RegistryInv, Typed, Organization
    <3>3. [type |-> t, org |-> o, entity |-> org[o].ref] \in Key
      BY <3>2 DEF Key
    <3> QED
      BY <3>1, <3>3 DEF Candidate
  <2> QED
    BY <2>2
<1> HIDE DEF more
<1>7. pass' = [pass EXCEPT ![p] = w]
  BY <1>1 DEF RegistryInv, Typed
<1>3. todo \subseteq Candidate /\ todo \in Todo
  BY <1>0, <1>2, ATodo
<1> HIDE DEF todo
<1>4. w \in PassRecord /\ w.pc = "persist" /\ w.todo = todo
  BY <1>0, <1>3 DEF PassRecord
<1> HIDE DEF w
<1>5. PICK r \in PassRecord : r = w /\ r.pc = "persist" /\ r.todo = todo
  BY <1>4
<1>6. PassFits(r)
  BY <1>3, <1>5 DEF PassFits
<1> QED
  BY <1>1, <1>5, <1>6, <1>7, PassStep

\* The chain goes on to send what is accepted and not marked.
LEMMA GenerationEnds ==
    ASSUME RegistryInv, NEW p \in Pass, GenerateEnds(p)
    PROVE  RegistryInv'
<1> DEFINE w == [IdlePass EXCEPT !.pc = "send", !.todo = Unsent]
<1>1. UNCHANGED <<evidence, org, rows, contacts, partner, review, decided, breaks>>
  BY DEF GenerateEnds
<1>2. CASE p = Chain
  <2>1. pass' = [pass EXCEPT ![p] = w]
    BY <1>2 DEF GenerateEnds
  <2>2. Unsent \subseteq Key /\ \A k \in Unsent : Settled(rows[k])
    BY DEF Unsent, Settled
  <2>3. Unsent \in Todo /\ "send" \in PassPc
    BY <2>2, ATodo DEF PassPc
  <2>4. w \in PassRecord /\ w.pc = "send" /\ w.todo = Unsent
    BY <2>3, IdleFits DEF PassRecord
  <2> HIDE DEF w
  <2>5. PICK r \in PassRecord : r = w /\ r.pc = "send" /\ r.todo = Unsent
    BY <2>4
  <2>6. PassFits(r)
    BY <2>2, <2>5 DEF PassFits
  <2> QED
    BY <1>1, <2>1, <2>5, <2>6, PassStep
<1>3. CASE p # Chain
  <2>1. pass' = [pass EXCEPT ![p] = IdlePass]
    BY <1>3 DEF GenerateEnds
  <2> QED
    BY <1>1, <2>1, IdleFits, PassStep
<1> QED
  BY <1>2, <1>3

LEMMA NightIsOver ==
    ASSUME RegistryInv, NightEnds
    PROVE  RegistryInv'
BY ChainIsAPass, IdleFits, PassStep DEF NightEnds


\* A match or none is written over whatever link there is: never nothing over one.
LEMMA Linked ==
    ASSUME RegistryInv, LinkOne
    PROVE  RegistryInv'
<1>1. PICK t \in pass[Chain].todo :
          /\ org' = [org EXCEPT ![t.of].ref =
                       IF Matched(t.ubi, t.licence) = None THEN @ ELSE Matched(t.ubi, t.licence)]
          /\ pass' = [pass EXCEPT ![Chain].todo = @ \ {t}]
  BY DEF LinkOne
<1>2. /\ pass[Chain].pc = "link"
      /\ UNCHANGED <<evidence, rows, contacts, partner, review, decided, breaks>>
  BY DEF LinkOne
<1>3. pass[Chain] \in PassRecord /\ PassFits(pass[Chain])
  BY ChainIsAPass DEF RegistryInv, Typed
<1>4. t \in LinkItem /\ pass[Chain].todo \subseteq LinkItem
  BY <1>2, <1>3 DEF PassFits
<1>5. t.of \in Org /\ Matched(t.ubi, t.licence) \in Entity \cup {None}
  BY <1>4 DEF LinkItem, Matched
<1> DEFINE m == Matched(t.ubi, t.licence)
           w == [pass[Chain] EXCEPT !.todo = @ \ {t}]
<1> HIDE DEF m
<1>6. /\ org' \in [Org -> Organization]
      /\ \A o \in Org : org[o].ref # None => org'[o].ref # None
  <2>1. org \in [Org -> Organization]
    BY DEF RegistryInv, Typed
  <2> DEFINE r == [org[t.of] EXCEPT !.ref = IF m = None THEN @ ELSE m]
  <2>2. org' = [org EXCEPT ![t.of] = r]
    BY <1>1, <1>5, <2>1 DEF m
  <2>3. r \in Organization /\ (org[t.of].ref # None => r.ref # None)
    BY <1>5, <2>1 DEF Organization, m
  <2> HIDE DEF r
  <2> QED
    BY <1>5, <2>1, <2>2, <2>3
<1>7. w \in PassRecord /\ w.pc = "link" /\ w.todo = pass[Chain].todo \ {t}
  <2>1. pass[Chain].todo \ {t} \in Todo
    BY <1>4, ATodo
  <2> QED
    BY <1>2, <1>3, <2>1 DEF PassRecord
<1>8. pass' = [pass EXCEPT ![Chain] = w]
  BY <1>1, ChainIsAPass DEF RegistryInv, Typed
<1> HIDE DEF w
<1>9. Typed'
  BY <1>2, <1>6, <1>7, <1>8 DEF RegistryInv, Typed
<1>10. Grows
  BY <1>2, <1>6 DEF Grows, There, Settled
<1>11. pass'[Chain] = w /\ \A o \in Pass : o # Chain => pass'[o] = pass[o]
  BY <1>8, ChainIsAPass DEF RegistryInv, Typed
<1>12. PassFits(pass[Chain])'
  BY <1>4, <1>7, <1>11 DEF PassFits
<1>13. RowsFit'
  BY <1>2, <1>10, RowsKept DEF RowsFit
<1> QED
  BY <1>2, <1>9, <1>10, <1>11, <1>12, <1>13, ChainIsAPass, PassesKept, AllReviewsKept DEF RegistryInv

\* Writing one row: what the partner holds of it stands, and a decision by a person has
\* its effect.
LEMMA RowStep ==
    ASSUME RegistryInv, NEW k \in Key, NEW r \in Observation, rows' = [rows EXCEPT ![k] = r],
           UNCHANGED <<org, contacts, partner>>,
           There(rows[k]) => r.seen = rows[k].seen \/ rows[k].status = "pending",
           Settled(rows[k]) => r.status # "pending",
           r.exported => partner[k] # None,
           r.status = "accepted" /\ r.by = "human" => Effective(k, org, contacts)
    PROVE  /\ rows' \in [Key -> Observation \cup {None}]
           /\ Grows /\ RowsFit'
<1>1. rows' \in [Key -> Observation \cup {None}]
  BY DEF RegistryInv, Typed
<1>2. r # None /\ rows'[k] = r /\ \A j \in Key : j # k => rows'[j] = rows[j]
  BY Rows DEF RegistryInv, Typed
<1>3. Grows
  BY <1>2 DEF Grows, There, Settled
<1>4. ASSUME NEW j \in Key, j # k
      PROVE  Held(rows[j], partner[j])' /\ HumanDone(j, rows[j], org, contacts)'
  <2>1. rows'[j] = rows[j] /\ partner'[j] = partner[j]
    BY <1>2, <1>4
  <2> QED
    BY <1>3, <2>1, RowsKept
<1>5. Held(rows[k], partner[k])' /\ HumanDone(k, rows[k], org, contacts)'
  <2>1. Held(rows[k], partner[k])
    BY DEF RegistryInv, RowsFit
  <2> QED
    BY <1>2, <2>1 DEF Held, HumanDone, Settled, There
<1> QED
  BY <1>1, <1>3, <1>4, <1>5 DEF RowsFit

\* A row a pass writes is new or pending, and no pass decides as a person.
LEMMA Persists ==
    ASSUME RegistryInv, NEW p \in Pass, Persist(p)
    PROVE  RegistryInv'
<1>1. PICK item \in First(pass[p].todo) : PersistStrict(p, item) \/ PersistQueued(p, item)
  BY DEF Persist
<1>2. /\ pass[p].pc = "persist"
      /\ UNCHANGED <<evidence, org, contacts, partner, review, decided, breaks>>
  BY DEF Persist
<1>3. pass[p] \in PassRecord /\ PassFits(pass[p])
  BY DEF RegistryInv, Typed
<1>4. item \in Candidate /\ item.key \in Key /\ pass[p].todo \subseteq Candidate
  BY <1>2, <1>3 DEF PassFits, First, Candidate
<1> DEFINE k == item.key
           todo == pass[p].todo \ {item}
<1>5. pass[p].seen \in Evidence /\ pass[p].todo \in Todo
  BY <1>3 DEF PassRecord
<1>6. todo \subseteq Candidate /\ todo \in Todo
  BY <1>4, ATodo
<1>7. There(rows[k]) => rows[k] \in Observation
  BY <1>4 DEF RegistryInv, Typed, There
<1>8. MayRewrite(k) /\ There(rows[k]) => rows[k].status = "pending" /\ ~rows[k].exported
  <2>1. Held(rows[k], partner[k])
    BY <1>4 DEF RegistryInv, RowsFit
  <2> QED
    BY <2>1, <1>7 DEF MayRewrite, Held, Settled, There, Observation
<1>9. /\ \/ rows' = rows
         \/ /\ MayRewrite(k)
            /\ \E r \in Observation : /\ rows' = [rows EXCEPT ![k] = r]
                                      /\ ~r.exported
                                      /\ r.by # "human" \/ r.status = "pending"
      /\ \E w \in PassRecord : /\ pass' = [pass EXCEPT ![p] = w]
                               /\ w.todo = todo /\ w.pc \in {"persist", "bind"}
                               /\ w.pc = "bind" => w.item = k
  <2>0. k \in Item /\ "bind" \in PassPc
    BY <1>4 DEF Item, PassPc
  <2> DEFINE v == [pass[p] EXCEPT !.todo = todo]
             x == [pass[p] EXCEPT !.todo = todo, !.item = k, !.pc = "bind"]
  <2>1. v \in PassRecord /\ v.todo = todo /\ v.pc = "persist"
    BY <1>2, <1>3, <1>6 DEF PassRecord
  <2>2. x \in PassRecord /\ x.todo = todo /\ x.pc = "bind" /\ x.item = k
    BY <1>3, <1>6, <2>0 DEF PassRecord
  <2>3. pass' = [pass EXCEPT ![p].todo = @ \ {item}] => pass' = [pass EXCEPT ![p] = v]
    BY DEF RegistryInv, Typed
  <2>4. pass' = [pass EXCEPT ![p].todo = @ \ {item}, ![p].item = k, ![p].pc = "bind"]
          => pass' = [pass EXCEPT ![p] = x]
    BY DEF RegistryInv, Typed
  <2> HIDE DEF v, x
  <2>5. pass' = [pass EXCEPT ![p].todo = @ \ {item}] =>
          \E w \in PassRecord : /\ pass' = [pass EXCEPT ![p] = w]
                                /\ w.todo = todo /\ w.pc \in {"persist", "bind"}
                                /\ w.pc = "bind" => w.item = k
    BY <2>1, <2>3
  <2>6. pass' = [pass EXCEPT ![p].todo = @ \ {item}, ![p].item = k, ![p].pc = "bind"] =>
          \E w \in PassRecord : /\ pass' = [pass EXCEPT ![p] = w]
                                /\ w.todo = todo /\ w.pc \in {"persist", "bind"}
                                /\ w.pc = "bind" => w.item = k
    BY <2>2, <2>4
  <2>7. CASE PersistStrict(p, item)
    <3> DEFINE r == [status |-> "accepted", by |-> "auto", exported |-> FALSE,
                     seen |-> IF rows[k] = None THEN pass[p].seen ELSE rows[k].seen]
    <3>1. r \in Observation /\ r.by # "human" /\ ~r.exported
      BY <1>5, <1>7 DEF Observation, There, Evidence
    <3>2. r.seen = IF rows[k] = None THEN pass[p].seen ELSE rows[k].seen
      OBVIOUS
    <3>3. \/ /\ MayRewrite(k) /\ rows' = [rows EXCEPT ![k] = r]
             /\ pass' = [pass EXCEPT ![p].todo = @ \ {item}, ![p].item = k, ![p].pc = "bind"]
          \/ pass' = [pass EXCEPT ![p].todo = @ \ {item}] /\ rows' = rows
      BY <2>7 DEF PersistStrict
    <3> HIDE DEF r
    <3> QED
      BY <2>5, <2>6, <3>1, <3>2, <3>3 DEF There
  <2>8. CASE PersistQueued(p, item)
    <3> DEFINE auto == k.type # "binding" /\ k.type \in pass[p].proven
               r == [status |-> IF auto THEN "accepted" ELSE "pending",
                     by |-> IF auto THEN "auto" ELSE "nobody",
                     seen |-> pass[p].seen, exported |-> FALSE]
               u == [rows[k] EXCEPT !.seen = pass[p].seen]
    <3>0. pass' = [pass EXCEPT ![p].todo = @ \ {item}]
      BY <2>8 DEF PersistQueued
    <3>1. CASE rows[k] = None /\ rows' = [rows EXCEPT ![k] = r]
      <4>1. r \in Observation /\ r.by # "human" /\ ~r.exported
        BY <1>5 DEF Observation, Evidence
      <4> HIDE DEF r
      <4> QED
        BY <2>5, <3>0, <3>1, <4>1 DEF There, MayRewrite
    <3>2. CASE rows[k] # None /\ MayRewrite(k) /\ rows' = [rows EXCEPT ![k].seen = pass[p].seen]
      <4>1. rows' = [rows EXCEPT ![k] = u]
        BY <3>2, <1>4 DEF RegistryInv, Typed
      <4>2. u \in Observation /\ u.status = "pending" /\ ~u.exported /\ u.by = rows[k].by
        BY <1>5, <1>7, <1>8, <3>2 DEF Observation, There, Evidence
      <4> HIDE DEF u
      <4> QED
        BY <2>5, <3>0, <3>2, <4>1, <4>2 DEF There
    <3>3. CASE UNCHANGED rows
      BY <2>5, <3>0, <3>3
    <3> QED
      BY <2>8, <3>1, <3>2, <3>3 DEF PersistQueued
  <2> QED
    BY <1>1, <2>7, <2>8
<1> HIDE DEF todo, k
<1>10. PICK w \in PassRecord : /\ pass' = [pass EXCEPT ![p] = w]
                               /\ w.todo = todo /\ w.pc \in {"persist", "bind"}
                               /\ w.pc = "bind" => w.item = k
  BY <1>9
<1>11. k \in Key
  BY <1>4 DEF k
<1>12. rows' \in [Key -> Observation \cup {None}] /\ Grows /\ RowsFit'
  <2>1. CASE rows' = rows
    <3>1. Grows
      BY <1>2, <2>1 DEF Grows, There, Settled
    <3> QED
      BY <1>2, <2>1, <3>1, RowsKept DEF RegistryInv, Typed, RowsFit
  <2>2. CASE rows' # rows
    <3>1. MayRewrite(k)
      BY <1>9, <2>2
    <3>2. PICK r \in Observation : /\ rows' = [rows EXCEPT ![k] = r]
                                   /\ ~r.exported
                                   /\ r.by # "human" \/ r.status = "pending"
      BY <1>9, <2>2
    <3>3. ~Settled(rows[k])
      BY <1>8, <3>1 DEF Settled, There
    <3>4. There(rows[k]) => rows[k].status = "pending"
      BY <1>8, <3>1
    <3> QED
      <4>1. /\ There(rows[k]) => r.seen = rows[k].seen \/ rows[k].status = "pending"
            /\ Settled(rows[k]) => r.status # "pending"
            /\ r.exported => partner[k] # None
            /\ r.status = "accepted" /\ r.by = "human" => Effective(k, org, contacts)
        BY <3>2, <3>3, <3>4
      <4> QED
        BY <1>2, <1>11, <3>2, <4>1, RowStep
  <2> QED
    BY <2>1, <2>2
<1>13. pass'[p] = w /\ \A o \in Pass : o # p => pass'[o] = pass[o]
  BY <1>10 DEF RegistryInv, Typed
<1>14. PassFits(pass[p])'
  BY <1>6, <1>10, <1>11, <1>13 DEF PassFits
<1>15. Typed'
  BY <1>2, <1>10, <1>12 DEF RegistryInv, Typed
<1> QED
  BY <1>2, <1>12, <1>13, <1>14, <1>15, PassesKept, AllReviewsKept DEF RegistryInv


\* The strict tier binds what it has accepted.
LEMMA StrictBinds ==
    ASSUME RegistryInv, NEW p \in Pass, StrictBind(p)
    PROVE  RegistryInv'
<1> DEFINE pc == pass[p].pc
           k == pass[p].item
           next == AfterAccepting(pc)
           item == IF pc = "licence" THEN None ELSE k
           w == [pass[p] EXCEPT !.pc = next, !.item = item]
<1>1. /\ pc \in {"bind", "ubi", "licence"} /\ Accepting(pc, k)
      /\ pass' = [pass EXCEPT ![p].pc = AfterAccepting(@),
                              ![p].item = IF pass[p].pc = "licence" THEN None ELSE @]
      /\ UNCHANGED <<evidence, rows, contacts, partner, review, decided, breaks>>
  BY DEF StrictBind
<1>2. pass[p] \in PassRecord /\ PassFits(pass[p])
  BY DEF RegistryInv, Typed
<1>3. k \in Key /\ pass[p].todo \subseteq Candidate
  BY <1>1, <1>2 DEF PassFits
<1>4. next \in {"ubi", "licence", "persist"} /\ (next # "persist" => item = k)
      /\ next \in PassPc /\ item \in Item
  BY <1>1, <1>3 DEF AfterAccepting, PassPc, Item
<1>5. pass' = [pass EXCEPT ![p] = w]
  BY <1>1 DEF RegistryInv, Typed
<1> HIDE DEF next, item
<1>6. w \in PassRecord /\ w.pc = next /\ w.todo = pass[p].todo /\ w.item = item
  BY <1>2, <1>4 DEF PassRecord
<1> HIDE DEF w
<1>7. org \in [Org -> Organization]
  BY DEF RegistryInv, Typed
<1>8. /\ org' \in [Org -> Organization]
      /\ \A o \in Org : org[o].ref # None => org'[o].ref # None
  BY <1>1, <1>3, <1>7, Accepts
<1> HIDE DEF pc, k
<1>9. Typed'
  BY <1>1, <1>5, <1>6, <1>8 DEF RegistryInv, Typed
<1>10. Grows
  BY <1>1, <1>8 DEF Grows, There, Settled
<1>11. pass'[p] = w /\ \A o \in Pass : o # p => pass'[o] = pass[o]
  BY <1>5 DEF RegistryInv, Typed
<1>12. PassFits(pass[p])'
  BY <1>3, <1>4, <1>6, <1>11 DEF PassFits
<1>13. RowsFit'
  BY <1>1, <1>10, RowsKept DEF RowsFit
<1> QED
  BY <1>1, <1>9, <1>10, <1>11, <1>12, <1>13, PassesKept, AllReviewsKept DEF RegistryInv

\* What is sent was decided, and the partner keeps the evidence of the decision.
LEMMA Exports ==
    ASSUME RegistryInv, NEW k \in Key, ExportOne(k)
    PROVE  RegistryInv'
<1> DEFINE w == [pass[Chain] EXCEPT !.pc = "mark", !.item = k]
<1>1. /\ pass[Chain].pc = "send" /\ k \in pass[Chain].todo
      /\ pass' = [pass EXCEPT ![Chain].pc = "mark", ![Chain].item = k]
      /\ UNCHANGED <<evidence, org, contacts, review, decided, breaks>>
  BY DEF ExportOne
<1>2. Insert(k) /\ rows' = rows
  BY DEF ExportOne, FirstSend
<1>3. pass[Chain] \in PassRecord /\ PassFits(pass[Chain])
  BY ChainIsAPass DEF RegistryInv, Typed
<1>4. pass[Chain].todo \subseteq Key /\ \A j \in pass[Chain].todo : Settled(rows[j])
  BY <1>1, <1>3 DEF PassFits
<1>5. w \in PassRecord /\ w.pc = "mark" /\ w.todo = pass[Chain].todo /\ w.item = k
  BY <1>3 DEF PassRecord, PassPc, Item
<1>6. pass' = [pass EXCEPT ![Chain] = w]
  BY <1>1, ChainIsAPass DEF RegistryInv, Typed
<1> HIDE DEF w
<1>7. /\ partner' \in [Key -> Evidence \cup {None}]
      /\ partner'[k] = IF partner[k] = None THEN rows[k].seen ELSE partner[k]
      /\ \A j \in Key : j # k => partner'[j] = partner[j]
  <2>1. rows[k] \in Observation
    BY <1>1, <1>4 DEF Settled, RegistryInv, Typed
  <2>2. rows[k].seen \in Evidence
    BY <2>1 DEF Observation, Evidence
  <2> QED
    BY <1>2, <2>2 DEF Insert, RegistryInv, Typed
<1>8. Held(rows[k], partner[k]) /\ HumanDone(k, rows[k], org, contacts) /\ Settled(rows[k])
  BY <1>1, <1>4 DEF RegistryInv, RowsFit
<1>9. partner'[k] = rows[k].seen /\ partner'[k] # None
  <2>1. partner'[k] = rows[k].seen
    BY <1>7, <1>8 DEF Held
  <2>2. rows[k].seen \in Evidence
    BY <1>8 DEF Settled, RegistryInv, Typed, Observation, Evidence
  <2> QED
    BY <2>1, <2>2, NoneIsNoRow DEF Evidence
<1>10. Typed'
  BY <1>1, <1>2, <1>5, <1>6, <1>7 DEF RegistryInv, Typed
<1>11. Grows
  BY <1>1, <1>2, <1>7, <1>9 DEF Grows, There, Settled
<1>12. RowsFit'
  <2>1. ASSUME NEW j \in Key
        PROVE  Held(rows[j], partner[j])' /\ HumanDone(j, rows[j], org, contacts)'
    <3>1. CASE j = k
      BY <1>1, <1>2, <1>8, <1>9, <3>1 DEF Held, HumanDone, Settled, There
    <3>2. CASE j # k
      BY <1>2, <1>7, <1>11, <3>2, RowsKept
    <3> QED
      BY <3>1, <3>2
  <2> QED
    BY <2>1 DEF RowsFit
<1>13. pass'[Chain] = w /\ \A o \in Pass : o # Chain => pass'[o] = pass[o]
  BY <1>6, ChainIsAPass DEF RegistryInv, Typed
<1>14. PassFits(pass[Chain])'
  BY <1>2, <1>4, <1>5, <1>9, <1>13 DEF PassFits, Settled
<1> QED
  BY <1>1, <1>10, <1>11, <1>12, <1>13, <1>14, ChainIsAPass, PassesKept, AllReviewsKept DEF RegistryInv

\* What is marked the partner has.
LEMMA Marks ==
    ASSUME RegistryInv, MarkExported
    PROVE  RegistryInv'
<1> DEFINE k == pass[Chain].item
           todo == pass[Chain].todo \ {k}
           w == [pass[Chain] EXCEPT !.pc = "send", !.todo = todo, !.item = None]
<1>1. /\ pass[Chain].pc = "mark"
      /\ pass' = [pass EXCEPT ![Chain].pc = "send", ![Chain].todo = @ \ {pass[Chain].item},
                              ![Chain].item = None]
      /\ UNCHANGED <<evidence, org, contacts, review, decided, breaks>>
  BY DEF MarkExported
<1>2. Mark(k) /\ partner' = partner
  BY DEF MarkExported, FirstSend
<1>3. pass[Chain] \in PassRecord /\ PassFits(pass[Chain])
  BY ChainIsAPass DEF RegistryInv, Typed
<1>4. /\ pass[Chain].todo \subseteq Key /\ \A j \in pass[Chain].todo : Settled(rows[j])
      /\ k \in Key /\ partner[k] # None
  BY <1>1, <1>3 DEF PassFits
<1>5. todo \in Todo /\ "send" \in PassPc /\ None \in Item
  BY <1>4, ATodo DEF PassPc, Item
<1>6. pass' = [pass EXCEPT ![Chain] = w]
  BY <1>1, ChainIsAPass DEF RegistryInv, Typed
<1>7. todo \subseteq pass[Chain].todo
  OBVIOUS
<1>8. rows' = [rows EXCEPT ![k].exported = TRUE]
  BY <1>2 DEF Mark
<1> HIDE DEF todo
<1>9. w \in PassRecord /\ w.pc = "send" /\ w.todo = todo
  BY <1>3, <1>5 DEF PassRecord
<1> HIDE DEF w, k
<1>10. Held(rows[k], partner[k]) /\ HumanDone(k, rows[k], org, contacts) /\ Settled(rows[k])
  BY <1>4 DEF RegistryInv, RowsFit, Held
<1>11. rows[k] \in Observation
  BY <1>4, <1>10 DEF Settled, RegistryInv, Typed
<1>12. 1 \in Evidence
  BY RegistryAssumption DEF Evidence
<1>13. PICK r \in Observation : /\ r = [rows[k] EXCEPT !.exported = TRUE] /\ r.exported
                                /\ r.status = rows[k].status /\ r.by = rows[k].by
                                /\ r.seen = rows[k].seen
  BY <1>11, <1>12, RowUpdates
<1>14. rows' = [rows EXCEPT ![k] = r]
  BY <1>4, <1>8, <1>13 DEF RegistryInv, Typed
<1>15. rows' \in [Key -> Observation \cup {None}] /\ Grows /\ RowsFit'
  <2>1. /\ There(rows[k]) => r.seen = rows[k].seen \/ rows[k].status = "pending"
        /\ Settled(rows[k]) => r.status # "pending"
        /\ r.exported => partner[k] # None
        /\ r.status = "accepted" /\ r.by = "human" => Effective(k, org, contacts)
    BY <1>4, <1>10, <1>13 DEF Settled, HumanDone, There
  <2> QED
    BY <1>1, <1>2, <1>4, <1>14, <2>1, RowStep
<1>16. Typed'
  BY <1>1, <1>2, <1>6, <1>9, <1>15 DEF RegistryInv, Typed
<1>17. pass'[Chain] = w /\ \A o \in Pass : o # Chain => pass'[o] = pass[o]
  BY <1>6, ChainIsAPass DEF RegistryInv, Typed
<1>18. PassFits(pass[Chain])'
  <2>1. \A j \in todo : Settled(rows'[j])
    BY <1>4, <1>7, <1>15 DEF Grows
  <2> QED
    BY <1>4, <1>7, <1>9, <1>17, <2>1 DEF PassFits, Settled
<1> QED
  BY <1>1, <1>15, <1>16, <1>17, <1>18, ChainIsAPass, PassesKept, AllReviewsKept DEF RegistryInv


--------------------------------------------------------------------------------
(* The decisions.                                                            *)

\* Whose turn it is says which plan is left.
LEMMA Turns ==
    ASSUME RegistryInv, NEW q \in Reviewer, NEW step, Turn(q, step)
    PROVE  /\ step = "bind" => review[q].todo = BindPlan
           /\ step = "ubi" => review[q].todo = UbiPlan
           /\ step = "licence" => review[q].todo = LicencePlan
           /\ step = "contact" => review[q].todo = ContactPlan
           /\ step = "write" => review[q].todo = WritePlan
<1>1. review[q].todo \in Plan /\ review[q].todo # <<>> /\ Head(review[q].todo) = step
  BY DEF RegistryInv, Typed, ReviewRecord, Turn
<1>2. review[q].todo \in {BindPlan, UbiPlan, LicencePlan, ContactPlan, WritePlan}
  BY <1>1 DEF Plan
<1> QED
  BY <1>1, <1>2, Plans

\* A statement done is off the plan, and after the last the request is over.
LEMMA WritesPlan ==
    ASSUME RegistryInv, NEW q \in Reviewer, Written(q),
           review[q].todo \in {BindPlan, UbiPlan, LicencePlan, ContactPlan}
    PROVE  \E r \in ReviewRecord : /\ review' = [review EXCEPT ![q] = r]
                                   /\ r.todo = Tail(review[q].todo)
                                   /\ r.todo \in {UbiPlan, LicencePlan, WritePlan}
                                   /\ r.key = review[q].key /\ r.verdict = review[q].verdict
<1>1. review[q] \in ReviewRecord
  BY DEF RegistryInv, Typed
<1>2. /\ Len(review[q].todo) # 1
      /\ Tail(review[q].todo) \in {UbiPlan, LicencePlan, WritePlan}
  <2>1. CASE review[q].todo = BindPlan
    BY <2>1, Plans
  <2>2. CASE review[q].todo = UbiPlan
    BY <2>2, Plans
  <2>3. CASE review[q].todo = LicencePlan
    BY <2>3, Plans
  <2>4. CASE review[q].todo = ContactPlan
    BY <2>4, Plans
  <2> QED
    BY <2>1, <2>2, <2>3, <2>4
<1> DEFINE tail == Tail(review[q].todo)
           r == [review[q] EXCEPT !.todo = tail]
<1>3. tail \in Plan
  BY <1>2 DEF Plan
<1>4. review' = [review EXCEPT ![q] = r]
  <2>1. review' = [review EXCEPT ![q] = IF Len(review[q].todo) = 1 THEN IdleReview ELSE r]
    BY DEF Written
  <2> HIDE DEF r
  <2> QED
    BY <1>2, <2>1
<1> HIDE DEF tail
<1>5. r \in ReviewRecord /\ r.todo = tail /\ r.key = review[q].key /\ r.verdict = review[q].verdict
  BY <1>1, <1>3 DEF ReviewRecord
<1> HIDE DEF r
<1> QED
  BY <1>2, <1>4, <1>5 DEF tail

LEMMA WritesLast ==
    ASSUME RegistryInv, NEW q \in Reviewer, Written(q), review[q].todo = WritePlan
    PROVE  review' = [review EXCEPT ![q] = IdleReview]
<1>1. Len(review[q].todo) = 1
  BY Plans
<1> QED
  BY <1>1 DEF Written

\* A step of a request, whatever it writes elsewhere.
LEMMA ReviewStep ==
    ASSUME RegistryInv, NEW q \in Reviewer, NEW r \in ReviewRecord,
           review' = [review EXCEPT ![q] = r], ReviewFits(r)', Typed', Grows, RowsFit', pass' = pass
    PROVE  RegistryInv'
<1>1. review'[q] = r /\ \A o \in Reviewer : o # q => review'[o] = review[o]
  BY DEF RegistryInv, Typed
<1>2. ReviewFits(review[q])'
  BY <1>1 DEF ReviewFits
<1> QED
  BY <1>1, <1>2, ReviewsKept, AllPassesKept DEF RegistryInv

\* A person reads a pending row: nothing has been done about it yet.
LEMMA Looks ==
    ASSUME RegistryInv, NEW q \in Reviewer, Look(q)
    PROVE  RegistryInv'
<1>1. PICK k \in Key, verdict \in {"accepted", "rejected"} :
          /\ rows[k] # None /\ rows[k].status = "pending"
          /\ review' = [review EXCEPT ![q] =
               [todo |-> IF verdict = "accepted" THEN Statements(k) ELSE <<"write">>,
                key |-> k, verdict |-> verdict]]
  BY DEF Look
<1>2. /\ decided < MaxDecision /\ decided' = decided + 1
      /\ UNCHANGED <<evidence, org, rows, contacts, partner, pass, breaks>>
  BY DEF Look
<1> DEFINE plan == IF verdict = "accepted" THEN Statements(k) ELSE WritePlan
           r == [todo |-> plan, key |-> k, verdict |-> verdict]
<1>3. review' = [review EXCEPT ![q] = r]
  BY <1>1 DEF WritePlan
<1>4. /\ plan \in {BindPlan, ContactPlan, WritePlan}
      /\ plan = BindPlan => k.type = "binding"
      /\ plan = ContactPlan => k.type = "phone"
      /\ plan = WritePlan /\ verdict = "accepted" => k.type \notin {"binding", "phone"}
  BY Planned, Plans, Keys
<1> HIDE DEF plan
<1>5. r \in ReviewRecord /\ r.todo = plan /\ r.key = k /\ r.verdict = verdict
  BY <1>4 DEF ReviewRecord, Plan, Item
<1> HIDE DEF r
<1>6. Typed'
  BY <1>2, <1>3, <1>5, RegistryAssumption DEF RegistryInv, Typed
<1>7. Grows
  BY <1>2 DEF Grows, There, Settled
<1>8. RowsFit'
  BY <1>2, <1>7, RowsKept DEF RowsFit
<1>9. ReviewFits(r)'
  <2>1. plan \notin {UbiPlan, LicencePlan}
    BY <1>4, Plans
  <2> QED
    BY <1>1, <1>2, <1>4, <1>5, <2>1, PlansLeft, Plans DEF ReviewFits, Effective, There
<1>10. PICK x \in ReviewRecord : x = r
  BY <1>5
<1>11. ReviewFits(x)'
  BY <1>9, <1>10 DEF ReviewFits
<1> QED
  BY <1>2, <1>3, <1>6, <1>7, <1>8, <1>10, <1>11, ReviewStep

\* The link is there before anything else of the acceptance is.
LEMMA AppliesBinding ==
    ASSUME RegistryInv, NEW q \in Reviewer, ApplyBinding(q)
    PROVE  RegistryInv'
<1>1. PICK pc \in {"bind", "ubi", "licence"} : Turn(q, pc) /\ Accepting(pc, review[q].key)
  BY DEF ApplyBinding
<1>2. Written(q) /\ UNCHANGED <<evidence, rows, contacts, partner, pass, decided, breaks>>
  BY DEF ApplyBinding
<1>3. /\ pc = "bind" => review[q].todo = BindPlan
      /\ pc = "ubi" => review[q].todo = UbiPlan
      /\ pc = "licence" => review[q].todo = LicencePlan
  BY <1>1, Turns
<1>4. review[q].todo \in {BindPlan, UbiPlan, LicencePlan}
  BY <1>3
<1>5. ReviewFits(review[q]) /\ review[q] \in ReviewRecord /\ org \in [Org -> Organization]
  BY DEF RegistryInv, Typed
<1> DEFINE k == review[q].key
<1>6. k \in Key /\ There(rows[k]) /\ k.type = "binding" /\ k.org \in Org
  BY <1>4, <1>5, PlansLeft, Keys DEF ReviewFits
<1>7. /\ org' \in [Org -> Organization]
      /\ \A o \in Org : org[o].ref # None => org'[o].ref # None
      /\ pc = "bind" => org'[k.org].ref # None
  BY <1>1, <1>5, <1>6, Accepts
<1>8. org'[k.org].ref # None
  <2>1. pc # "bind" => org[k.org].ref # None
    BY <1>3, <1>5 DEF ReviewFits
  <2> QED
    BY <1>6, <1>7, <2>1
<1>9. PICK r \in ReviewRecord : /\ review' = [review EXCEPT ![q] = r]
                               /\ r.todo \in {UbiPlan, LicencePlan, WritePlan}
                               /\ r.key = k
  BY <1>2, <1>4, WritesPlan
<1> HIDE DEF k
<1>10. Typed'
  BY <1>2, <1>7, <1>9 DEF RegistryInv, Typed
<1>11. Grows
  BY <1>2, <1>7 DEF Grows, There, Settled
<1>12. RowsFit'
  BY <1>2, <1>11, RowsKept DEF RowsFit
<1>13. ReviewFits(r)'
  <2>1. r.todo # ContactPlan
    BY <1>9, Plans
  <2> QED
    BY <1>2, <1>6, <1>8, <1>9, <2>1 DEF ReviewFits, Effective, There
<1> QED
  BY <1>2, <1>9, <1>10, <1>11, <1>12, <1>13, ReviewStep

\* The contact is there before the verdict.
LEMMA CreatesContact ==
    ASSUME RegistryInv, NEW q \in Reviewer, CreateContact(q)
    PROVE  RegistryInv'
<1> DEFINE k == review[q].key
<1>1. /\ Turn(q, "contact") /\ Written(q)
      /\ contacts' = contacts \cup {<<k.org, k.entity>>}
      /\ UNCHANGED <<evidence, org, rows, partner, pass, decided, breaks>>
  BY DEF CreateContact
<1>2. review[q].todo = ContactPlan
  BY <1>1, Turns
<1>3. ReviewFits(review[q]) /\ review[q] \in ReviewRecord
  BY DEF RegistryInv, Typed
<1>4. k \in Key /\ There(rows[k]) /\ k.type = "phone"
  BY <1>2, <1>3, PlansLeft DEF ReviewFits
<1>5. k.org \in Org /\ k.entity \in Entity
  BY <1>4, Keys
<1>6. PICK r \in ReviewRecord : /\ review' = [review EXCEPT ![q] = r]
                               /\ r.todo = Tail(review[q].todo) /\ r.key = k
  BY <1>1, <1>2, WritesPlan
<1>7. r.todo = WritePlan
  BY <1>2, <1>6, Plans
<1> HIDE DEF k
<1>8. Typed'
  BY <1>1, <1>5, <1>6 DEF RegistryInv, Typed
<1>9. Grows
  BY <1>1 DEF Grows, There, Settled
<1>10. RowsFit'
  BY <1>1, <1>9, RowsKept DEF RowsFit
<1>11. ReviewFits(r)'
  <2>1. WritePlan \notin {BindPlan, UbiPlan, LicencePlan, ContactPlan}
    BY Plans
  <2> QED
    BY <1>1, <1>4, <1>6, <1>7, <2>1 DEF ReviewFits, Effective, There
<1> QED
  BY <1>1, <1>6, <1>8, <1>9, <1>10, <1>11, ReviewStep

\* The verdict is written over whatever the row has become, its effect being there.
LEMMA WritesVerdict ==
    ASSUME RegistryInv, NEW q \in Reviewer, WriteVerdict(q)
    PROVE  RegistryInv'
<1> DEFINE k == review[q].key
           v == review[q].verdict
<1>1. /\ Turn(q, "write") /\ Written(q)
      /\ rows' = [rows EXCEPT ![k].status = v, ![k].by = "human"]
      /\ UNCHANGED <<evidence, org, contacts, partner, pass, decided, breaks>>
  BY DEF WriteVerdict
<1>2. review[q].todo = WritePlan
  BY <1>1, Turns
<1>3. ReviewFits(review[q]) /\ review[q] \in ReviewRecord
  BY DEF RegistryInv, Typed
<1>4. /\ k \in Key /\ There(rows[k]) /\ v \in {"accepted", "rejected"}
      /\ v = "accepted" => Effective(k, org, contacts)
  BY <1>2, <1>3, PlansLeft DEF ReviewFits, ReviewRecord
<1>5. rows[k] \in Observation /\ Held(rows[k], partner[k])
  BY <1>4 DEF RegistryInv, Typed, RowsFit, There
<1>6. 1 \in Evidence
  BY RegistryAssumption DEF Evidence
<1> HIDE DEF k, v
<1>7. PICK r \in Observation : /\ r = [rows[k] EXCEPT !.status = v, !.by = "human"]
                              /\ r.status = v /\ r.by = "human" /\ r.seen = rows[k].seen
                              /\ r.exported = rows[k].exported
  <2> DEFINE x == [rows[k] EXCEPT !.status = v, !.by = "human"]
  <2>1. /\ x \in Observation /\ x.status = v /\ x.by = "human" /\ x.seen = rows[k].seen
        /\ x.exported = rows[k].exported
    BY <1>4, <1>5 DEF Observation
  <2> QED
    BY <2>1, Zenon
<1>8. rows' = [rows EXCEPT ![k] = r]
  BY <1>1, <1>4, <1>7 DEF RegistryInv, Typed
<1>9. rows' \in [Key -> Observation \cup {None}] /\ Grows /\ RowsFit'
  <2>1. /\ There(rows[k]) => r.seen = rows[k].seen \/ rows[k].status = "pending"
        /\ Settled(rows[k]) => r.status # "pending"
        /\ r.exported => partner[k] # None
        /\ r.status = "accepted" /\ r.by = "human" => Effective(k, org, contacts)
    BY <1>4, <1>5, <1>7 DEF Settled, Held
  <2> QED
    BY <1>1, <1>4, <1>8, <2>1, RowStep
<1>10. PICK x \in ReviewRecord : x = IdleReview
  BY IdleReviewFits
<1>11. review' = [review EXCEPT ![q] = x]
  BY <1>1, <1>2, <1>10, WritesLast
<1>12. Typed'
  BY <1>1, <1>9, <1>11 DEF RegistryInv, Typed
<1>13. ReviewFits(x)'
  <2>1. x.todo \notin {BindPlan, UbiPlan, LicencePlan, ContactPlan, WritePlan} /\ x.todo = <<>>
    BY <1>10, IdleReviewFits, PlansLeft
  <2> QED
    BY <2>1 DEF ReviewFits
<1> QED
  BY <1>1, <1>9, <1>11, <1>12, <1>13, ReviewStep

LEMMA RecordsRelationship ==
    ASSUME RegistryInv, NEW k \in Key, RecordRelationship(k)
    PROVE  RegistryInv'
<1> DEFINE r == [status |-> "accepted", by |-> "human", seen |-> evidence, exported |-> FALSE]
<1>1. /\ k.type = "relationship_export" /\ rows[k] = None
      /\ decided < MaxDecision /\ decided' = decided + 1
      /\ rows' = [rows EXCEPT ![k] = r]
      /\ UNCHANGED <<evidence, org, contacts, partner, pass, review, breaks>>
  BY DEF RecordRelationship
<1>2. r \in Observation /\ r.status = "accepted" /\ ~r.exported
  BY DEF RegistryInv, Typed, Observation, Evidence
<1>3. PICK x \in Observation : x = r /\ x.status = "accepted" /\ ~x.exported
  BY <1>2
<1> HIDE DEF r
<1>4. rows' \in [Key -> Observation \cup {None}] /\ Grows /\ RowsFit'
  <2>1. /\ There(rows[k]) => x.seen = rows[k].seen \/ rows[k].status = "pending"
        /\ Settled(rows[k]) => x.status # "pending"
        /\ x.exported => partner[k] # None
        /\ x.status = "accepted" /\ x.by = "human" => Effective(k, org, contacts)
    BY <1>1, <1>3 DEF Settled, There, Effective
  <2>2. rows' = [rows EXCEPT ![k] = x]
    BY <1>1, <1>3
  <2> QED
    BY <1>1, <2>1, <2>2, RowStep
<1>5. Typed'
  BY <1>1, <1>4, RegistryAssumption DEF RegistryInv, Typed
<1> QED
  BY <1>1, <1>4, <1>5, AllPassesKept, AllReviewsKept DEF RegistryInv


LEMMA Changes ==
    ASSUME RegistryInv, Change
    PROVE  RegistryInv'
<1>1. /\ evidence < MaxEvidence /\ evidence' = evidence + 1
      /\ UNCHANGED <<org, rows, contacts, partner, pass, review, decided, breaks>>
  BY DEF Change
<1>2. Typed'
  BY <1>1, RegistryAssumption DEF RegistryInv, Typed, Evidence
<1>3. Grows
  BY <1>1 DEF Grows, There, Settled
<1>4. RowsFit'
  BY <1>1, <1>3, RowsKept DEF RowsFit
<1> QED
  BY <1>1, <1>2, <1>3, <1>4, AllPassesKept, AllReviewsKept DEF RegistryInv

\* Whoever dies leaves the tables as they are, and nothing of what is in them waited
\* for it.
LEMMA Breaks ==
    ASSUME RegistryInv, Break
    PROVE  RegistryInv'
<1>1. /\ breaks < MaxBreak /\ breaks' = breaks + 1
      /\ UNCHANGED <<evidence, org, rows, contacts, partner, decided>>
  BY DEF Break
<1>2. Grows
  BY <1>1 DEF Grows, There, Settled
<1>3. RowsFit'
  BY <1>1, <1>2, RowsKept DEF RowsFit
<1>4. CASE \E p \in Pass : pass' = [pass EXCEPT ![p] = IdlePass] /\ UNCHANGED review
  <2>1. PICK p \in Pass : pass' = [pass EXCEPT ![p] = IdlePass] /\ UNCHANGED review
    BY <1>4
  <2>2. Typed'
    BY <1>1, <2>1, IdleFits, RegistryAssumption DEF RegistryInv, Typed
  <2>3. pass'[p] = IdlePass /\ \A o \in Pass : o # p => pass'[o] = pass[o]
    BY <2>1 DEF RegistryInv, Typed
  <2>4. PassFits(pass[p])'
    BY <2>3, IdleFits DEF PassFits
  <2> QED
    BY <1>2, <1>3, <2>1, <2>2, <2>3, <2>4, PassesKept, AllReviewsKept DEF RegistryInv
<1>5. CASE \E q \in Reviewer : review' = [review EXCEPT ![q] = IdleReview] /\ UNCHANGED pass
  <2>1. PICK q \in Reviewer : review' = [review EXCEPT ![q] = IdleReview] /\ UNCHANGED pass
    BY <1>5
  <2>2. PICK x \in ReviewRecord : x = IdleReview
    BY IdleReviewFits
  <2>3. review' = [review EXCEPT ![q] = x] /\ pass' = pass
    BY <2>1, <2>2
  <2>4. Typed'
    BY <1>1, <2>3, RegistryAssumption DEF RegistryInv, Typed
  <2>5. ReviewFits(x)'
    <3>1. x.todo \notin {BindPlan, UbiPlan, LicencePlan, ContactPlan, WritePlan} /\ x.todo = <<>>
      BY <2>2, IdleReviewFits, PlansLeft
    <3> QED
      BY <3>1 DEF ReviewFits
  <2> QED
    BY <1>2, <1>3, <2>3, <2>4, <2>5, ReviewStep
<1> QED
  BY <1>4, <1>5 DEF Break

--------------------------------------------------------------------------------
(* The invariant.                                                            *)

LEMMA RegistryStarts ==
    ASSUME RegistryInit
    PROVE  RegistryInv
<1>1. \A p \in Pass : pass[p] = IdlePass
  BY DEF RegistryInit
<1>2. \A q \in Reviewer : review[q] = IdleReview
  BY DEF RegistryInit
<1>3. org \in [Org -> Organization]
  <2>1. UNION {Filed[o] : o \in Org} \subseteq Entity \cup {None}
    BY RegistryAssumption
  <2> DEFINE F == UNION {Filed[o] : o \in Org}
  <2>2. org \in [Org -> [ref : {None}, ubi : F, licence : {None}]]
    BY DEF RegistryInit
  <2> HIDE DEF F
  <2>3. F \subseteq Entity \cup {None}
    BY <2>1 DEF F
  <2>4. [ref : {None}, ubi : F, licence : {None}] \subseteq Organization
    BY <2>3 DEF Organization
  <2> QED
    BY <2>2, <2>4
<1>4. Typed
  <2>1. evidence \in Evidence
    BY RegistryAssumption DEF RegistryInit, Evidence
  <2>2. pass \in [Pass -> PassRecord] /\ review \in [Reviewer -> ReviewRecord]
    BY IdleFits, IdleReviewFits DEF RegistryInit
  <2>3. /\ rows \in [Key -> Observation \cup {None}] /\ contacts \subseteq Org \X Entity
        /\ partner \in [Key -> Evidence \cup {None}]
        /\ decided \in 0..MaxDecision /\ breaks \in 0..MaxBreak
    BY RegistryAssumption DEF RegistryInit
  <2> QED
    BY <1>3, <2>1, <2>2, <2>3 DEF Typed
<1>5. RowsFit
  <2>1. \A k \in Key : rows[k] = None /\ partner[k] = None
    BY DEF RegistryInit
  <2> QED
    BY <2>1 DEF RowsFit, Held, HumanDone, There
<1> QED
  BY <1>1, <1>2, <1>4, <1>5, IdleFits, IdleReviewFits DEF RegistryInv

LEMMA RegistryStep ==
    ASSUME RegistryInv, [RegistryNext]_registryVars
    PROVE  RegistryInv'
<1>1. CASE UNCHANGED registryVars
  <2>1. /\ UNCHANGED <<evidence, org, rows, contacts, partner>>
        /\ UNCHANGED <<pass, review, decided, breaks>>
    BY <1>1 DEF registryVars
  <2>2. Typed'
    BY <2>1 DEF RegistryInv, Typed
  <2>3. Grows
    BY <2>1 DEF Grows, There, Settled
  <2>4. RowsFit'
    BY <2>1, <2>3, RowsKept DEF RowsFit
  <2> QED
    BY <2>1, <2>2, <2>3, <2>4, AllPassesKept, AllReviewsKept DEF RegistryInv
<1>2. CASE StartNight \/ LinkOne \/ LinkEnds \/ MarkExported \/ NightEnds
  BY <1>2, NightStarts, Linked, LinkingEnds, Marks, NightIsOver
<1>3. ASSUME NEW p \in Pass,
             \/ Generate(p) \/ GenerateForBound(p) \/ Persist(p) \/ StrictBind(p)
             \/ GenerateEnds(p)
      PROVE  RegistryInv'
  BY <1>3, Generates, GeneratesForBound, Persists, StrictBinds, GenerationEnds
<1>4. ASSUME NEW k \in Key, ExportOne(k) \/ RecordRelationship(k)
      PROVE  RegistryInv'
  BY <1>4, Exports, RecordsRelationship
<1>5. ASSUME NEW q \in Reviewer,
             Look(q) \/ ApplyBinding(q) \/ CreateContact(q) \/ WriteVerdict(q)
      PROVE  RegistryInv'
  BY <1>5, Looks, AppliesBinding, CreatesContact, WritesVerdict
<1>6. CASE Change \/ Break
  BY <1>6, Changes, Breaks
<1> QED
  BY <1>1, <1>2, <1>3, <1>4, <1>5, <1>6 DEF RegistryNext

\* The exchange never leaves the inductive invariant: every row, every pass and every
\* decision under way is where the code can have put it.
THEOREM RegistryInvariant == RegistrySpec => []RegistryInv
<1>1. RegistryInit => RegistryInv
  BY RegistryStarts
<1>2. RegistryInv /\ [RegistryNext]_registryVars => RegistryInv'
  BY RegistryStep
<1> QED
  BY <1>1, <1>2, PTL DEF RegistrySpec

LEMMA PlansAreSteps ==
    ASSUME NEW plan \in Plan
    PROVE  plan \in Seq({"bind", "ubi", "licence", "contact", "write"})
<1>1. <<>> \in Seq(Step)
  OBVIOUS
<1>2. BindPlan \in Seq(Step) /\ UbiPlan \in Seq(Step) /\ LicencePlan \in Seq(Step)
  BY DEF Step, BindPlan, UbiPlan, LicencePlan
<1>3. ContactPlan \in Seq(Step) /\ WritePlan \in Seq(Step)
  BY DEF Step, ContactPlan, WritePlan
<1>4. plan \in Seq(Step)
  BY <1>1, <1>2, <1>3 DEF Plan
<1> QED
  BY <1>4 DEF Step

LEMMA InvGivesEffect ==
    ASSUME RegistryInv
    PROVE  AcceptedTakesEffect
<1>1. RegistryTypeOK
  <2>1. \A p \in Pass :
          /\ pass[p].pc \in {"idle", "link", "generate", "exports", "persist", "bind", "ubi",
                             "licence", "send", "mark"}
          /\ pass[p].seen \in 1..MaxEvidence /\ pass[p].proven \subseteq {"phone", "alias_export"}
    BY PassFields DEF RegistryInv, Typed, PassPc, Evidence, Rules
  <2>2. \A q \in Reviewer : /\ review[q].todo \in Plan
                            /\ review[q].key \in Key \cup {None}
                            /\ review[q].verdict \in {"accepted", "rejected"}
    BY DEF RegistryInv, Typed, ReviewRecord, Item
  <2>3. \A q \in Reviewer : review[q].todo \in Seq({"bind", "ubi", "licence", "contact", "write"})
    BY <2>2, PlansAreSteps
  <2> QED
    BY <2>1, <2>2, <2>3 DEF RegistryInv, Typed, RegistryTypeOK, Evidence
<1>2. ASSUME NEW k \in Key, rows[k] # None
      PROVE  /\ rows[k].exported => partner[k] = rows[k].seen
             /\ rows[k].status = "accepted" /\ rows[k].by = "human" =>
                  /\ k.type = "binding" => org[k.org].ref # None
                  /\ k.type = "phone" => <<k.org, k.entity>> \in contacts
  BY <1>2 DEF RegistryInv, RowsFit, Held, HumanDone, Effective, There
<1> QED
  BY <1>1, <1>2 DEF AcceptedTakesEffect

\* What the log says was done was done, whatever interleaving of passes, deaths and
\* people led there (registry-observations.ts:2122-2182, 2321-2375).
THEOREM EffectTaken == RegistrySpec => []AcceptedTakesEffect
<1>1. RegistryInv => AcceptedTakesEffect
  BY InvGivesEffect
<1> QED
  BY <1>1, RegistryInvariant, PTL


--------------------------------------------------------------------------------
(* A verdict is final.                                                       *)

\* What a step may do to a row that was decided.
Final(k) ==
    rows[k] # None /\ rows[k].status # "pending" =>
      /\ rows'[k].seen = rows[k].seen
      /\ rows'[k].exported \/ ~rows[k].exported
      /\ rows'[k].status # rows[k].status \/ rows'[k].by # rows[k].by =>
            \E q \in Reviewer : review[q].key = k /\ rows'[k].by = "human"

LEMMA SameIsFinal ==
    ASSUME NEW k \in Key, rows'[k] = rows[k]
    PROVE  Final(k)
BY DEF Final

\* The upserts of a pass leave a decided row alone.
LEMMA PersistIsFinal ==
    ASSUME RegistryInv, NEW p \in Pass, Persist(p), NEW k \in Key
    PROVE  Final(k)
<1>1. PICK item \in First(pass[p].todo) : PersistStrict(p, item) \/ PersistQueued(p, item)
  BY DEF Persist
<1>2. item.key \in Key
  <2>1. pass[p].todo \subseteq Candidate
    BY DEF RegistryInv, Typed, PassFits, Persist
  <2> QED
    BY <2>1 DEF First, Candidate
<1>3. \/ rows' = rows
      \/ /\ MayRewrite(item.key)
         /\ \A j \in Key : j # item.key => rows'[j] = rows[j]
  <2> rows \in [Key -> Observation \cup {None}]
    BY DEF RegistryInv, Typed
  <2>1. CASE PersistStrict(p, item)
    BY <1>2, <2>1 DEF PersistStrict
  <2>2. CASE PersistQueued(p, item)
    <3>1. CASE rows[item.key] = None
      BY <1>2, <2>2, <3>1 DEF PersistQueued, MayRewrite
    <3>2. CASE rows[item.key] # None
      BY <1>2, <2>2, <3>2 DEF PersistQueued
    <3> QED
      BY <3>1, <3>2
  <2> QED
    BY <1>1, <2>1, <2>2
<1> QED
  BY <1>2, <1>3 DEF Final, MayRewrite

LEMMA MarkIsFinal ==
    ASSUME RegistryInv, MarkExported, NEW k \in Key
    PROVE  Final(k)
<1>1. rows' = [rows EXCEPT ![pass[Chain].item].exported = TRUE]
  BY DEF MarkExported, FirstSend, Mark
<1> DEFINE i == pass[Chain].item
<1> HIDE DEF i
<1>2. rows' = [rows EXCEPT ![i].exported = TRUE]
  BY <1>1 DEF i
<1>3. CASE k = i /\ rows[k] # None
  <2>1. rows[k] \in Observation
    BY <1>3 DEF RegistryInv, Typed
  <2> DEFINE x == [rows[k] EXCEPT !.exported = TRUE]
  <2>2. x.exported /\ x.status = rows[k].status /\ x.by = rows[k].by /\ x.seen = rows[k].seen
    BY <2>1 DEF Observation
  <2>3. rows'[k] = x
    BY <1>2, <1>3 DEF RegistryInv, Typed
  <2> HIDE DEF x
  <2> QED
    BY <2>2, <2>3 DEF Final
<1>4. CASE k # i
  <2>1. rows'[k] = rows[k]
    BY <1>2, <1>4 DEF RegistryInv, Typed
  <2> QED
    BY <2>1, SameIsFinal
<1> QED
  BY <1>3, <1>4 DEF Final

\* Only the request that read the row writes a verdict over another.
LEMMA VerdictIsAPersons ==
    ASSUME RegistryInv, NEW q \in Reviewer, WriteVerdict(q), NEW k \in Key
    PROVE  Final(k)
<1> DEFINE i == review[q].key
           v == review[q].verdict
<1>1. rows' = [rows EXCEPT ![i].status = v, ![i].by = "human"]
  BY DEF WriteVerdict
<1>2. v \in {"accepted", "rejected"}
  BY DEF RegistryInv, Typed, ReviewRecord
<1>3. i = review[q].key
  OBVIOUS
<1> HIDE DEF i, v
<1>4. CASE k = i /\ rows[k] # None
  <2>1. rows[k] \in Observation
    BY <1>4 DEF RegistryInv, Typed
  <2> DEFINE x == [rows[k] EXCEPT !.status = v, !.by = "human"]
  <2>2. x.by = "human" /\ x.seen = rows[k].seen /\ x.exported = rows[k].exported
    BY <1>2, <2>1 DEF Observation
  <2>3. rows'[k] = x
    BY <1>1, <1>4 DEF RegistryInv, Typed
  <2> HIDE DEF x
  <2> QED
    BY <1>3, <1>4, <2>2, <2>3 DEF Final
<1>5. CASE k # i
  <2>1. rows'[k] = rows[k]
    BY <1>1, <1>5 DEF RegistryInv, Typed
  <2> QED
    BY <2>1, SameIsFinal
<1> QED
  BY <1>4, <1>5 DEF Final

LEMMA StepIsFinal ==
    ASSUME RegistryInv, RegistryNext, NEW k \in Key
    PROVE  Final(k)
<1>1. CASE rows' = rows
  BY <1>1, SameIsFinal
<1>2. CASE MarkExported
  BY <1>2, MarkIsFinal
<1>3. ASSUME NEW p \in Pass, Persist(p)
      PROVE  Final(k)
  BY <1>3, PersistIsFinal
<1>4. ASSUME NEW q \in Reviewer, WriteVerdict(q)
      PROVE  Final(k)
  BY <1>4, VerdictIsAPersons
<1>5. ASSUME NEW j \in Key, RecordRelationship(j)
      PROVE  Final(k)
  <2>1. rows[j] = None /\ (k # j => rows'[k] = rows[k])
    BY <1>5 DEF RecordRelationship, RegistryInv, Typed
  <2> QED
    BY <2>1, SameIsFinal DEF Final
<1>6. CASE StartNight \/ LinkOne \/ LinkEnds \/ NightEnds \/ Change \/ Break
  BY <1>1, <1>6 DEF StartNight, LinkOne, LinkEnds, NightEnds, Change, Break
<1>7. ASSUME NEW p \in Pass,
             Generate(p) \/ GenerateForBound(p) \/ StrictBind(p) \/ GenerateEnds(p)
      PROVE  Final(k)
  <2>1. CASE Generate(p)
    BY <1>1, <2>1 DEF Generate
  <2>2. CASE GenerateForBound(p)
    BY <1>1, <2>2 DEF GenerateForBound
  <2>3. CASE StrictBind(p)
    BY <1>1, <2>3 DEF StrictBind
  <2>4. CASE GenerateEnds(p)
    <3>1. rows' = rows
      BY <2>4, Zenon DEF GenerateEnds
    <3> QED
      BY <1>1, <3>1
  <2> QED
    BY <1>7, <2>1, <2>2, <2>3, <2>4
<1>8. ASSUME NEW j \in Key, ExportOne(j)
      PROVE  Final(k)
  BY <1>1, <1>8 DEF ExportOne, FirstSend
<1>9. ASSUME NEW q \in Reviewer, Look(q) \/ ApplyBinding(q) \/ CreateContact(q)
      PROVE  Final(k)
  BY <1>1, <1>9 DEF Look, ApplyBinding, CreateContact
<1> QED
  BY <1>2, <1>3, <1>4, <1>5, <1>6, <1>7, <1>8, <1>9 DEF RegistryNext

\* No pass rescores, promotes or reopens a decided row; only a request that had read it
\* may decide it again (registry-observations.ts:1716-1790).
THEOREM VerdictIsFinal == RegistrySpec => VerdictStands
<1>1. RegistryInv /\ [RegistryNext]_registryVars =>
        [\A k \in Key : rows[k] # None /\ rows[k].status # "pending" =>
          /\ rows'[k].seen = rows[k].seen
          /\ rows'[k].exported \/ ~rows[k].exported
          /\ rows'[k].status # rows[k].status \/ rows'[k].by # rows[k].by =>
                \E q \in Reviewer : review[q].key = k /\ rows'[k].by = "human"]_registryVars
  BY StepIsFinal DEF Final
<1> QED
  BY <1>1, RegistryInvariant, PTL DEF RegistrySpec, VerdictStands

================================================================================
