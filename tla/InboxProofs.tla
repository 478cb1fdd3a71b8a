------------------------------ MODULE InboxProofs ------------------------------
(***************************************************************************)
(* Proofs about what is put before people.                                   *)
(*                                                                         *)
(* About Delivery, for every number of weeks, opportunities, runs and        *)
(* faults: types, that a week is written once (WrittenOnce), that a mail is  *)
(* the week's row (MailIsTheRow), that its links work (LinksWork), and that  *)
(* weeks are told once (WeeksTellOnce).                                      *)
(*                                                                         *)
(* About RegistryMatch, for every registry, organization and cap: that a     *)
(* choice is offered whole (ChoicesWhole), and that the machine binds an     *)
(* organization only to the one entity it can be, and to one a person turned *)
(* down only across that person's own request (SureBinds).                   *)
(***************************************************************************)
EXTENDS Delivery, RegistryMatch, FiniteSetTheorems, NaturalsInduction, WellFoundedInduction, TLAPS

Work == [pc : {"idle", "assemble", "lookup", "insert", "item", "token", "link", "stored", "mail", "mark"},
         week : Week \cup {None}, send : BOOLEAN, listed : SUBSET Opportunity,
         easy : SUBSET Opportunity, delivered : SUBSET Opportunity,
         model : Content \cup {None}, status : {"draft", "sent"},
         todo : SUBSET Opportunity, html : Content \cup {None}]

Mail == [week : Week, content : Content]

Typed ==
    /\ facts \in [Opportunity -> Facts] /\ today \in Week
    /\ deliveries \in [Week -> DeliveryRow \cup {None}]
    /\ items \in [Week -> [Opportunity -> Nat]] /\ tokens \in [Week -> [Opportunity -> Nat]]
    /\ mails \in Seq(Mail)
    /\ work \in [Process -> Work]
    /\ overlapped \subseteq Week /\ died \subseteq Week

\* A content is what the row of w says, and its links have their tokens.
Shows(w, c) ==
    /\ deliveries[w] # None
    /\ c.shown = deliveries[w].content.shown /\ c.new = deliveries[w].content.new
    /\ \A o \in c.links : tokens[w][o] > 0

\* What a run knows where it is: its week, what it has built, that there is a row, and
\* that what it sends is the row.
Known(p) ==
    /\ work[p].pc # "idle" => work[p].week \in Week
    /\ work[p].pc \notin {"idle", "assemble"} =>
         work[p].model \in Content /\ work[p].model.links \subseteq work[p].model.shown
    /\ work[p].pc \in {"item", "token", "link", "stored", "mail", "mark"} =>
         deliveries[work[p].week] # None
    /\ work[p].pc \in {"mail", "mark"} => work[p].html \in Content /\ Shows(work[p].week, work[p].html)

Creates(p) == work[p].pc \in {"item", "token", "link"}

One(b) == IF b THEN 1 ELSE 0

\* The run that created a row has built what the row shows, and has stored an item
\* and a token for all of it but what it has still to do.
Fills(p) ==
    LET me == work[p]
        w  == work[p].week
    IN  Creates(p) =>
          /\ me.model.shown = deliveries[w].content.shown
          /\ me.model.new = deliveries[w].content.new
          /\ me.pc = "item" => me.todo \subseteq me.model.shown
          /\ me.pc = "token" => me.todo \subseteq me.model.links
          /\ me.pc = "item" => \A o \in Opportunity :
               items[w][o] = One(o \in me.model.shown \ me.todo) /\ tokens[w][o] = 0
          /\ me.pc # "item" => \A o \in Opportunity : items[w][o] = One(o \in me.model.shown)
          /\ me.pc = "token" => \A o \in Opportunity :
               tokens[w][o] = One(o \in me.model.links \ me.todo)
          /\ me.pc = "link" => \A o \in Opportunity : tokens[w][o] = One(o \in me.model.links)

\* Nobody fills a row but the run that created it.
Alone == \A p, q \in Process :
    Creates(p) /\ Creates(q) /\ work[p].week = work[q].week => p = q

\* A week's row, its items and its tokens.
Stored(w) ==
    /\ deliveries[w] = None => \A o \in Opportunity : items[w][o] = 0 /\ tokens[w][o] = 0
    /\ \A o \in Opportunity : items[w][o] <= 1 /\ tokens[w][o] <= 1
    /\ deliveries[w] # None => \A o \in deliveries[w].content.links : tokens[w][o] > 0
    /\ deliveries[w] # None /\ w \notin died /\ ~Creating(w) =>
         \A o \in Opportunity : items[w][o] > 0 <=> o \in Shown(w)

Mailed == \A i \in DOMAIN mails : Shows(mails[i].week, mails[i].content)

DeliveryInv ==
    /\ Typed
    /\ \A p \in Process : Known(p) /\ Fills(p)
    /\ Alone
    /\ \A w \in Week : Stored(w)
    /\ Mailed

--------------------------------------------------------------------------------
(* Lemmas about the operators.                                              *)

LEMMA IdleTyped == Idle \in Work /\ Idle.pc = "idle"
BY DEF Idle, Work

\* There is a first week.
LEMMA FirstWeek == \E w \in Week : \A v \in Week : w <= v
<1> DEFINE R == OpToRel(<, Nat)
<1>1. IsWellFoundedOn(R, Nat)
  BY NatLessThanWellFounded
<1>2. R = {pair \in Nat \X Nat : pair[1] < pair[2]}
  BY DEF OpToRel
<1> HIDE DEF R
<1>3. PICK w \in Week : \A v \in Week : <<v, w>> \notin R
  BY <1>1, DeliveryAssumption, WFMin
<1>4. \A v \in Week : ~(v < w)
  BY <1>2, <1>3, DeliveryAssumption
<1> QED BY <1>4, DeliveryAssumption

LEMMA InvInit == Init => DeliveryInv
<1> SUFFICES ASSUME Init PROVE DeliveryInv
  OBVIOUS
<1>1. today \in Week
  BY FirstWeek DEF Init
<1>2. Typed
  BY <1>1, IdleTyped, DeliveryAssumption DEF Init, Typed
<1>3. \A p \in Process : work[p].pc = "idle"
  BY IdleTyped DEF Init
<1>4. \A p \in Process : Known(p) /\ Fills(p)
  BY <1>3 DEF Known, Fills, Creates
<1>5. \A w \in Week : Stored(w)
  BY DEF Init, Stored
<1>6. Mailed
  BY DEF Init, Mailed
<1> QED BY <1>2, <1>3, <1>4, <1>5, <1>6 DEF DeliveryInv, Alone, Creates

\* Rows that are there stay and show the same, and no token goes.
Steady ==
    /\ \A w \in Week : deliveries[w] # None =>
         /\ deliveries'[w] # None
         /\ deliveries'[w].content.shown = deliveries[w].content.shown
         /\ deliveries'[w].content.new = deliveries[w].content.new
    /\ \A w \in Week, o \in Opportunity : tokens'[w][o] >= tokens[w][o]

LEMMA ShowsKept ==
    ASSUME Typed, Typed', Steady, NEW w \in Week, NEW c \in Content, Shows(w, c)
    PROVE  Shows(w, c)'
BY DEF Typed, Steady, Shows, Content

\* The mails that have left stay right.
LEMMA MailsKept ==
    ASSUME DeliveryInv, Typed', Steady, UNCHANGED mails
    PROVE  Mailed'
<1>1. \A i \in DOMAIN mails : mails[i] \in Mail
  BY DEF DeliveryInv, Typed
<1>2. ASSUME NEW i \in DOMAIN mails
      PROVE  /\ deliveries'[mails[i].week] # None
             /\ mails[i].content.shown = deliveries'[mails[i].week].content.shown
             /\ mails[i].content.new = deliveries'[mails[i].week].content.new
             /\ \A o \in mails[i].content.links : tokens'[mails[i].week][o] > 0
  <2>1. PICK w \in Week, c \in Content : w = mails[i].week /\ c = mails[i].content
    BY <1>1 DEF Mail
  <2>2. Shows(w, c)
    BY <2>1 DEF DeliveryInv, Mailed
  <2>3. Shows(w, c)'
    BY <2>2, ShowsKept DEF DeliveryInv
  <2> QED BY <2>1, <2>3 DEF Shows
<1> QED BY <1>2 DEF Mailed, Shows

\* What the other runs know and have filled stays true when one moves on, if it
\* touches the items and tokens of no week but one that it alone fills.
LEMMA OthersKept ==
    ASSUME DeliveryInv, Typed', Steady, NEW p \in Process,
           \A q \in Process : q # p => work'[q] = work[q],
           \A w \in Week : \/ items'[w] = items[w] /\ tokens'[w] = tokens[w]
                           \/ Creates(p) /\ w = work[p].week,
           NEW q \in Process, q # p
    PROVE  Known(q)' /\ Fills(q)'
<1> USE DEF DeliveryInv
<1>1. work'[q] = work[q] /\ work[q] \in Work
  BY DEF Typed
<1>2. Known(q)'
  <2>1. work[q].pc \in {"mail", "mark"} => Shows(work[q].week, work[q].html)'
    <3> SUFFICES ASSUME work[q].pc \in {"mail", "mark"} PROVE Shows(work[q].week, work[q].html)'
      OBVIOUS
    <3>1. PICK w \in Week, c \in Content : w = work[q].week /\ c = work[q].html /\ Shows(w, c)
      BY DEF Known
    <3>2. Shows(w, c)'
      BY <3>1, ShowsKept
    <3> QED BY <1>1, <3>1, <3>2 DEF Shows
  <2> QED BY <1>1, <2>1 DEF Known, Steady, Shows
<1>3. Fills(q)'
  <2> SUFFICES ASSUME Creates(q) PROVE Fills(q)'
    BY <1>1 DEF Fills, Creates
  <2>1. PICK w \in Week : w = work[q].week /\ deliveries[w] # None
    BY DEF Known, Creates
  <2>2. items'[w] = items[w] /\ tokens'[w] = tokens[w]
    BY <2>1 DEF Alone
  <2> QED BY <1>1, <2>1, <2>2 DEF Fills, Creates, Steady
<1> QED BY <1>2, <1>3

\* A run moves on, or stops, and writes nothing: to somewhere where it creates nothing.
LEMMA RunKept ==
    ASSUME DeliveryInv, NEW p \in Process, NEW w \in Work, work' = [work EXCEPT ![p] = w],
           UNCHANGED <<facts, today, deliveries, items, tokens, mails>>,
           overlapped' \subseteq Week, died' \subseteq Week, died \subseteq died',
           w.pc \notin {"item", "token", "link"},
           Known(p)',
           Creates(p) => work[p].week \in died'
    PROVE  DeliveryInv'
<1> USE DEF DeliveryInv
<1>1. work' \in [Process -> Work] /\ work'[p] = w /\ \A q \in Process : q # p => work'[q] = work[q]
  BY DEF Typed
<1>2. Typed'
  BY <1>1 DEF Typed
<1>3. Steady
  BY DEF Steady, Typed
<1>4. Mailed'
  BY <1>2, <1>3, MailsKept
<1>5. \A q \in Process : Known(q)' /\ Fills(q)'
  <2>1. Fills(p)'
    BY <1>1 DEF Fills, Creates
  <2> QED BY <1>1, <1>2, <1>3, <2>1, OthersKept
<1>6. \A q \in Process : Creates(q)' => Creates(q) /\ q # p /\ work'[q] = work[q]
  BY <1>1 DEF Creates
<1>7. Alone'
  BY <1>6 DEF Alone
<1>8. ASSUME NEW v \in Week PROVE Stored(v)'
  <2>1. v \notin died' /\ ~Creating(v)' => v \notin died /\ ~Creating(v)
    <3> SUFFICES ASSUME v \notin died', NEW q \in Process, work[q].week = v, Creates(q)
                 PROVE  Creating(v)'
      BY DEF Creating, Creates
    <3>1. q # p
      OBVIOUS
    <3> QED BY <1>1, <3>1 DEF Creating, Creates
  <2> QED BY <2>1 DEF Stored, Shown
<1> QED BY <1>2, <1>4, <1>5, <1>7, <1>8

LEMMA IdleKept ==
    ASSUME DeliveryInv, NEW p \in Process, work' = [work EXCEPT ![p] = Idle],
           UNCHANGED <<facts, today, deliveries, items, tokens, mails>>,
           overlapped' \subseteq Week, died' \subseteq Week, died \subseteq died',
           Creates(p) => work[p].week \in died'
    PROVE  DeliveryInv'
<1>1. work'[p].pc = "idle"
  BY IdleTyped DEF DeliveryInv, Typed
<1>2. Known(p)'
  BY <1>1 DEF Known
<1> QED BY <1>2, IdleTyped, RunKept

--------------------------------------------------------------------------------
(* The inductive invariant, action by action.                               *)

LEMMA LoadKeeps ==
    ASSUME DeliveryInv, NEW p \in Process, NEW w \in Week, NEW send \in BOOLEAN, Load(p, w, send)
    PROVE  DeliveryInv'
<1> USE DEF DeliveryInv
<1> DEFINE listed == {o \in Opportunity : facts[o].listed}
           me == [Idle EXCEPT !.pc = "assemble", !.week = w, !.send = send, !.listed = listed,
                              !.easy = {o \in listed : facts[o].easy},
                              !.delivered = PreviouslyDelivered]
<1>1. /\ work' = [work EXCEPT ![p] = me] /\ ~Busy(p)
      /\ UNCHANGED <<facts, today, deliveries, items, tokens, mails, died>>
  BY DEF Load, tables
<1>2. overlapped' \subseteq Week
  <2>1. \A q \in Process : Busy(q) => work[q].week \in Week
    BY DEF Known, Busy
  <2> QED BY <2>1 DEF Load, Typed
<1>3. me \in Work /\ me.pc = "assemble" /\ me.week = w
  <2>1. PreviouslyDelivered \subseteq Opportunity
    BY DEF PreviouslyDelivered
  <2> QED BY <2>1, IdleTyped DEF Work
<1> HIDE DEF me
<1>4. Known(p)' /\ ~Creates(p)
  <2>1. work'[p] = me
    BY <1>1 DEF Typed
  <2> QED BY <1>1, <1>3, <2>1 DEF Known, Creates, Busy
<1> QED BY <1>1, <1>2, <1>3, <1>4, RunKept DEF Typed

LEMMA AssembleKeeps ==
    ASSUME DeliveryInv, NEW p \in Process, Assemble(p)
    PROVE  DeliveryInv'
<1> USE DEF DeliveryInv
<1> DEFINE shown == {o \in work[p].listed : facts[o].passes /\ facts[o].auto}
           model == [shown |-> shown, new |-> shown \ work[p].delivered,
                     links |-> IF ActionLinks THEN work[p].easy \cap shown ELSE {}]
           me == [work[p] EXCEPT !.pc = "lookup", !.model = model]
<1>1. work[p] \in Work /\ work[p].pc = "assemble" /\ work[p].week \in Week
  BY DEF Assemble, Typed, Known
<1>2. UNCHANGED <<facts, today, deliveries, items, tokens, mails, overlapped, died>>
  BY DEF Assemble, tables
<1>3. work' = [work EXCEPT ![p] = me]
  BY <1>1 DEF Assemble, Typed
<1>4. model \in Content /\ model.links \subseteq model.shown
  BY <1>1 DEF Work, Content
<1> HIDE DEF model
<1>5. me \in Work /\ me.pc = "lookup" /\ me.week = work[p].week /\ me.model = model
  BY <1>1, <1>4 DEF Work
<1> HIDE DEF me
<1>6. Known(p)' /\ ~Creates(p)
  <2>1. work'[p] = me
    BY <1>3 DEF Typed
  <2> QED BY <1>1, <1>4, <1>5, <2>1 DEF Known, Creates
<1> QED BY <1>2, <1>3, <1>5, <1>6, RunKept DEF Typed

\* A run that finds the row there sends it, or has nothing to do.
LEMMA SeesRowPlaces ==
    ASSUME NEW me \in Work, NEW row \in DeliveryRow
    PROVE  LET seen == SeesRow(me, row)
           IN  /\ seen \in Work
               /\ \/ seen.pc = "idle"
                  \/ seen.pc = "stored" /\ seen.week = me.week /\ seen.model = me.model
<1> DEFINE you == [me EXCEPT !.status = row.status]
           there == [you EXCEPT !.pc = "stored"]
<1>1. you \in Work
  BY DEF Work, DeliveryRow
<1>2. there \in Work /\ there.pc = "stored" /\ there.week = me.week /\ there.model = me.model
  BY DEF Work, DeliveryRow
<1>3. AfterRow(me, row.status) \in {"stored", "idle"}
  BY DEF AfterRow
<1>4. SeesRow(me, row) = IF AfterRow(me, row.status) = "idle" THEN Idle ELSE there
  BY <1>3 DEF SeesRow, At
<1> QED BY <1>2, <1>4, IdleTyped

LEMMA LookupKeeps ==
    ASSUME DeliveryInv, NEW p \in Process, Lookup(p)
    PROVE  DeliveryInv'
<1> USE DEF DeliveryInv
<1>1. work[p] \in Work /\ work[p].pc = "lookup" /\ work[p].week \in Week
      /\ work[p].model \in Content /\ work[p].model.links \subseteq work[p].model.shown
  BY DEF Lookup, Typed, Known
<1>2. UNCHANGED <<facts, today, deliveries, items, tokens, mails, overlapped, died>>
  BY DEF Lookup, tables
<1>3. PICK me \in Work :
        /\ work' = [work EXCEPT ![p] = me]
        /\ \/ me.pc = "idle"
           \/ me.pc = "insert" /\ me.week = work[p].week /\ me.model = work[p].model
           \/ me.pc = "stored" /\ me.week = work[p].week /\ me.model = work[p].model
              /\ deliveries[work[p].week] # None
  <2>1. CASE deliveries[work[p].week] = None
    <3> DEFINE me == [work[p] EXCEPT !.pc = "insert"]
    <3>1. me \in Work /\ me.pc = "insert" /\ me.week = work[p].week /\ me.model = work[p].model
      BY <1>1 DEF Work
    <3>2. work' = [work EXCEPT ![p] = me]
      BY <2>1 DEF Lookup, At
    <3> QED BY <3>1, <3>2
  <2>2. CASE deliveries[work[p].week] # None
    <3>1. work' = [work EXCEPT ![p] = SeesRow(work[p], deliveries[work[p].week])]
      BY <2>2 DEF Lookup
    <3>2. deliveries[work[p].week] \in DeliveryRow
      BY <1>1, <2>2 DEF Typed
    <3> QED BY <1>1, <2>2, <3>1, <3>2, SeesRowPlaces
  <2> QED BY <2>1, <2>2
<1>4. Known(p)' /\ ~Creates(p)
  <2>1. work'[p] = me
    BY <1>3 DEF Typed
  <2> QED BY <1>1, <1>2, <1>3, <2>1 DEF Known, Creates
<1> QED BY <1>2, <1>3, <1>4, RunKept DEF Typed

--------------------------------------------------------------------------------
(* Filling a row.                                                           *)

\* A run that writes to one week, which nobody else fills.
LEMMA FillKept ==
    ASSUME DeliveryInv, Typed', Steady, UNCHANGED <<mails, died>>,
           NEW p \in Process, NEW w \in Week, work[p].week = w,
           \A q \in Process : q # p => work'[q] = work[q] /\ ~(Creates(q) /\ work[q].week = w),
           \A v \in Week : v # w =>
             deliveries'[v] = deliveries[v] /\ items'[v] = items[v] /\ tokens'[v] = tokens[v],
           Creates(p) \/ (items'[w] = items[w] /\ tokens'[w] = tokens[w]),
           Known(p)', Fills(p)', Creates(p)' => work'[p].week = w, Stored(w)'
    PROVE  DeliveryInv'
<1> USE DEF DeliveryInv
<1>1. Mailed'
  BY MailsKept
<1>2. \A q \in Process : Known(q)' /\ Fills(q)'
  BY OthersKept
<1>3. \A q \in Process : q # p => (Creates(q)' <=> Creates(q))
  BY DEF Creates
<1>4. Alone'
  <2> SUFFICES ASSUME NEW q \in Process, NEW r \in Process, Creates(q)', Creates(r)',
                      work'[q].week = work'[r].week
               PROVE  q = r
    BY DEF Alone
  <2> QED BY <1>3 DEF Alone
<1>5. ASSUME NEW v \in Week, v # w PROVE Stored(v)'
  <2>1. Creating(v)' <=> Creating(v)
    BY <1>3, <1>5 DEF Creating, Creates
  <2> QED BY <1>5, <2>1 DEF Stored, Shown
<1> QED BY <1>1, <1>2, <1>4, <1>5

\* Where a run goes that has stored all items and tokens.
Done(me) == At(me, AfterRow(me, "draft"))

LEMMA AfterRowPlaces ==
    ASSUME NEW me \in Work
    PROVE  /\ Done(me) \in Work
           /\ \/ Done(me).pc = "idle"
              \/ /\ Done(me).pc = "stored" /\ Done(me).week = me.week
                 /\ Done(me).model = me.model
<1> DEFINE there == [me EXCEPT !.pc = "stored"]
<1>1. there \in Work /\ there.pc = "stored" /\ there.week = me.week /\ there.model = me.model
  BY DEF Work
<1>2. AfterRow(me, "draft") \in {"stored", "idle"}
  BY DEF AfterRow
<1>3. Done(me) = IF AfterRow(me, "draft") = "idle" THEN Idle ELSE there
  BY <1>2 DEF At, Done
<1> QED BY <1>1, <1>3, IdleTyped

\* The row of a week that had none: the one who inserts it fills it.
LEMMA InsertKeeps ==
    ASSUME DeliveryInv, NEW p \in Process, Insert(p)
    PROVE  DeliveryInv'
<1> USE DEF DeliveryInv
<1>1. PICK w \in Week : w = work[p].week /\ work[p] \in Work /\ work[p].pc = "insert"
      /\ work[p].model \in Content /\ work[p].model.links \subseteq work[p].model.shown
  BY DEF Insert, Typed, Known
<1>2. UNCHANGED <<facts, today, items, tokens, mails, overlapped, died>>
  BY DEF Insert
<1>3. CASE deliveries[w] = None
  <2> DEFINE me == work[p]
             content == [me.model EXCEPT !.links = {}]
             won == [me EXCEPT !.todo = me.model.shown]
             row == [status |-> "draft", content |-> content]
  <2>1. /\ deliveries' = [deliveries EXCEPT ![w] = row]
        /\ work' = [work EXCEPT ![p] = At(won, AfterItem(won))]
    BY <1>1, <1>3 DEF Insert
  <2>2. content \in Content /\ content.shown = me.model.shown /\ content.new = me.model.new
        /\ content.links = {}
    BY <1>1 DEF Content
  <2>3. row \in DeliveryRow /\ row # None /\ row.content = content
    BY <2>2, NoneIsNothing DEF DeliveryRow
  <2>4. won \in Work /\ won.week = w /\ won.model = me.model /\ won.todo = me.model.shown
    BY <1>1 DEF Work, Content
  <2> HIDE DEF content, row, won
  <2>5. PICK you \in Work :
          /\ work' = [work EXCEPT ![p] = you]
          /\ \/ you.pc = "item" /\ you.week = w /\ you.model = me.model /\ you.todo = me.model.shown
             \/ you.pc = "stored" /\ you.week = w /\ you.model = me.model /\ me.model.shown = {}
             \/ you.pc = "idle" /\ me.model.shown = {}
    <3>1. CASE me.model.shown # {}
      <4> DEFINE you == [won EXCEPT !.pc = "item"]
      <4>1. work' = [work EXCEPT ![p] = you]
        BY <2>1, <2>4, <3>1 DEF AfterItem, At
      <4>2. you \in Work /\ you.pc = "item" /\ you.week = won.week /\ you.model = won.model
            /\ you.todo = won.todo
        BY <2>4 DEF Work
      <4> QED BY <2>4, <4>1, <4>2
    <3>2. CASE me.model.shown = {}
      <4>1. AfterItem(won) = AfterRow(won, "draft")
        BY <1>1, <2>4, <3>2 DEF AfterItem
      <4> DEFINE you == Done(won)
      <4>2. /\ you \in Work
            /\ you.pc = "idle" \/ (you.pc = "stored" /\ you.week = w /\ you.model = me.model)
        BY <2>4, AfterRowPlaces
      <4>3. work' = [work EXCEPT ![p] = you]
        BY <2>1, <4>1 DEF Done
      <4> HIDE DEF you
      <4> QED BY <3>2, <4>2, <4>3
    <3> QED BY <3>1, <3>2
  <2>6. work' \in [Process -> Work] /\ work'[p] = you /\ \A q \in Process : q # p => work'[q] = work[q]
    BY <2>5 DEF Typed
  <2>7. deliveries' \in [Week -> DeliveryRow \cup {None}] /\ deliveries'[w] = row
        /\ \A v \in Week : v # w => deliveries'[v] = deliveries[v]
    BY <2>1, <2>3 DEF Typed
  <2>8. Typed' /\ Steady
    <3>1. Typed'
      BY <1>2, <2>6, <2>7 DEF Typed
    <3>2. \A v \in Week, o \in Opportunity : tokens'[v][o] >= tokens[v][o]
      BY <1>2 DEF Typed
    <3>3. \A v \in Week : deliveries[v] # None => deliveries'[v] = deliveries[v]
      BY <1>3, <2>7
    <3> QED BY <3>1, <3>2, <3>3 DEF Steady
  <2>9. \A q \in Process : ~(Creates(q) /\ work[q].week = w)
    BY <1>3 DEF Creates, Known
  <2>10. \A o \in Opportunity : items[w][o] = 0 /\ tokens[w][o] = 0
    BY <1>3 DEF Stored
  <2>11. Known(p)' /\ Fills(p)' /\ (Creates(p)' => work'[p].week = w)
    BY <1>1, <1>2, <2>2, <2>3, <2>5, <2>6, <2>7, <2>10 DEF Known, Fills, Creates, One, Content
  <2>12. Stored(w)'
    <3>1. me.model.shown = {} \/ Creating(w)'
      BY <2>5, <2>6 DEF Creating
    <3> QED BY <1>2, <2>2, <2>3, <2>7, <2>10, <3>1 DEF Stored, Shown
  <2> QED BY <1>1, <1>2, <2>6, <2>7, <2>8, <2>9, <2>11, <2>12, FillKept
<1>4. CASE deliveries[w] # None
  <2>1. deliveries' = deliveries /\ work' = [work EXCEPT ![p] = SeesRow(work[p], deliveries[w])]
    BY <1>1, <1>4 DEF Insert, LostRace
  <2>2. deliveries[w] \in DeliveryRow
    BY <1>4 DEF Typed
  <2>3. PICK you \in Work :
          /\ work' = [work EXCEPT ![p] = you]
          /\ \/ you.pc = "idle"
             \/ you.pc = "stored" /\ you.week = w /\ you.model = work[p].model
    BY <1>1, <2>1, <2>2, SeesRowPlaces
  <2>4. Known(p)' /\ ~Creates(p)
    <3>1. work'[p] = you
      BY <2>3 DEF Typed
    <3> QED BY <1>1, <1>4, <2>1, <2>3, <3>1 DEF Known, Creates
  <2> QED BY <1>2, <2>1, <2>3, <2>4, RunKept DEF Typed
<1> QED BY <1>3, <1>4

\* One item more: the next one, or the tokens, or nothing that fills the row.
LEMMA InsertItemKeeps ==
    ASSUME DeliveryInv, NEW p \in Process, InsertItem(p)
    PROVE  DeliveryInv'
<1> USE DEF DeliveryInv
<1>1. PICK w \in Week : w = work[p].week /\ work[p] \in Work /\ work[p].pc = "item"
      /\ work[p].model \in Content /\ work[p].model.links \subseteq work[p].model.shown
      /\ deliveries[w] # None
  BY DEF InsertItem, Typed, Known
<1>2. UNCHANGED <<facts, today, deliveries, tokens, mails, overlapped, died>>
  BY DEF InsertItem
<1>3. PICK o \in work[p].todo :
        LET me == [work[p] EXCEPT !.todo = @ \ {o}]
        IN  /\ items' = [items EXCEPT ![me.week][o] = @ + 1]
            /\ work' = [work EXCEPT ![p] =
                   At([me EXCEPT !.todo = IF AfterItem(me) = "token" THEN me.model.links ELSE @],
                      AfterItem(me))]
  BY DEF InsertItem
<1> DEFINE me == [work[p] EXCEPT !.todo = @ \ {o}]
           moved == [me EXCEPT !.todo = IF AfterItem(me) = "token" THEN me.model.links ELSE @]
<1>4. /\ me \in Work /\ me.week = w /\ me.model = work[p].model /\ me.todo = work[p].todo \ {o}
      /\ o \in Opportunity
  BY <1>1 DEF Work
<1>5. /\ items' = [items EXCEPT ![w][o] = @ + 1]
      /\ work' = [work EXCEPT ![p] = At(moved, AfterItem(me))]
  BY <1>3, <1>4
<1> HIDE DEF me
<1>6. /\ moved \in Work /\ moved.week = w /\ moved.model = work[p].model
      /\ moved.todo = IF AfterItem(me) = "token" THEN me.model.links ELSE me.todo
  BY <1>1, <1>4 DEF Work, Content
<1> HIDE DEF moved
<1>7. \A x \in Opportunity : items[w][x] = One(x \in work[p].model.shown \ work[p].todo) /\ tokens[w][x] = 0
  BY <1>1 DEF Fills, Creates
<1>8. /\ work[p].model.shown = deliveries[w].content.shown
      /\ work[p].model.new = deliveries[w].content.new
      /\ work[p].todo \subseteq work[p].model.shown
  BY <1>1 DEF Fills, Creates
<1>9. PICK you \in Work :
        /\ work' = [work EXCEPT ![p] = you]
        /\ \/ /\ you.pc = "item" /\ you.week = w /\ you.model = work[p].model
              /\ you.todo = work[p].todo \ {o}
           \/ /\ you.pc = "token" /\ you.week = w /\ you.model = work[p].model
              /\ you.todo = work[p].model.links /\ work[p].todo \ {o} = {}
           \/ you.pc = "stored" /\ you.week = w /\ you.model = work[p].model /\ work[p].todo \ {o} = {}
           \/ you.pc = "idle" /\ work[p].todo \ {o} = {}
  <2>1. CASE AfterItem(me) \in {"item", "token"}
    <3> DEFINE you == [moved EXCEPT !.pc = AfterItem(me)]
    <3>1. work' = [work EXCEPT ![p] = you]
      BY <1>5, <2>1 DEF At
    <3>2. you \in Work /\ you.pc = AfterItem(me) /\ you.week = w /\ you.model = work[p].model
          /\ you.todo = moved.todo
      BY <1>6, <2>1 DEF Work
    <3>3. AfterItem(me) = "token" => me.todo = {}
      BY DEF AfterItem
    <3> HIDE DEF you
    <3>4. AfterItem(me) = "item" => moved.todo = work[p].todo \ {o}
      BY <1>4, <1>6
    <3>5. AfterItem(me) = "token" => moved.todo = work[p].model.links /\ work[p].todo \ {o} = {}
      BY <1>4, <1>6, <3>3
    <3> QED BY <2>1, <3>1, <3>2, <3>4, <3>5
  <2>2. CASE AfterItem(me) \notin {"item", "token"}
    <3>1. me.todo = {} /\ AfterItem(me) = AfterRow(moved, "draft")
      BY <1>1, <1>4, <1>6, <2>2 DEF AfterItem, AfterRow, At, Work, me, moved
    <3> DEFINE you == Done(moved)
    <3>2. /\ you \in Work
          /\ you.pc = "idle" \/ (you.pc = "stored" /\ you.week = w /\ you.model = work[p].model)
      BY <1>6, AfterRowPlaces
    <3>3. work' = [work EXCEPT ![p] = you]
      BY <1>5, <3>1 DEF Done
    <3> HIDE DEF you
    <3> QED BY <1>4, <3>1, <3>2, <3>3
  <2> QED BY <2>1, <2>2
<1>10. work' \in [Process -> Work] /\ work'[p] = you /\ \A q \in Process : q # p => work'[q] = work[q]
  BY <1>9 DEF Typed
<1>11. /\ items' \in [Week -> [Opportunity -> Nat]]
       /\ \A v \in Week : v # w => items'[v] = items[v]
       /\ items'[w][o] = 1 /\ \A x \in Opportunity : x # o => items'[w][x] = items[w][x]
  BY <1>3, <1>4, <1>5, <1>7 DEF Typed, One
<1>12. \A x \in Opportunity : items'[w][x] = One(x \in work[p].model.shown \ (work[p].todo \ {o}))
  BY <1>3, <1>4, <1>7, <1>8, <1>11 DEF One
<1>13. Typed' /\ Steady
  <2>1. Typed'
    BY <1>2, <1>10, <1>11 DEF Typed
  <2>2. Steady
    BY <1>2 DEF Steady, Typed
  <2> QED BY <2>1, <2>2
<1>14. \A q \in Process : q # p => ~(Creates(q) /\ work[q].week = w)
  BY <1>1 DEF Alone, Creates
<1>15. Known(p)' /\ (Creates(p)' => work'[p].week = w)
  BY <1>1, <1>2, <1>9, <1>10 DEF Known, Creates
<1>16. Fills(p)'
  BY <1>2, <1>7, <1>8, <1>9, <1>10, <1>12 DEF Fills, Creates, One
<1>17. Stored(w)'
  <2>1. work[p].todo \ {o} = {} \/ Creating(w)'
    BY <1>9, <1>10 DEF Creating
  <2>2. \A x \in Opportunity : items'[w][x] <= 1 /\ tokens'[w][x] <= 1
    BY <1>2, <1>7, <1>12 DEF One
  <2>3. \A x \in deliveries[w].content.links : tokens[w][x] > 0
    BY <1>1 DEF Stored
  <2>4. work[p].todo \ {o} = {} => \A x \in Opportunity : items'[w][x] > 0 <=> x \in Shown(w)
    BY <1>8, <1>12 DEF One, Shown
  <2> QED BY <1>1, <1>2, <2>1, <2>2, <2>3, <2>4 DEF Stored, Shown
<1>18. Creates(p)
  BY <1>1 DEF Creates
<1> QED BY <1>1, <1>2, <1>10, <1>11, <1>13, <1>14, <1>15, <1>16, <1>17, <1>18, FillKept

\* One token more: the next one, or the links.
LEMMA IssueTokenKeeps ==
    ASSUME DeliveryInv, NEW p \in Process, IssueToken(p)
    PROVE  DeliveryInv'
<1> USE DEF DeliveryInv
<1>1. PICK w \in Week : w = work[p].week /\ work[p] \in Work /\ work[p].pc = "token"
      /\ work[p].model \in Content /\ work[p].model.links \subseteq work[p].model.shown
      /\ deliveries[w] # None
  BY DEF IssueToken, Typed, Known
<1>2. UNCHANGED <<facts, today, deliveries, items, mails, overlapped, died>>
  BY DEF IssueToken
<1>3. PICK o \in work[p].todo :
        LET me == [work[p] EXCEPT !.todo = @ \ {o}]
        IN  /\ tokens' = [tokens EXCEPT ![me.week][o] = @ + 1]
            /\ work' = [work EXCEPT ![p] = At(me, IF me.todo = {} THEN "link" ELSE "token")]
  BY DEF IssueToken
<1> DEFINE me == [work[p] EXCEPT !.todo = @ \ {o}]
           you == [me EXCEPT !.pc = IF me.todo = {} THEN "link" ELSE "token"]
<1>4. /\ me \in Work /\ me.week = w /\ me.model = work[p].model /\ me.todo = work[p].todo \ {o}
      /\ o \in Opportunity
  BY <1>1 DEF Work
<1>5. /\ tokens' = [tokens EXCEPT ![w][o] = @ + 1]
      /\ work' = [work EXCEPT ![p] = you]
  BY <1>3, <1>4 DEF At
<1> HIDE DEF me
<1>6. /\ you \in Work /\ you.week = w /\ you.model = work[p].model /\ you.todo = work[p].todo \ {o}
      /\ you.pc = IF work[p].todo \ {o} = {} THEN "link" ELSE "token"
  BY <1>4 DEF Work
<1> HIDE DEF you
<1>7. /\ work[p].model.shown = deliveries[w].content.shown
      /\ work[p].model.new = deliveries[w].content.new
      /\ work[p].todo \subseteq work[p].model.links
      /\ \A x \in Opportunity : /\ items[w][x] = One(x \in work[p].model.shown)
                                /\ tokens[w][x] = One(x \in work[p].model.links \ work[p].todo)
  BY <1>1 DEF Fills, Creates
<1>8. work' \in [Process -> Work] /\ work'[p] = you /\ \A q \in Process : q # p => work'[q] = work[q]
  BY <1>5, <1>6 DEF Typed
<1>9. /\ tokens' \in [Week -> [Opportunity -> Nat]]
      /\ \A v \in Week : v # w => tokens'[v] = tokens[v]
      /\ tokens'[w][o] = 1 /\ \A x \in Opportunity : x # o => tokens'[w][x] = tokens[w][x]
  BY <1>3, <1>4, <1>5, <1>7 DEF Typed, One
<1>10. \A x \in Opportunity : tokens'[w][x] = One(x \in work[p].model.links \ (work[p].todo \ {o}))
  BY <1>3, <1>4, <1>7, <1>9 DEF One
<1>11. Typed' /\ Steady
  <2>1. Typed'
    BY <1>2, <1>8, <1>9 DEF Typed
  <2>2. \A v \in Week, x \in Opportunity : tokens'[v][x] >= tokens[v][x]
    BY <1>4, <1>5 DEF Typed
  <2> QED BY <1>2, <2>1, <2>2 DEF Steady
<1>12. \A q \in Process : q # p => ~(Creates(q) /\ work[q].week = w)
  BY <1>1 DEF Alone, Creates
<1>13. Known(p)' /\ (Creates(p)' => work'[p].week = w)
  BY <1>1, <1>2, <1>6, <1>8 DEF Known, Creates
<1>14. Fills(p)'
  BY <1>2, <1>6, <1>7, <1>8, <1>10 DEF Fills, Creates, One
<1>15. Stored(w)'
  <2>1. Creating(w)'
    BY <1>6, <1>8 DEF Creating
  <2>2. \A x \in Opportunity : items'[w][x] <= 1 /\ tokens'[w][x] <= 1
    BY <1>2, <1>7, <1>10 DEF One
  <2>3. \A x \in deliveries[w].content.links : tokens'[w][x] > 0
    <3>1. \A x \in deliveries[w].content.links : tokens[w][x] > 0 /\ x \in Opportunity
      BY <1>1 DEF Stored, Typed, DeliveryRow, Content
    <3> QED BY <1>9, <3>1
  <2> QED BY <1>1, <1>2, <2>1, <2>2, <2>3 DEF Stored
<1>16. Creates(p)
  BY <1>1 DEF Creates
<1> QED BY <1>1, <1>2, <1>8, <1>9, <1>11, <1>12, <1>13, <1>14, <1>15, <1>16, FillKept

\* The content gets its links when all of them have their tokens.
LEMMA WriteLinksKeeps ==
    ASSUME DeliveryInv, NEW p \in Process, WriteLinks(p)
    PROVE  DeliveryInv'
<1> USE DEF DeliveryInv
<1>1. PICK w \in Week : w = work[p].week /\ work[p] \in Work /\ work[p].pc = "link"
      /\ work[p].model \in Content /\ work[p].model.links \subseteq work[p].model.shown
      /\ deliveries[w] # None
  BY DEF WriteLinks, Typed, Known
<1>2. UNCHANGED <<facts, today, items, tokens, mails, overlapped, died>>
  BY DEF WriteLinks
<1>3. /\ work[p].model.shown = deliveries[w].content.shown
      /\ work[p].model.new = deliveries[w].content.new
      /\ \A x \in Opportunity : /\ items[w][x] = One(x \in work[p].model.shown)
                                /\ tokens[w][x] = One(x \in work[p].model.links)
  BY <1>1 DEF Fills, Creates
<1> DEFINE you == Done(work[p])
<1>4. /\ deliveries' = [deliveries EXCEPT ![w].content = work[p].model]
      /\ work' = [work EXCEPT ![p] = you]
  BY <1>1 DEF WriteLinks, Done
<1>5. /\ you \in Work
      /\ you.pc = "idle" \/ (you.pc = "stored" /\ you.week = w /\ you.model = work[p].model)
  BY <1>1, AfterRowPlaces
<1> HIDE DEF you
<1>6. work' \in [Process -> Work] /\ work'[p] = you /\ \A q \in Process : q # p => work'[q] = work[q]
  BY <1>4, <1>5 DEF Typed
<1>7. /\ deliveries' \in [Week -> DeliveryRow \cup {None}] /\ deliveries'[w] # None
      /\ deliveries'[w].content = work[p].model
      /\ \A v \in Week : v # w => deliveries'[v] = deliveries[v]
  <2>1. deliveries[w] \in DeliveryRow
    BY <1>1 DEF Typed
  <2>2. [deliveries[w] EXCEPT !.content = work[p].model] \in DeliveryRow
        /\ [deliveries[w] EXCEPT !.content = work[p].model].content = work[p].model
    BY <1>1, <2>1 DEF DeliveryRow
  <2>3. [deliveries[w] EXCEPT !.content = work[p].model] # None
    BY <2>2, NoneIsNothing
  <2> QED BY <1>4, <2>2, <2>3 DEF Typed
<1>8. Typed' /\ Steady
  <2>1. Typed'
    BY <1>2, <1>6, <1>7 DEF Typed
  <2>2. \A v \in Week, x \in Opportunity : tokens'[v][x] >= tokens[v][x]
    BY <1>2 DEF Typed
  <2>3. \A v \in Week : deliveries[v] # None =>
          /\ deliveries'[v] # None
          /\ deliveries'[v].content.shown = deliveries[v].content.shown
          /\ deliveries'[v].content.new = deliveries[v].content.new
    BY <1>3, <1>7
  <2> QED BY <2>1, <2>2, <2>3 DEF Steady
<1>9. \A q \in Process : q # p => ~(Creates(q) /\ work[q].week = w)
  BY <1>1 DEF Alone, Creates
<1>10. Known(p)' /\ Fills(p)' /\ ~Creates(p)'
  BY <1>1, <1>5, <1>6, <1>7 DEF Known, Fills, Creates
<1>11. Stored(w)'
  <2>1. work[p].model.links \subseteq Opportunity
    BY <1>1 DEF Content
  <2> QED BY <1>2, <1>3, <1>7, <2>1 DEF Stored, Shown, One
<1> QED BY <1>1, <1>2, <1>6, <1>7, <1>8, <1>9, <1>10, <1>11, FillKept

--------------------------------------------------------------------------------
(* Sending, and the world.                                                  *)

\* What is sent is what is stored.
LEMMA ReadStoredKeeps ==
    ASSUME DeliveryInv, NEW p \in Process, ReadStored(p)
    PROVE  DeliveryInv'
<1> USE DEF DeliveryInv
<1>1. PICK w \in Week : w = work[p].week /\ work[p] \in Work /\ work[p].pc = "stored"
      /\ work[p].model \in Content /\ work[p].model.links \subseteq work[p].model.shown
      /\ deliveries[w] # None
  BY DEF ReadStored, Typed, Known
<1>2. UNCHANGED <<facts, today, deliveries, items, tokens, mails, overlapped, died>>
  BY DEF ReadStored, tables
<1> DEFINE you == [work[p] EXCEPT !.html = deliveries[w].content, !.pc = "mail"]
<1>3. work' = [work EXCEPT ![p] = you]
  BY <1>1 DEF ReadStored, Typed
<1>4. deliveries[w].content \in Content /\ Shows(w, deliveries[w].content)
  BY <1>1 DEF Typed, DeliveryRow, Stored, Shows
<1>5. /\ you \in Work /\ you.pc = "mail" /\ you.week = w /\ you.model = work[p].model
      /\ you.html = deliveries[w].content
  BY <1>1, <1>4 DEF Work
<1> HIDE DEF you
<1>6. work'[p] = you
  BY <1>3 DEF Typed
<1>7. Known(p)' /\ ~Creates(p)
  BY <1>1, <1>2, <1>4, <1>5, <1>6 DEF Known, Creates, Shows
<1> QED BY <1>2, <1>3, <1>5, <1>7, RunKept DEF Typed

LEMMA SendMailKeeps ==
    ASSUME DeliveryInv, NEW p \in Process, SendMail(p)
    PROVE  DeliveryInv'
<1> USE DEF DeliveryInv
<1>1. /\ work[p].week \in Week /\ work[p] \in Work /\ work[p].pc = "mail"
      /\ work[p].html \in Content /\ Shows(work[p].week, work[p].html)
  BY DEF SendMail, Typed, Known
<1> DEFINE you == [work[p] EXCEPT !.pc = "mark"]
           mail == [week |-> work[p].week, content |-> work[p].html]
<1>2. /\ work' = [work EXCEPT ![p] = you] /\ mails' = Append(mails, mail)
      /\ UNCHANGED <<facts, today, deliveries, items, tokens, overlapped, died>>
  BY DEF SendMail, tables
<1>3. /\ you \in Work /\ you.pc = "mark" /\ you.week = work[p].week /\ you.model = work[p].model
      /\ you.html = work[p].html
  BY <1>1 DEF Work
<1>4. mail \in Mail /\ mail.week = work[p].week /\ mail.content = work[p].html
  BY <1>1 DEF Mail
<1> HIDE DEF you, mail
<1>5. work' \in [Process -> Work] /\ work'[p] = you /\ \A q \in Process : q # p => work'[q] = work[q]
  BY <1>2, <1>3 DEF Typed
<1>6. /\ mails' \in Seq(Mail) /\ Len(mails) \in Nat /\ DOMAIN mails' = 1..(Len(mails) + 1)
      /\ DOMAIN mails = 1..Len(mails)
      /\ \A i \in DOMAIN mails : mails'[i] = mails[i]
      /\ mails'[Len(mails) + 1] = mail
  BY <1>2, <1>4 DEF Typed
<1>7. Typed' /\ Steady
  BY <1>2, <1>5, <1>6 DEF Typed, Steady
<1>8. Mailed'
  <2>1. \A i \in DOMAIN mails' : Shows(mails'[i].week, mails'[i].content)
    BY <1>1, <1>4, <1>6 DEF Mailed
  <2> QED BY <1>2, <2>1 DEF Mailed, Shows
<1>9. \A q \in Process : Known(q)' /\ Fills(q)'
  <2>1. Known(p)' /\ Fills(p)'
    BY <1>1, <1>2, <1>3, <1>5 DEF Known, Fills, Creates, Shows
  <2> QED BY <1>2, <1>5, <1>7, <2>1, OthersKept
<1>10. \A q \in Process : (Creates(q)' <=> Creates(q)) /\ (Creates(q) => work'[q] = work[q])
  BY <1>1, <1>3, <1>5 DEF Creates
<1>11. Alone'
  BY <1>10 DEF Alone
<1>12. ASSUME NEW v \in Week PROVE Stored(v)'
  <2>1. Creating(v)' <=> Creating(v)
    BY <1>10 DEF Creating, Creates
  <2> QED BY <1>2, <2>1 DEF Stored, Shown
<1> QED BY <1>7, <1>8, <1>9, <1>11, <1>12

LEMMA MarkSentKeeps ==
    ASSUME DeliveryInv, NEW p \in Process, MarkSent(p)
    PROVE  DeliveryInv'
<1> USE DEF DeliveryInv
<1>1. PICK w \in Week : w = work[p].week /\ work[p].pc = "mark" /\ deliveries[w] # None
  BY DEF MarkSent, Known
<1>2. /\ deliveries' = [deliveries EXCEPT ![w].status = "sent"]
      /\ work' = [work EXCEPT ![p] = Idle]
      /\ UNCHANGED <<facts, today, items, tokens, mails, overlapped, died>>
  BY <1>1 DEF MarkSent
<1>3. work' \in [Process -> Work] /\ work'[p].pc = "idle" /\ \A q \in Process : q # p => work'[q] = work[q]
  BY <1>2, IdleTyped DEF Typed
<1>4. /\ deliveries' \in [Week -> DeliveryRow \cup {None}] /\ deliveries'[w] # None
      /\ deliveries'[w].content = deliveries[w].content
      /\ \A v \in Week : v # w => deliveries'[v] = deliveries[v]
  <2>1. deliveries[w] \in DeliveryRow
    BY <1>1 DEF Typed
  <2>2. [deliveries[w] EXCEPT !.status = "sent"] \in DeliveryRow
        /\ [deliveries[w] EXCEPT !.status = "sent"].content = deliveries[w].content
    BY <2>1 DEF DeliveryRow
  <2>3. [deliveries[w] EXCEPT !.status = "sent"] # None
    BY <2>2, NoneIsNothing
  <2> QED BY <1>2, <2>2, <2>3 DEF Typed
<1>5. /\ \A v \in Week : deliveries'[v] = None <=> deliveries[v] = None
      /\ \A v \in Week : deliveries'[v] # None => deliveries'[v].content = deliveries[v].content
  BY <1>1, <1>4
<1>6. Typed' /\ Steady
  <2>1. Typed'
    BY <1>2, <1>3, <1>4 DEF Typed
  <2>2. \A v \in Week, x \in Opportunity : tokens'[v][x] >= tokens[v][x]
    BY <1>2 DEF Typed
  <2> QED BY <1>5, <2>1, <2>2 DEF Steady
<1>7. Mailed'
  BY <1>2, <1>6, MailsKept
<1>8. \A q \in Process : Known(q)' /\ Fills(q)'
  <2>1. Known(p)' /\ Fills(p)'
    BY <1>3 DEF Known, Fills, Creates
  <2> QED BY <1>2, <1>3, <1>6, <2>1, OthersKept
<1>9. \A q \in Process : (Creates(q)' <=> Creates(q)) /\ (Creates(q) => work'[q] = work[q])
  BY <1>1, <1>3 DEF Creates
<1>10. Alone'
  BY <1>9 DEF Alone
<1>11. ASSUME NEW v \in Week PROVE Stored(v)'
  <2>1. Creating(v)' <=> Creating(v)
    BY <1>9 DEF Creating, Creates
  <2> QED BY <1>2, <1>5, <2>1 DEF Stored, Shown
<1> QED BY <1>6, <1>7, <1>8, <1>10, <1>11

\* A run dies: the week it may have been filling is known to be incomplete.
LEMMA FaultKeeps ==
    ASSUME DeliveryInv, NEW p \in Process, Fault(p)
    PROVE  DeliveryInv'
<1>1. work[p].week \in Week
  BY DEF Fault, Busy, DeliveryInv, Known
<1>2. /\ died' = died \cup {work[p].week} /\ work' = [work EXCEPT ![p] = Idle]
      /\ UNCHANGED <<facts, today, deliveries, items, tokens, mails, overlapped>>
  BY DEF Fault, tables
<1> QED BY <1>1, <1>2, IdleKept DEF DeliveryInv, Typed

LEMMA WorldKeeps ==
    ASSUME DeliveryInv,
           (\E o \in Opportunity, f \in Facts : Change(o, f)) \/ NextWeek \/ UNCHANGED vars
    PROVE  DeliveryInv'
<1> USE DEF DeliveryInv
<1>1. UNCHANGED <<deliveries, items, tokens, mails, work, overlapped, died>>
  BY DEF Change, NextWeek, vars, tables
<1>2. facts' \in [Opportunity -> Facts] /\ today' \in Week
  BY DEF Change, NextWeek, vars, Typed
<1>3. Typed'
  BY <1>1, <1>2 DEF Typed
<1>4. \A p \in Process : Known(p)' /\ Fills(p)'
  BY <1>1 DEF Known, Fills, Creates, Shows
<1>5. Alone' /\ Mailed'
  BY <1>1 DEF Alone, Creates, Mailed, Shows
<1>6. \A w \in Week : Stored(w)'
  BY <1>1 DEF Stored, Creating, Shown
<1> QED BY <1>3, <1>4, <1>5, <1>6

LEMMA InvNext == DeliveryInv /\ [Next]_vars => DeliveryInv'
<1> SUFFICES ASSUME DeliveryInv, [Next]_vars PROVE DeliveryInv'
  OBVIOUS
<1>1. ASSUME NEW p \in Process, Step(p) PROVE DeliveryInv'
  BY <1>1, AssembleKeeps, LookupKeeps, InsertKeeps, InsertItemKeeps, IssueTokenKeeps,
     WriteLinksKeeps, ReadStoredKeeps, SendMailKeeps, MarkSentKeeps DEF Step
<1>2. ASSUME NEW p \in Process, Fault(p) PROVE DeliveryInv'
  BY <1>2, FaultKeeps
<1>3. ASSUME NEW p \in Process, NEW w \in Week, NEW send \in BOOLEAN, Load(p, w, send)
      PROVE  DeliveryInv'
  BY <1>3, LoadKeeps
<1> QED BY <1>1, <1>2, <1>3, WorldKeeps DEF Next

\* The inductive invariant holds whatever the weeks, the runs, their order and their
\* faults.
THEOREM DeliveryInvariant == Spec => []DeliveryInv
BY InvInit, InvNext, PTL DEF Spec

--------------------------------------------------------------------------------
(* What follows.                                                            *)

\* The tables, the mails and the runs keep their types.
THEOREM TypeCorrect == Spec => []TypeOK
<1>1. DeliveryInv => TypeOK
  <2> SUFFICES ASSUME DeliveryInv PROVE TypeOK
    OBVIOUS
  <2>1. Typed
    BY DEF DeliveryInv
  <2>2. \A p \in Process : work[p] \in Work
    BY <2>1 DEF Typed
  <2> QED BY <2>1, <2>2 DEF Typed, TypeOK, Work, Mail
<1> QED BY <1>1, DeliveryInvariant, PTL

\* Each shown opportunity has one item and at most one token, and a row that nobody is
\* filling and no run died on has exactly the items it shows.
THEOREM OneRowAWeek == Spec => []WrittenOnce
<1>1. DeliveryInv => WrittenOnce
  <2> SUFFICES ASSUME DeliveryInv, NEW w \in Week
               PROVE  /\ \A o \in Opportunity : items[w][o] <= 1 /\ tokens[w][o] <= 1
                      /\ deliveries[w] # None /\ w \notin died /\ ~Creating(w) =>
                           {o \in Opportunity : items[w][o] > 0} = Shown(w)
    BY DEF WrittenOnce
  <2>1. Stored(w) /\ Typed
    BY DEF DeliveryInv
  <2>2. deliveries[w] # None => Shown(w) \subseteq Opportunity
    BY <2>1 DEF Typed, Shown, DeliveryRow, Content
  <2> QED BY <2>1, <2>2 DEF Stored
<1> QED BY <1>1, DeliveryInvariant, PTL

\* A mail shows what its week's row shows, whichever run sent it.
THEOREM MailsShowTheRow == Spec => []MailIsTheRow
<1>1. DeliveryInv => MailIsTheRow
  BY DEF DeliveryInv, Mailed, Shows, MailIsTheRow
<1> QED BY <1>1, DeliveryInvariant, PTL

\* A link that is stored or has left in a mail has its token.
THEOREM LinksHaveTokens == Spec => []LinksWork
<1>1. DeliveryInv => LinksWork
  BY DEF DeliveryInv, Stored, Mailed, Shows, LinksWork
<1> QED BY <1>1, DeliveryInvariant, PTL

--------------------------------------------------------------------------------
(* Weeks are told once: a second invariant, of the weeks whose runs neither overlapped   *)
(* nor died, which leans on the first.                                                   *)

\* A week whose runs neither overlapped another nor stopped half way.
Clean(w) == w \notin overlapped \cup died

\* Whoever works on such a week works alone.
Solo == \A p, q \in Process : Busy(p) /\ Busy(q) /\ Clean(work[p].week) => p = q

\* What is called new is shown, in a row and in what a run has built.
NewIsShown ==
    /\ \A w \in Week : deliveries[w] # None => deliveries[w].content.new \subseteq Shown(w)
    /\ \A p \in Process : work[p].pc \notin {"idle", "assemble"} =>
         work[p].model.new \subseteq work[p].model.shown

\* The mail of a clean week: one, of what the row says, and the row says it was sent
\* unless the run that mailed it is about to; a run that may still mail the week finds
\* no mail of it.
Tidy(w) == Clean(w) =>
    /\ \A i, j \in MailsOf(w) : i = j
    /\ \A i \in MailsOf(w) : mails[i].content = deliveries[w].content
    /\ MailsOf(w) # {} =>
         /\ deliveries[w] # None
         /\ \/ deliveries[w].status = "sent"
            \/ \E p \in Process : work[p].pc = "mark" /\ work[p].week = w
    /\ \A p \in Process :
         work[p].week = w /\ work[p].pc \in {"item", "token", "link", "stored", "mail"} =>
           MailsOf(w) = {}
    /\ \A p \in Process : work[p].week = w /\ work[p].pc = "mail" =>
         work[p].html = deliveries[w].content

\* A run of a clean week has seen all that the other clean weeks show, and calls none of
\* it new.
Fresh(p) ==
    LET me == work[p]
    IN  Busy(p) /\ Clean(me.week) => \A v \in Week :
          v # me.week /\ Clean(v) /\ deliveries[v] # None =>
            /\ me.pc = "assemble" => Shown(v) \subseteq me.delivered
            /\ me.pc \in {"lookup", "insert"} => me.model.new \cap deliveries[v].content.new = {}

WeekInv ==
    /\ Solo
    /\ NewIsShown
    /\ \A w \in Week : Tidy(w)
    /\ \A p \in Process : Fresh(p)
    /\ NewOnlyOnce

LEMMA WeekInit == Init => WeekInv
<1> SUFFICES ASSUME Init PROVE WeekInv
  OBVIOUS
<1>1. \A p \in Process : work[p].pc = "idle"
  BY IdleTyped DEF Init
<1>2. \A w \in Week : deliveries[w] = None /\ MailsOf(w) = {}
  BY DEF Init, MailsOf
<1> QED BY <1>1, <1>2 DEF WeekInv, Solo, NewIsShown, Tidy, Fresh, NewOnlyOnce, Busy

\* A run moves on in its week: only the row and the mails of that week change.
LEMMA MoveKeepsWeeks ==
    ASSUME WeekInv, NEW p \in Process, NEW u \in Week, work[p].week = u, Busy(p),
           UNCHANGED <<overlapped, died>>,
           \A q \in Process : q # p => work'[q] = work[q],
           work'[p].pc = "idle" \/ work'[p].week = u,
           work'[p].pc \notin {"idle", "assemble"} => work'[p].model.new \subseteq work'[p].model.shown,
           \A v \in Week : v # u =>
             /\ deliveries'[v] = deliveries[v] /\ MailsOf(v)' = MailsOf(v)
             /\ \A i \in MailsOf(v) : mails'[i] = mails[i],
           deliveries'[u] # None =>
             deliveries'[u].content.new \subseteq deliveries'[u].content.shown,
           Clean(u) => Tidy(u)' /\ Fresh(p)',
           Clean(u) /\ deliveries'[u] # None => \A v \in Week :
             v # u /\ Clean(v) /\ deliveries[v] # None =>
               deliveries'[u].content.new \cap deliveries[v].content.new = {}
    PROVE  WeekInv'
<1> USE DEF WeekInv
<1>1. \A w : Clean(w)' <=> Clean(w)
  BY DEF Clean
<1>2. \A q \in Process : q # p /\ Busy(q) => ~Clean(work[q].week)
  BY DEF Solo
<1>3. Solo'
  BY <1>1, <1>2 DEF Solo, Busy
<1>4. NewIsShown'
  BY DEF NewIsShown, Shown
<1>5. ASSUME NEW w \in Week, Clean(w)' PROVE Tidy(w)'
  <2>1. CASE w = u
    BY <1>1, <1>5, <2>1
  <2>2. CASE w # u
    <3>1. Tidy(w) /\ Clean(w)
      BY <1>1, <1>5
    <3>2. \A q \in Process : work[q].week = w => q # p /\ work'[q] = work[q]
      BY <2>2
    <3>3. \A q \in Process : work'[q].week = w => work'[q].pc = "idle" \/ (q # p /\ work'[q] = work[q])
      BY <2>2
    <3> QED BY <2>2, <3>1, <3>2, <3>3 DEF Tidy
  <2> QED BY <2>1, <2>2
<1>6. ASSUME NEW q \in Process PROVE Fresh(q)'
  <2>1. CASE q = p
    BY <1>1, <2>1 DEF Fresh
  <2>2. CASE q # p
    BY <1>1, <1>2, <2>2 DEF Fresh, Busy
  <2> QED BY <2>1, <2>2
<1>7. NewOnlyOnce'
  <2> SUFFICES ASSUME NEW v \in Week, NEW w \in Week, Clean(v), Clean(w), v # w,
                      deliveries'[v] # None, deliveries'[w] # None
               PROVE  deliveries'[v].content.new \cap deliveries'[w].content.new = {}
    BY <1>1 DEF NewOnlyOnce, Clean
  <2> QED BY DEF NewOnlyOnce, Clean
<1>8. \A w \in Week : Tidy(w)'
  BY <1>5 DEF Tidy
<1> QED BY <1>3, <1>4, <1>6, <1>7, <1>8

\* A run moves on and writes neither a row nor a mail.
LEMMA QuietKeepsWeeks ==
    ASSUME WeekInv, NEW p \in Process, NEW u \in Week, work[p].week = u, Busy(p),
           work[p].pc # "mark", UNCHANGED <<deliveries, mails, overlapped, died>>,
           \A q \in Process : q # p => work'[q] = work[q],
           work'[p].pc = "idle" \/ work'[p].week = u,
           work'[p].pc # "mark",
           work'[p].pc \notin {"idle", "assemble"} => work'[p].model.new \subseteq work'[p].model.shown,
           Clean(u) => Fresh(p)',
           Clean(u) /\ work'[p].pc \in {"item", "token", "link", "stored", "mail"} => MailsOf(u) = {},
           work'[p].pc = "mail" => work'[p].html = deliveries[u].content
    PROVE  WeekInv'
<1>1. \A v \in Week : MailsOf(v)' = MailsOf(v)
  BY DEF MailsOf
<1>2. ASSUME Clean(u) PROVE Tidy(u)'
  <2>1. Tidy(u)
    BY DEF WeekInv
  <2>2. \A q \in Process : q # p /\ work[q].week = u => work[q].pc = "idle"
    BY <1>2 DEF WeekInv, Solo, Busy
  <2> QED BY <1>1, <1>2, <2>1, <2>2 DEF Tidy, Busy
<1>3. deliveries[u] # None => deliveries[u].content.new \subseteq deliveries[u].content.shown
  BY DEF WeekInv, NewIsShown, Shown
<1>4. \A v \in Week : Clean(u) /\ v # u /\ Clean(v) /\ deliveries[v] # None /\ deliveries[u] # None =>
        deliveries[u].content.new \cap deliveries[v].content.new = {}
  BY DEF WeekInv, NewOnlyOnce, Clean
<1> QED BY <1>1, <1>2, <1>3, <1>4, MoveKeepsWeeks

--------------------------------------------------------------------------------
(* It is kept, action by action.                                                         *)

LEMMA LoadKeepsWeeks ==
    ASSUME DeliveryInv, DeliveryInv', WeekInv, NEW p \in Process, NEW w \in Week,
           NEW send \in BOOLEAN, Load(p, w, send)
    PROVE  WeekInv'
<1> DEFINE listed == {o \in Opportunity : facts[o].listed}
           me == [Idle EXCEPT !.pc = "assemble", !.week = w, !.send = send, !.listed = listed,
                              !.easy = {o \in listed : facts[o].easy},
                              !.delivered = PreviouslyDelivered]
<1>1. /\ work' = [work EXCEPT ![p] = me] /\ ~Busy(p)
      /\ UNCHANGED <<facts, today, deliveries, items, tokens, mails, died>>
  BY DEF Load, tables
<1>2. me.pc = "assemble" /\ me.week = w /\ me.delivered = PreviouslyDelivered
  BY DEF Idle
<1> HIDE DEF me
<1>3. work'[p] = me /\ \A q \in Process : q # p => work'[q] = work[q]
  BY <1>1 DEF DeliveryInv, Typed
<1>4. \A v : Clean(v)' => Clean(v)
  BY <1>1 DEF Load, Clean
<1>5. \A q \in Process : Busy(q) => ~Clean(w)' /\ ~Clean(work[q].week)'
  BY DEF Load, Clean
<1>6. Solo'
  BY <1>1, <1>2, <1>3, <1>4, <1>5 DEF Solo, Busy
<1>7. NewIsShown'
  BY <1>1, <1>2, <1>3 DEF WeekInv, NewIsShown, Shown
<1>8. ASSUME NEW v \in Week PROVE Tidy(v)'
  <2>1. Tidy(v) /\ (Clean(v)' => Clean(v)) /\ MailsOf(v)' = MailsOf(v)
    BY <1>1, <1>4 DEF WeekInv, MailsOf
  <2>2. \A q \in Process : work'[q].pc \notin {"idle", "assemble"} =>
          q # p /\ work'[q] = work[q]
    BY <1>2, <1>3
  <2>3. \A q \in Process : work[q].pc = "mark" => q # p /\ work'[q] = work[q]
    BY <1>1, <1>3 DEF Busy
  <2> QED BY <1>1, <2>1, <2>2, <2>3 DEF Tidy
<1>9. Fresh(p)'
  <2> SUFFICES ASSUME Clean(w)', NEW v \in Week, v # w, Clean(v)', deliveries[v] # None
               PROVE  Shown(v) \subseteq PreviouslyDelivered
    BY <1>1, <1>2, <1>3 DEF Fresh, Shown
  <2>1. ~Creating(v)
    BY <1>5 DEF Creating, Busy
  <2>2. Stored(v) /\ v \notin died
    BY <1>4 DEF DeliveryInv, Clean
  <2>3. \A o \in Opportunity : o \in Shown(v) => items[v][o] > 0
    BY <2>1, <2>2 DEF Stored
  <2>4. Shown(v) \subseteq Opportunity
    BY DEF DeliveryInv, Typed, Shown, DeliveryRow, Content
  <2> QED BY <2>3, <2>4 DEF PreviouslyDelivered
<1>10. ASSUME NEW q \in Process, q # p PROVE Fresh(q)'
  BY <1>1, <1>3, <1>5, <1>10 DEF Fresh, Busy
<1>11. NewOnlyOnce'
  BY <1>1, <1>4 DEF WeekInv, NewOnlyOnce, Clean
<1> QED BY <1>6, <1>7, <1>8, <1>9, <1>10, <1>11 DEF WeekInv

LEMMA AssembleKeepsWeeks ==
    ASSUME DeliveryInv, DeliveryInv', WeekInv, NEW p \in Process, Assemble(p)
    PROVE  WeekInv'
<1> DEFINE shown == {o \in work[p].listed : facts[o].passes /\ facts[o].auto}
           model == [shown |-> shown, new |-> shown \ work[p].delivered,
                     links |-> IF ActionLinks THEN work[p].easy \cap shown ELSE {}]
           me == [work[p] EXCEPT !.pc = "lookup", !.model = model]
<1>1. PICK u \in Week : work[p].week = u /\ work[p] \in Work /\ work[p].pc = "assemble"
  BY DEF Assemble, DeliveryInv, Typed, Known
<1>2. UNCHANGED <<deliveries, mails, overlapped, died>>
  BY DEF Assemble, tables
<1>3. work' = [work EXCEPT ![p] = me]
  BY <1>1 DEF Assemble, DeliveryInv, Typed
<1>4. model.new = model.shown \ work[p].delivered
  OBVIOUS
<1> HIDE DEF model
<1>5. me.pc = "lookup" /\ me.week = u /\ me.model = model
  BY <1>1 DEF Work
<1> HIDE DEF me
<1>6. work'[p] = me /\ \A q \in Process : q # p => work'[q] = work[q]
  BY <1>3 DEF DeliveryInv, Typed
<1>7. ASSUME Clean(u) PROVE Fresh(p)'
  <2> SUFFICES ASSUME NEW v \in Week, v # u, Clean(v), deliveries[v] # None
               PROVE  model.new \cap deliveries[v].content.new = {}
    BY <1>2, <1>5, <1>6 DEF Fresh, Clean
  <2>1. deliveries[v].content.new \subseteq Shown(v)
    BY DEF WeekInv, NewIsShown
  <2>2. Shown(v) \subseteq work[p].delivered
    BY <1>1, <1>7 DEF WeekInv, Fresh, Busy
  <2> QED BY <1>4, <2>1, <2>2
<1> QED BY <1>1, <1>2, <1>4, <1>5, <1>6, <1>7, QuietKeepsWeeks DEF Busy

\* A run of a clean week that reads a row that was not sent finds no mail of the week.
LEMMA UnsentIsUnmailed ==
    ASSUME WeekInv, NEW p \in Process, NEW u \in Week, work[p].week = u, Busy(p), Clean(u),
           work[p].pc # "mark", deliveries[u] # None => deliveries[u].status # "sent"
    PROVE  MailsOf(u) = {}
<1>1. \A q \in Process : q # p /\ work[q].week = u => work[q].pc = "idle"
  BY DEF WeekInv, Solo, Busy
<1> QED BY <1>1 DEF WeekInv, Tidy

\* A run goes on to send only what it found unsent.
LEMMA SeesRowUnsent ==
    ASSUME NEW me \in Work, NEW row \in DeliveryRow, SeesRow(me, row).pc = "stored"
    PROVE  row.status # "sent"
BY IdleTyped DEF SeesRow, At, AfterRow

LEMMA SeesRowKeepsWeeks ==
    ASSUME DeliveryInv, WeekInv, NEW p \in Process, NEW u \in Week, work[p].week = u,
           work[p].pc \in {"lookup", "insert"}, deliveries[u] # None,
           work' = [work EXCEPT ![p] = SeesRow(work[p], deliveries[u])],
           UNCHANGED <<deliveries, mails, overlapped, died>>
    PROVE  WeekInv'
<1> DEFINE seen == SeesRow(work[p], deliveries[u])
<1>1. work[p] \in Work /\ deliveries[u] \in DeliveryRow
  BY DEF DeliveryInv, Typed
<1>2. \/ seen.pc = "idle"
      \/ seen.pc = "stored" /\ seen.week = u /\ seen.model = work[p].model
  BY <1>1, SeesRowPlaces
<1>3. seen.pc = "stored" => deliveries[u].status # "sent"
  BY <1>1, SeesRowUnsent
<1> HIDE DEF seen
<1>4. work'[p] = seen /\ \A q \in Process : q # p => work'[q] = work[q]
  BY DEF seen, DeliveryInv, Typed
<1>5. Busy(p) /\ work[p].pc # "mark"
  BY DEF Busy
<1>6. Clean(u) /\ seen.pc = "stored" => MailsOf(u) = {}
  BY <1>3, <1>5, UnsentIsUnmailed
<1>7. Fresh(p)'
  BY <1>2, <1>4 DEF Fresh, Busy
<1>8. work'[p].pc \notin {"idle", "assemble"} => work'[p].model.new \subseteq work'[p].model.shown
  BY <1>2, <1>4 DEF WeekInv, NewIsShown
<1> QED BY <1>2, <1>4, <1>5, <1>6, <1>7, <1>8, QuietKeepsWeeks

LEMMA LookupKeepsWeeks ==
    ASSUME DeliveryInv, WeekInv, NEW p \in Process, Lookup(p)
    PROVE  WeekInv'
<1>1. PICK u \in Week : work[p].week = u /\ work[p] \in Work /\ work[p].pc = "lookup"
  BY DEF Lookup, DeliveryInv, Typed, Known
<1>2. UNCHANGED <<deliveries, mails, overlapped, died>>
  BY DEF Lookup, tables
<1>3. CASE deliveries[u] # None
  <2>1. work' = [work EXCEPT ![p] = SeesRow(work[p], deliveries[u])]
    BY <1>1, <1>3 DEF Lookup
  <2> QED BY <1>1, <1>2, <1>3, <2>1, SeesRowKeepsWeeks
<1>4. CASE deliveries[u] = None
  <2> DEFINE me == [work[p] EXCEPT !.pc = "insert"]
  <2>1. me.pc = "insert" /\ me.week = u /\ me.model = work[p].model
    BY <1>1 DEF Work
  <2>2. work' = [work EXCEPT ![p] = me]
    BY <1>1, <1>4 DEF Lookup, At
  <2> HIDE DEF me
  <2>3. work'[p] = me /\ \A q \in Process : q # p => work'[q] = work[q]
    BY <2>2 DEF DeliveryInv, Typed
  <2>4. Clean(u) => Fresh(p)'
    BY <1>1, <1>2, <2>1, <2>3 DEF WeekInv, Fresh, Busy, Clean
  <2>5. me.model.new \subseteq me.model.shown
    BY <1>1, <2>1 DEF WeekInv, NewIsShown
  <2> QED BY <1>1, <1>2, <2>1, <2>3, <2>4, <2>5, QuietKeepsWeeks DEF Busy
<1> QED BY <1>3, <1>4

\* The row of a week that had none calls nothing new that another clean week does.
LEMMA InsertKeepsWeeks ==
    ASSUME DeliveryInv, WeekInv, NEW p \in Process, Insert(p)
    PROVE  WeekInv'
<1>1. PICK u \in Week : u = work[p].week /\ work[p] \in Work /\ work[p].pc = "insert"
      /\ work[p].model \in Content
  BY DEF Insert, DeliveryInv, Typed, Known
<1>2. UNCHANGED <<facts, today, items, tokens, mails, overlapped, died>>
  BY DEF Insert
<1>3. CASE deliveries[u] # None
  <2>1. deliveries' = deliveries /\ work' = [work EXCEPT ![p] = SeesRow(work[p], deliveries[u])]
    BY <1>1, <1>3 DEF Insert, LostRace
  <2> QED BY <1>1, <1>2, <1>3, <2>1, SeesRowKeepsWeeks
<1>4. CASE deliveries[u] = None
  <2> DEFINE me == work[p]
             content == [me.model EXCEPT !.links = {}]
             won == [me EXCEPT !.todo = me.model.shown]
             row == [status |-> "draft", content |-> content]
             you == At(won, AfterItem(won))
  <2>1. /\ deliveries' = [deliveries EXCEPT ![u] = row]
        /\ work' = [work EXCEPT ![p] = you]
    BY <1>1, <1>4 DEF Insert
  <2>2. row.content.shown = me.model.shown /\ row.content.new = me.model.new
    BY <1>1 DEF Content
  <2>3. /\ you.pc \in {"idle", "item", "token", "stored"}
        /\ you.pc # "idle" => you.week = u /\ you.model = me.model
    BY <1>1 DEF AfterItem, AfterRow, At, Work, Idle
  <2> HIDE DEF row, you
  <2>4. work'[p] = you /\ \A q \in Process : q # p => work'[q] = work[q]
    BY <2>1 DEF DeliveryInv, Typed
  <2>5. deliveries'[u] = row /\ \A v \in Week : v # u => deliveries'[v] = deliveries[v]
    BY <2>1 DEF DeliveryInv, Typed
  <2>6. me.model.new \subseteq me.model.shown
    BY <1>1 DEF WeekInv, NewIsShown
  <2>7. \A v \in Week : MailsOf(v)' = MailsOf(v)
    BY <1>2 DEF MailsOf
  <2>8. ASSUME Clean(u) PROVE Tidy(u)' /\ Fresh(p)'
    <3>1. MailsOf(u) = {}
      BY <1>1, <1>4, <2>8, UnsentIsUnmailed DEF Busy
    <3>2. \A q \in Process : q # p /\ work[q].week = u => work[q].pc = "idle"
      BY <1>1, <2>8 DEF WeekInv, Solo, Busy
    <3>3. Tidy(u)'
      BY <2>3, <2>4, <2>7, <3>1, <3>2 DEF Tidy
    <3>4. Fresh(p)'
      BY <2>3, <2>4 DEF Fresh, Busy
    <3> QED BY <3>3, <3>4
  <2>9. \A v \in Week : Clean(u) /\ v # u /\ Clean(v) /\ deliveries[v] # None =>
          row.content.new \cap deliveries[v].content.new = {}
    BY <1>1, <2>2 DEF WeekInv, Fresh, Busy
  <2>10. work'[p].pc \notin {"idle", "assemble"} => work'[p].model.new \subseteq work'[p].model.shown
    BY <2>3, <2>4, <2>6
  <2>11. deliveries'[u].content.new \subseteq deliveries'[u].content.shown
    BY <2>2, <2>5, <2>6
  <2>12. \A v \in Week : v # u =>
           /\ deliveries'[v] = deliveries[v] /\ MailsOf(v)' = MailsOf(v)
           /\ \A i \in MailsOf(v) : mails'[i] = mails[i]
    BY <1>2, <2>5, <2>7
  <2>13. Busy(p) /\ (work'[p].pc = "idle" \/ work'[p].week = u)
    BY <1>1, <2>3, <2>4 DEF Busy
  <2> QED BY <1>1, <1>2, <2>4, <2>5, <2>8, <2>9, <2>10, <2>11, <2>12, <2>13, MoveKeepsWeeks
<1> QED BY <1>3, <1>4

LEMMA InsertItemKeepsWeeks ==
    ASSUME DeliveryInv, WeekInv, NEW p \in Process, InsertItem(p)
    PROVE  WeekInv'
<1>1. PICK u \in Week : u = work[p].week /\ work[p] \in Work /\ work[p].pc = "item"
  BY DEF InsertItem, DeliveryInv, Typed, Known
<1>2. UNCHANGED <<deliveries, mails, overlapped, died>>
  BY DEF InsertItem
<1>3. PICK o \in work[p].todo :
        LET me == [work[p] EXCEPT !.todo = @ \ {o}]
        IN  work' = [work EXCEPT ![p] =
                At([me EXCEPT !.todo = IF AfterItem(me) = "token" THEN me.model.links ELSE @],
                   AfterItem(me))]
  BY DEF InsertItem
<1> DEFINE me == [work[p] EXCEPT !.todo = @ \ {o}]
           you == At([me EXCEPT !.todo = IF AfterItem(me) = "token" THEN me.model.links ELSE @],
                     AfterItem(me))
<1>4. /\ you.pc \in {"idle", "item", "token", "stored"}
      /\ you.pc # "idle" => you.week = u /\ you.model = work[p].model
  BY <1>1 DEF AfterItem, AfterRow, At, Work, Idle
<1>5. work'[p] = you /\ \A q \in Process : q # p => work'[q] = work[q]
  BY <1>3 DEF DeliveryInv, Typed
<1> HIDE DEF you
<1>6. Clean(u) => MailsOf(u) = {} /\ Fresh(p)'
  BY <1>1, <1>4, <1>5 DEF WeekInv, Tidy, Fresh, Busy
<1>7. work'[p].pc \notin {"idle", "assemble"} => work'[p].model.new \subseteq work'[p].model.shown
  BY <1>1, <1>4, <1>5 DEF WeekInv, NewIsShown
<1> QED BY <1>1, <1>2, <1>4, <1>5, <1>6, <1>7, QuietKeepsWeeks DEF Busy

LEMMA IssueTokenKeepsWeeks ==
    ASSUME DeliveryInv, WeekInv, NEW p \in Process, IssueToken(p)
    PROVE  WeekInv'
<1>1. PICK u \in Week : u = work[p].week /\ work[p] \in Work /\ work[p].pc = "token"
  BY DEF IssueToken, DeliveryInv, Typed, Known
<1>2. UNCHANGED <<deliveries, mails, overlapped, died>>
  BY DEF IssueToken
<1>3. PICK o \in work[p].todo :
        LET me == [work[p] EXCEPT !.todo = @ \ {o}]
        IN  work' = [work EXCEPT ![p] = At(me, IF me.todo = {} THEN "link" ELSE "token")]
  BY DEF IssueToken
<1> DEFINE me == [work[p] EXCEPT !.todo = @ \ {o}]
           you == At(me, IF me.todo = {} THEN "link" ELSE "token")
<1>4. you.pc \in {"token", "link"} /\ you.week = u /\ you.model = work[p].model
  BY <1>1 DEF At, Work
<1>5. work'[p] = you /\ \A q \in Process : q # p => work'[q] = work[q]
  BY <1>3 DEF DeliveryInv, Typed
<1> HIDE DEF you
<1>6. Clean(u) => MailsOf(u) = {} /\ Fresh(p)'
  BY <1>1, <1>4, <1>5 DEF WeekInv, Tidy, Fresh, Busy
<1>7. work'[p].model.new \subseteq work'[p].model.shown
  BY <1>1, <1>4, <1>5 DEF WeekInv, NewIsShown
<1> QED BY <1>1, <1>2, <1>4, <1>5, <1>6, <1>7, QuietKeepsWeeks DEF Busy

\* The links change nothing of what is shown or called new, and nobody has mailed the
\* row without them.
LEMMA WriteLinksKeepsWeeks ==
    ASSUME DeliveryInv, WeekInv, NEW p \in Process, WriteLinks(p)
    PROVE  WeekInv'
<1>1. PICK u \in Week : u = work[p].week /\ work[p] \in Work /\ work[p].pc = "link"
      /\ deliveries[u] # None /\ deliveries[u] \in DeliveryRow /\ work[p].model \in Content
      /\ work[p].model.new = deliveries[u].content.new
      /\ work[p].model.shown = deliveries[u].content.shown
  BY DEF WriteLinks, DeliveryInv, Typed, Known, Fills, Creates
<1>2. UNCHANGED <<facts, today, items, tokens, mails, overlapped, died>>
  BY DEF WriteLinks
<1> DEFINE you == Done(work[p])
<1>3. /\ deliveries' = [deliveries EXCEPT ![u].content = work[p].model]
      /\ work' = [work EXCEPT ![p] = you]
  BY <1>1 DEF WriteLinks, Done
<1>4. you.pc = "idle" \/ (you.pc = "stored" /\ you.week = u /\ you.model = work[p].model)
  BY <1>1, AfterRowPlaces
<1> HIDE DEF you
<1>5. work'[p] = you /\ \A q \in Process : q # p => work'[q] = work[q]
  BY <1>3 DEF DeliveryInv, Typed
<1>6. /\ deliveries'[u].content = work[p].model
      /\ \A v \in Week : v # u => deliveries'[v] = deliveries[v]
  BY <1>1, <1>3 DEF DeliveryInv, Typed, DeliveryRow
<1>7. \A v \in Week : MailsOf(v)' = MailsOf(v)
  BY <1>2 DEF MailsOf
<1>8. ASSUME Clean(u) PROVE Tidy(u)' /\ Fresh(p)'
  <2>1. MailsOf(u) = {}
    BY <1>1, <1>8 DEF WeekInv, Tidy
  <2>2. \A q \in Process : q # p /\ work[q].week = u => work[q].pc = "idle"
    BY <1>1, <1>8 DEF WeekInv, Solo, Busy
  <2>3. Tidy(u)'
    BY <1>4, <1>5, <1>7, <2>1, <2>2 DEF Tidy
  <2>4. Fresh(p)'
    BY <1>4, <1>5 DEF Fresh, Busy
  <2> QED BY <2>3, <2>4
<1>9. \A v \in Week : Clean(u) /\ v # u /\ Clean(v) /\ deliveries[v] # None =>
        deliveries'[u].content.new \cap deliveries[v].content.new = {}
  BY <1>1, <1>6 DEF WeekInv, NewOnlyOnce, Clean
<1>10. /\ deliveries'[u].content.new \subseteq deliveries'[u].content.shown
       /\ work'[p].pc \notin {"idle", "assemble"} => work'[p].model.new \subseteq work'[p].model.shown
  BY <1>1, <1>4, <1>5, <1>6 DEF WeekInv, NewIsShown
<1> QED BY <1>1, <1>2, <1>4, <1>5, <1>6, <1>7, <1>8, <1>9, <1>10, MoveKeepsWeeks DEF Busy

LEMMA ReadStoredKeepsWeeks ==
    ASSUME DeliveryInv, WeekInv, NEW p \in Process, ReadStored(p)
    PROVE  WeekInv'
<1>1. PICK u \in Week : u = work[p].week /\ work[p] \in Work /\ work[p].pc = "stored"
  BY DEF ReadStored, DeliveryInv, Typed, Known
<1>2. UNCHANGED <<deliveries, mails, overlapped, died>>
  BY DEF ReadStored, tables
<1> DEFINE you == [work[p] EXCEPT !.html = deliveries[u].content, !.pc = "mail"]
<1>3. work' = [work EXCEPT ![p] = you]
  BY <1>1 DEF ReadStored, DeliveryInv, Typed
<1>4. /\ you.pc = "mail" /\ you.week = u /\ you.model = work[p].model
      /\ you.html = deliveries[u].content
  BY <1>1 DEF Work
<1> HIDE DEF you
<1>5. work'[p] = you /\ \A q \in Process : q # p => work'[q] = work[q]
  BY <1>3 DEF DeliveryInv, Typed
<1>6. Clean(u) => MailsOf(u) = {} /\ Fresh(p)'
  BY <1>1, <1>4, <1>5 DEF WeekInv, Tidy, Fresh, Busy
<1>7. work'[p].model.new \subseteq work'[p].model.shown
  BY <1>1, <1>4, <1>5 DEF WeekInv, NewIsShown
<1> QED BY <1>1, <1>2, <1>4, <1>5, <1>6, <1>7, QuietKeepsWeeks DEF Busy

\* The first mail of a clean week is what its row says.
LEMMA SendMailKeepsWeeks ==
    ASSUME DeliveryInv, WeekInv, NEW p \in Process, SendMail(p)
    PROVE  WeekInv'
<1>1. PICK u \in Week : u = work[p].week /\ work[p] \in Work /\ work[p].pc = "mail"
      /\ deliveries[u] # None
  BY DEF SendMail, DeliveryInv, Typed, Known
<1> DEFINE you == [work[p] EXCEPT !.pc = "mark"]
           mail == [week |-> u, content |-> work[p].html]
<1>2. /\ work' = [work EXCEPT ![p] = you] /\ mails' = Append(mails, mail)
      /\ UNCHANGED <<deliveries, overlapped, died>>
  BY <1>1 DEF SendMail, tables
<1>3. you.pc = "mark" /\ you.week = u /\ you.model = work[p].model
  BY <1>1 DEF Work
<1>4. mail.week = u /\ mail.content = work[p].html
  OBVIOUS
<1> HIDE DEF you, mail
<1>5. work'[p] = you /\ \A q \in Process : q # p => work'[q] = work[q]
  BY <1>2 DEF DeliveryInv, Typed
<1>6. /\ Len(mails) \in Nat /\ DOMAIN mails' = 1..(Len(mails) + 1) /\ DOMAIN mails = 1..Len(mails)
      /\ \A i \in DOMAIN mails : mails'[i] = mails[i]
      /\ mails'[Len(mails) + 1] = mail
  BY <1>2 DEF DeliveryInv, Typed
<1>7. \A v \in Week : v # u => MailsOf(v)' = MailsOf(v) /\ \A i \in MailsOf(v) : mails'[i] = mails[i]
  BY <1>4, <1>6 DEF MailsOf
<1>8. MailsOf(u)' = MailsOf(u) \cup {Len(mails) + 1}
  BY <1>4, <1>6 DEF MailsOf
<1>9. ASSUME Clean(u) PROVE Tidy(u)' /\ Fresh(p)'
  <2>1. MailsOf(u) = {} /\ work[p].html = deliveries[u].content
    BY <1>1, <1>9 DEF WeekInv, Tidy
  <2>2. \A q \in Process : q # p /\ work[q].week = u => work[q].pc = "idle"
    BY <1>1, <1>9 DEF WeekInv, Solo, Busy
  <2>3. MailsOf(u)' = {Len(mails) + 1}
    BY <1>8, <2>1
  <2>4. \A q \in Process : work'[q].week = u => work'[q].pc \in {"idle", "mark"}
    BY <1>3, <1>5, <2>2
  <2>5. Tidy(u)'
    BY <1>1, <1>2, <1>3, <1>4, <1>5, <1>6, <2>1, <2>3, <2>4 DEF Tidy
  <2>6. Fresh(p)'
    BY <1>3, <1>5 DEF Fresh, Busy
  <2> QED BY <2>5, <2>6
<1>10. /\ deliveries[u].content.new \subseteq deliveries[u].content.shown
       /\ work'[p].model.new \subseteq work'[p].model.shown
       /\ \A v \in Week : Clean(u) /\ v # u /\ Clean(v) /\ deliveries[v] # None =>
            deliveries[u].content.new \cap deliveries[v].content.new = {}
  BY <1>1, <1>3, <1>5 DEF WeekInv, NewIsShown, Shown, NewOnlyOnce, Clean
<1> QED BY <1>1, <1>2, <1>3, <1>5, <1>7, <1>9, <1>10, MoveKeepsWeeks DEF Busy

\* Only the run that mailed a clean week says so.
LEMMA MarkSentKeepsWeeks ==
    ASSUME DeliveryInv, WeekInv, NEW p \in Process, MarkSent(p)
    PROVE  WeekInv'
<1>1. PICK u \in Week : u = work[p].week /\ work[p].pc = "mark" /\ deliveries[u] # None
      /\ deliveries[u] \in DeliveryRow
  BY DEF MarkSent, DeliveryInv, Known, Typed
<1>2. /\ deliveries' = [deliveries EXCEPT ![u].status = "sent"]
      /\ work' = [work EXCEPT ![p] = Idle]
      /\ UNCHANGED <<mails, overlapped, died>>
  BY <1>1 DEF MarkSent
<1>3. work'[p].pc = "idle" /\ \A q \in Process : q # p => work'[q] = work[q]
  BY <1>2, IdleTyped DEF DeliveryInv, Typed
<1>4. /\ deliveries'[u] = [deliveries[u] EXCEPT !.status = "sent"]
      /\ \A v \in Week : v # u => deliveries'[v] = deliveries[v]
  BY <1>2 DEF DeliveryInv, Typed
<1>5. /\ deliveries'[u] \in DeliveryRow /\ deliveries'[u].status = "sent"
      /\ deliveries'[u].content = deliveries[u].content
  BY <1>1, <1>4 DEF DeliveryRow
<1>6. \A v \in Week : MailsOf(v)' = MailsOf(v)
  BY <1>2 DEF MailsOf
<1>7. ASSUME Clean(u) PROVE Tidy(u)' /\ Fresh(p)'
  <2>1. \A q \in Process : work'[q].week = u => work'[q].pc = "idle"
    BY <1>1, <1>3, <1>7 DEF WeekInv, Solo, Busy
  <2>2. Tidy(u)
    BY DEF WeekInv
  <2>3. Tidy(u)'
    BY <1>2, <1>5, <1>6, <1>7, <2>1, <2>2, NoneIsNothing DEF Tidy
  <2>4. Fresh(p)'
    BY <1>3 DEF Fresh, Busy
  <2> QED BY <2>3, <2>4
<1>8. /\ deliveries'[u].content.new \subseteq deliveries'[u].content.shown
      /\ \A v \in Week : Clean(u) /\ v # u /\ Clean(v) /\ deliveries[v] # None =>
           deliveries'[u].content.new \cap deliveries[v].content.new = {}
  BY <1>1, <1>5 DEF WeekInv, NewIsShown, Shown, NewOnlyOnce, Clean
<1> QED BY <1>1, <1>2, <1>3, <1>4, <1>6, <1>7, <1>8, MoveKeepsWeeks DEF Busy

\* The week of a run that dies is no longer clean.
LEMMA FaultKeepsWeeks ==
    ASSUME DeliveryInv, WeekInv, NEW p \in Process, Fault(p)
    PROVE  WeekInv'
<1>1. /\ died' = died \cup {work[p].week} /\ work' = [work EXCEPT ![p] = Idle] /\ Busy(p)
      /\ UNCHANGED <<deliveries, mails, overlapped>>
  BY DEF Fault, tables
<1>2. work'[p].pc = "idle" /\ \A q \in Process : q # p => work'[q] = work[q]
  BY <1>1, IdleTyped DEF DeliveryInv, Typed
<1>3. \A v : Clean(v)' => Clean(v) /\ v # work[p].week
  BY <1>1 DEF Clean
<1>4. Solo' /\ NewIsShown' /\ NewOnlyOnce'
  BY <1>1, <1>2, <1>3 DEF WeekInv, Solo, NewIsShown, NewOnlyOnce, Busy, Clean, Shown
<1>5. ASSUME NEW v \in Week, Clean(v)' PROVE Tidy(v)'
  <2>1. Tidy(v) /\ Clean(v) /\ MailsOf(v)' = MailsOf(v) /\ v # work[p].week
    BY <1>1, <1>3, <1>5 DEF WeekInv, MailsOf
  <2>2. \A q \in Process : work'[q].pc # "idle" => work'[q] = work[q]
    BY <1>2
  <2>3. \A q \in Process : work[q].week = v => work'[q] = work[q]
    BY <1>2, <2>1
  <2> QED BY <1>1, <2>1, <2>2, <2>3 DEF Tidy
<1>6. \A v \in Week : Tidy(v)'
  BY <1>5 DEF Tidy
<1>7. \A q \in Process : Fresh(q)'
  BY <1>1, <1>2, <1>3 DEF WeekInv, Fresh, Busy, Shown
<1> QED BY <1>4, <1>6, <1>7 DEF WeekInv

LEMMA WorldKeepsWeeks ==
    ASSUME WeekInv,
           (\E o \in Opportunity, f \in Facts : Change(o, f)) \/ NextWeek \/ UNCHANGED vars
    PROVE  WeekInv'
<1>1. UNCHANGED <<deliveries, mails, work, overlapped, died>>
  BY DEF Change, NextWeek, vars, tables
<1>2. \A w \in Week : Tidy(w)'
  BY <1>1 DEF WeekInv, Tidy, MailsOf, Clean
<1> QED BY <1>1, <1>2 DEF WeekInv, Solo, NewIsShown, Fresh, NewOnlyOnce, Busy, Clean, Shown

LEMMA WeekNext == DeliveryInv /\ DeliveryInv' /\ WeekInv /\ [Next]_vars => WeekInv'
<1> SUFFICES ASSUME DeliveryInv, DeliveryInv', WeekInv, [Next]_vars PROVE WeekInv'
  OBVIOUS
<1>1. ASSUME NEW p \in Process, Step(p) PROVE WeekInv'
  BY <1>1, AssembleKeepsWeeks, LookupKeepsWeeks, InsertKeepsWeeks, InsertItemKeepsWeeks,
     IssueTokenKeepsWeeks, WriteLinksKeepsWeeks, ReadStoredKeepsWeeks, SendMailKeepsWeeks,
     MarkSentKeepsWeeks DEF Step
<1>2. ASSUME NEW p \in Process, Fault(p) PROVE WeekInv'
  BY <1>2, FaultKeepsWeeks
<1>3. ASSUME NEW p \in Process, NEW w \in Week, NEW send \in BOOLEAN, Load(p, w, send)
      PROVE  WeekInv'
  BY <1>3, LoadKeepsWeeks
<1> QED BY <1>1, <1>2, <1>3, WorldKeepsWeeks DEF Next

\* A clean week has one worker at a time, who has seen what the other clean weeks show
\* and finds no mail of the week before sending one.
THEOREM WeekInvariant == Spec => []WeekInv
<1>1. Spec => [](DeliveryInv /\ WeekInv)
  <2>1. Init => DeliveryInv /\ WeekInv
    BY InvInit, WeekInit
  <2>2. DeliveryInv /\ WeekInv /\ [Next]_vars => (DeliveryInv /\ WeekInv)'
    BY InvNext, WeekNext
  <2> QED BY <2>1, <2>2, PTL DEF Spec
<1> QED BY <1>1, PTL

\* A set of which any two members are the same has one at most.
LEMMA OneAtMost ==
    ASSUME NEW S, \A x, y \in S : x = y
    PROVE  Cardinality(S) <= 1
<1>1. CASE S = {}
  BY <1>1, FS_EmptySet
<1>2. ASSUME NEW x \in S PROVE Cardinality(S) <= 1
  <2>1. S = {x}
    BY <1>2
  <2> QED BY <2>1, FS_Singleton
<1> QED BY <1>1, <1>2

\* Runs of a week that neither overlap nor die mail it at most once, with its links, and
\* call nothing new that another such week does.
THEOREM WeeksToldOnce == Spec => []WeeksTellOnce
<1>1. WeekInv => WeeksTellOnce
  <2> SUFFICES ASSUME WeekInv PROVE MailedOnce
    BY DEF WeekInv, WeeksTellOnce
  <2>1. ASSUME NEW w \in Week \ (overlapped \cup died)
        PROVE  /\ Cardinality(MailsOf(w)) <= 1
               /\ \A i \in MailsOf(w) : mails[i].content = deliveries[w].content
    <3>1. Tidy(w) /\ Clean(w)
      BY <2>1 DEF WeekInv, Clean
    <3> QED BY <3>1, OneAtMost DEF Tidy
  <2> QED BY <2>1 DEF MailedOnce
<1> QED BY <1>1, WeekInvariant, PTL

--------------------------------------------------------------------------------
(* Numbers.                                                                 *)

LEMMA LeastNumber ==
    ASSUME NEW S \in SUBSET Nat, S # {} PROVE \E n \in S : \A m \in S : n <= m
<1>1. IsWellFoundedOn(OpToRel(<, Nat), Nat)
  BY NatLessThanWellFounded
<1>2. PICK n \in S : \A m \in S : ~(<<m, n>> \in OpToRel(<, Nat))
  BY <1>1, WFMin
<1>3. ASSUME NEW m \in S PROVE n <= m
  <2>1. ~(m < n)
    BY <1>2 DEF OpToRel
  <2> QED BY <2>1
<1> QED BY <1>3

LEMMA Counting ==
    ASSUME NEW T, 0 \in T, \A n \in Nat : n \in T => n + 1 \in T
    PROVE  \A n \in Nat : n \in T
<1> SUFFICES ASSUME Nat \ T # {} PROVE FALSE
  OBVIOUS
<1>1. PICK n \in Nat \ T : \A m \in Nat \ T : n <= m
  BY LeastNumber
<1>2. n - 1 \in Nat /\ n - 1 < n
  BY <1>1
<1> QED BY <1>1, <1>2

LEMMA MinOfTwo ==
    ASSUME NEW a \in Int, NEW b \in Int PROVE Min({a, b}) = IF a <= b THEN a ELSE b
<1> DEFINE m == IF a <= b THEN a ELSE b
<1>1. m \in {a, b} /\ \A y \in {a, b} : m <= y
  OBVIOUS
<1>2. \A x \in {a, b} : (\A y \in {a, b} : x <= y) => x = m
  OBVIOUS
<1> HIDE DEF m
<1>3. (CHOOSE x \in {a, b} : \A y \in {a, b} : x <= y) = m
  BY <1>1, <1>2
<1> QED BY <1>3 DEF Min, m

\* A part of a whole, in n-ths.
LEMMA Share ==
    ASSUME NEW n \in Nat, NEW d \in Nat \ {0}, NEW x \in Nat, x < n * d + d PROVE x \div d \in 0..n
<1> DEFINE q == x \div d
<1>1. q \in Int /\ d * q <= x /\ x < d * q + d
  OBVIOUS
<1>2. q >= 0
  <2> SUFFICES ASSUME q <= -1 PROVE FALSE
    BY <1>1
  <2>1. d * q <= d * (-1)
    BY <1>1
  <2> QED BY <1>1, <2>1
<1>3. q <= n
  <2> SUFFICES ASSUME q >= n + 1 PROVE FALSE
    BY <1>1
  <2>1. d * q >= d * (n + 1)
    BY <1>1
  <2>2. d * (n + 1) = n * d + d
    OBVIOUS
  <2> QED BY <1>1, <2>1, <2>2
<1> QED BY <1>1, <1>2, <1>3

--------------------------------------------------------------------------------
(* The first few of an order.                                               *)

\* The members of s before e, where k tells the places.
Ahead(s, k, e)  == {x \in s : k[x] < k[e]}
FirstOf(s, k, n) == {e \in s : Cardinality(Ahead(s, k, e)) < n}

LEMMA LastPlace ==
    ASSUME NEW s, IsFiniteSet(s), s # {}, NEW k \in [s -> Nat]
    PROVE  \E e \in s : \A x \in s : k[x] <= k[e]
<1> DEFINE P(n) == \A t \in SUBSET s : Cardinality(t) = n + 1 => \E e \in t : \A x \in t : k[x] <= k[e]
           T == {n \in Nat : P(n)}
<1>1. \A t \in SUBSET s : IsFiniteSet(t) /\ Cardinality(t) \in Nat /\ (Cardinality(t) = 0 <=> t = {})
  BY FS_Subset, FS_CardinalityType, FS_EmptySet
<1>2. \A t \in SUBSET s : \A e \in t : Cardinality(t \ {e}) = Cardinality(t) - 1
  BY <1>1, FS_RemoveElement
<1>3. 0 \in T
  <2> SUFFICES ASSUME NEW t \in SUBSET s, Cardinality(t) = 1 PROVE \E e \in t : \A x \in t : k[x] <= k[e]
    OBVIOUS
  <2>1. PICK e \in t : TRUE
    BY <1>1
  <2>2. t \ {e} = {}
    <3>1. Cardinality(t \ {e}) = 0
      BY <1>2
    <3> QED BY <1>1, <3>1
  <2>3. k[e] \in Nat /\ \A x \in t : x = e
    BY <2>2
  <2> QED BY <2>3
<1>4. ASSUME NEW n \in Nat, n \in T PROVE n + 1 \in T
  <2> SUFFICES ASSUME NEW t \in SUBSET s, Cardinality(t) = n + 2 PROVE \E e \in t : \A x \in t : k[x] <= k[e]
    OBVIOUS
  <2>1. PICK a \in t : TRUE
    BY <1>1
  <2>2. Cardinality(t \ {a}) = n + 1
    BY <1>2
  <2>3. PICK e \in t \ {a} : \A x \in t \ {a} : k[x] <= k[e]
    BY <1>4, <2>2
  <2>4. k[a] \in Nat /\ k[e] \in Nat /\ \A x \in t : k[x] \in Nat /\ (x = a \/ x \in t \ {a})
    OBVIOUS
  <2>5. CASE k[a] <= k[e]
    BY <2>3, <2>4, <2>5
  <2>6. CASE ~(k[a] <= k[e])
    BY <2>3, <2>4, <2>6
  <2> QED BY <2>5, <2>6
<1> HIDE DEF T
<1>5. \A n \in Nat : n \in T
  BY <1>3, <1>4, Counting
<1>6. Cardinality(s) - 1 \in Nat
  BY <1>1
<1>7. Cardinality(s) - 1 \in T
  BY <1>5, <1>6
<1> QED BY <1>1, <1>7 DEF T

\* In an order without ties the first n are n, when there are as many.
LEMMA FirstCounted ==
    ASSUME NEW S, IsFiniteSet(S), NEW k \in [S -> Nat], \A x, y \in S : k[x] = k[y] => x = y,
           NEW n \in Nat
    PROVE  Cardinality(FirstOf(S, k, n)) = IF Cardinality(S) <= n THEN Cardinality(S) ELSE n
<1> DEFINE P(c) == \A s \in SUBSET S : Cardinality(s) = c =>
                      Cardinality(FirstOf(s, k, n)) = IF c <= n THEN c ELSE n
           T == {c \in Nat : P(c)}
<1>1. \A s \in SUBSET S : IsFiniteSet(s) /\ Cardinality(s) \in Nat /\ (Cardinality(s) = 0 <=> s = {})
  BY FS_Subset, FS_CardinalityType, FS_EmptySet
<1>2. 0 \in T
  <2> SUFFICES ASSUME NEW s \in SUBSET S, Cardinality(s) = 0 PROVE Cardinality(FirstOf(s, k, n)) = 0
    OBVIOUS
  <2>1. FirstOf(s, k, n) = {}
    BY <1>1 DEF FirstOf
  <2> QED BY <2>1, FS_EmptySet
<1>3. ASSUME NEW c \in Nat, c \in T PROVE c + 1 \in T
  <2> SUFFICES ASSUME NEW s \in SUBSET S, Cardinality(s) = c + 1
               PROVE  Cardinality(FirstOf(s, k, n)) = IF c + 1 <= n THEN c + 1 ELSE n
    OBVIOUS
  <2>1. s # {} /\ IsFiniteSet(s)
    BY <1>1
  <2>2. PICK e \in s : \A x \in s : k[x] <= k[e]
    <3> DEFINE g == [x \in s |-> k[x]]
    <3>1. g \in [s -> Nat]
      OBVIOUS
    <3>2. PICK e \in s : \A x \in s : g[x] <= g[e]
      BY <2>1, <3>1, LastPlace
    <3> QED BY <3>2
  <2>3. PICK r \in SUBSET S : r = s \ {e}
    OBVIOUS
  <2>4. Cardinality(r) = c /\ IsFiniteSet(r) /\ e \notin r /\ s = r \cup {e}
    BY <1>1, <2>1, <2>3, FS_RemoveElement
  <2>5. \A x \in r : k[x] < k[e]
    <3>1. ASSUME NEW x \in r PROVE k[x] < k[e]
      <4>1. k[x] \in Nat /\ k[e] \in Nat /\ k[x] <= k[e] /\ x # e
        BY <2>2, <2>3
      <4> QED BY <4>1
    <3> QED BY <3>1
  <2>6. Ahead(s, k, e) = r
    <3>1. ~(k[e] < k[e])
      OBVIOUS
    <3> QED BY <2>4, <2>5, <3>1 DEF Ahead
  <2>7. \A x \in r : Ahead(s, k, x) = Ahead(r, k, x)
    <3>1. ASSUME NEW x \in r PROVE ~(k[e] < k[x])
      <4>1. k[x] \in Nat /\ k[e] \in Nat /\ k[x] < k[e]
        BY <2>5
      <4> QED BY <4>1
    <3> QED BY <2>4, <3>1 DEF Ahead
  <2>8. PICK f : f = FirstOf(r, k, n)
    OBVIOUS
  <2>9. f \subseteq r /\ IsFiniteSet(f) /\ e \notin f /\ Cardinality(f) = IF c <= n THEN c ELSE n
    <3>1. Cardinality(f) = IF c <= n THEN c ELSE n
      BY <1>3, <2>4, <2>8
    <3>2. f \subseteq r
      BY <2>8 DEF FirstOf
    <3> QED BY <2>4, <3>1, <3>2, FS_Subset
  <2>10. FirstOf(s, k, n) = IF c < n THEN f \cup {e} ELSE f
    <3>1. \A x \in s : x \in FirstOf(s, k, n) <=> (x \in r /\ x \in f) \/ (x = e /\ c < n)
      BY <2>4, <2>6, <2>7, <2>8 DEF FirstOf
    <3>2. FirstOf(s, k, n) \subseteq s
      BY DEF FirstOf
    <3> QED BY <2>4, <2>9, <3>1, <3>2
  <2>11. CASE c < n
    <3>1. Cardinality(f \cup {e}) = Cardinality(f) + 1
      BY <2>9, FS_AddElement
    <3> QED BY <2>9, <2>10, <2>11, <3>1
  <2>12. CASE ~(c < n)
    BY <2>9, <2>10, <2>12
  <2> QED BY <2>11, <2>12
<1> HIDE DEF T
<1>4. Cardinality(S) \in T
  BY <1>1, <1>2, <1>3, Counting
<1> QED BY <1>4 DEF T

--------------------------------------------------------------------------------
(* Scores.                                                                  *)

Pinned == {"none", "weak", "strong", "contradicts"}

LEMMA FactsTyped ==
    ASSUME MatchTypeOK
    PROVE  /\ \A e \in Entity : /\ reg[e].name \in Name /\ reg[e].records \in Nat
                                /\ reg[e] \in Registrations[e]
           /\ \A o \in Org : /\ known[o].name \in Name /\ known[o].role \in 0..100
                             /\ known[o].records \in Nat /\ known[o] \in Evidences
<1>1. \A e \in Entity : reg[e] \in Registrations[e]
  BY DEF MatchTypeOK
<1>2. \A o \in Org : known[o] \in Evidences
  BY DEF MatchTypeOK
<1>3. \A e \in Entity : \A r \in Registrations[e] : r.name \in Name /\ r.records \in Nat
  <2>1. \A e \in Entity : \A r \in Registrations[e] : {r.records, r.strong, r.weak} \subseteq Nat
    BY RegistryMatchAssumption
  <2>2. \A e \in Entity : \A r \in Registrations[e] : r.name \in Name
    BY RegistryMatchAssumption
  <2> QED BY <2>1, <2>2
<1>4. \A f \in Evidences : f.name \in Name /\ f.role \in 0..100 /\ f.records \in Nat
  BY RegistryMatchAssumption, Zenon
<1> QED BY <1>1, <1>2, <1>3, <1>4

LEMMA SimilarityTyped ==
    ASSUME MatchTypeOK, NEW o \in Org, NEW e \in Entity PROVE Similarity(o, e) \in 0..100
<1>1. Alike \in [Name \X Name -> 0..100]
  BY RegistryMatchAssumption
<1>2. <<known[o].name, reg[e].name>> \in Name \X Name
  BY FactsTyped
<1> QED BY <1>1, <1>2 DEF Similarity

LEMMA AgreementTyped == ASSUME NEW v PROVE AgreementFor(v) \in Pinned
BY DEF AgreementFor, Pinned

LEMMA PhoneTyped == ASSUME NEW o, NEW e PROVE PhoneEvidence(o, e) \in Pinned
BY DEF PhoneEvidence, AgreementFor, Pinned

LEMMA LocalityTyped ==
    ASSUME NEW o, NEW e
    PROVE  /\ GradeLocality(o, e) \in 0..100
           /\ GradeLocality(o, e) = 100 => SameCity(o, e)
BY DEF GradeLocality

LEMMA FootprintTyped == ASSUME NEW r PROVE GradeFootprint(r) \in 0..100
BY DEF GradeFootprint

LEMMA IdentifierTyped == ASSUME NEW a \in Pinned, NEW r PROVE GradeIdentifier(a, r) \in 0..100
<1>1. CASE a = "strong"
  BY <1>1 DEF GradeIdentifier
<1>2. CASE a = "weak"
  BY <1>2 DEF GradeIdentifier
<1>3. CASE a = "contradicts"
  BY <1>3 DEF GradeIdentifier
<1>4. CASE a = "none"
  <2>1. GradeIdentifier(a, r) = GradeFootprint(r)
    BY <1>4 DEF GradeIdentifier
  <2> QED BY <2>1, FootprintTyped
<1> QED BY <1>1, <1>2, <1>3, <1>4 DEF Pinned

LEMMA CorroborationTyped ==
    ASSUME NEW records \in Nat, NEW n PROVE Corroboration(records, n) \in 0..100
<1>1. CorroborationBonus(n) \in Nat
  BY DEF CorroborationBonus
<1>2. (100 * records) \div 3 \in Nat
  OBVIOUS
<1>3. PICK b \in Nat : b = (100 * records) \div 3 + CorroborationBonus(n)
  BY <1>1, <1>2
<1>4. Min({100, b}) = IF 100 <= b THEN 100 ELSE b
  BY MinOfTwo
<1> QED BY <1>3, <1>4 DEF Corroboration

LEMMA HistoryTyped == ASSUME NEW rule PROVE RuleHistory(rule) \in (0..100) \cup {Absent}
<1>1. IsFiniteSet(Pair)
  <2>1. IsFiniteSet(Org) /\ IsFiniteSet(Entity)
    BY RegistryMatchAssumption, FS_Interval DEF Entity
  <2> QED BY <2>1, FS_Product DEF Pair
<1> DEFINE D == ByPeople(rule)
           A == {p \in D : rows[p].status = "accepted"}
<1>2. D \subseteq Pair /\ A \subseteq D
  BY DEF ByPeople
<1>3. IsFiniteSet(D) /\ IsFiniteSet(A) /\ Cardinality(A) <= Cardinality(D)
  BY <1>1, <1>2, FS_Subset
<1>4. Cardinality(A) \in Nat /\ Cardinality(D) \in Nat
  BY <1>3, FS_CardinalityType
<1>5. PICK a \in Nat, d \in Nat : a = Cardinality(A) /\ d = Cardinality(D) /\ a <= d
  BY <1>3, <1>4
<1>6. (100 * (a + 1)) \div (d + 2) \in 0..100
  <2>1. 100 * (a + 1) \in Nat /\ d + 2 \in Nat \ {0} /\ 100 * (a + 1) < 100 * (d + 2) + (d + 2)
    BY <1>5
  <2> QED BY <2>1, Share
<1>7. RuleHistory(rule) = IF d < Learned THEN Absent ELSE (100 * (a + 1)) \div (d + 2)
  BY <1>5 DEF RuleHistory
<1> QED BY <1>6, <1>7

LEMMA TrustTyped ==
    ASSUME NEW c, c.name \in 0..100, c.identifier \in 0..100, c.locality \in 0..100,
           c.role \in 0..100, c.corroboration \in 0..100, c.history \in (0..100) \cup {Absent}
    PROVE  ComputeTrust(c) \in 0..1000
<1>1. PICK a \in 0..100, b \in 0..100, d \in 0..100, e \in 0..100, f \in 0..100 :
        a = c.name /\ b = c.identifier /\ d = c.locality /\ e = c.role /\ f = c.corroboration
  OBVIOUS
<1>2. /\ Weight.name = 30 /\ Weight.identifier = 15 /\ Weight.locality = 10 /\ Weight.role = 10
      /\ Weight.corroboration = 15 /\ Weight.history = 20
  BY DEF Weight
<1>3. PICK t \in 0..8000 : t = 30 * a + 15 * b + 10 * d + 10 * e + 15 * f
  <2>1. /\ 30 * a \in 0..3000 /\ 15 * b \in 0..1500 /\ 10 * d \in 0..1000
        /\ 10 * e \in 0..1000 /\ 15 * f \in 0..1500
    OBVIOUS
  <2> QED BY <2>1
<1> DEFINE others == Weight.name * c.name + Weight.identifier * c.identifier
                       + Weight.locality * c.locality + Weight.role * c.role
                       + Weight.corroboration * c.corroboration
<1>s. others = t
  <2>1. /\ Weight.name * c.name = 30 * a /\ Weight.identifier * c.identifier = 15 * b
        /\ Weight.locality * c.locality = 10 * d /\ Weight.role * c.role = 10 * e
        /\ Weight.corroboration * c.corroboration = 15 * f
    BY <1>1, <1>2
  <2> QED BY <1>3, <2>1
<1>4. CASE c.history = Absent
  <2>0. ComputeTrust(c) = (20 * (others + 0) + (100 - Weight.history)) \div (2 * (100 - Weight.history))
    BY <1>4 DEF ComputeTrust
  <2>a. 100 - Weight.history = 80 /\ 2 * 80 = 160
    BY <1>2
  <2>1. ComputeTrust(c) = (20 * (t + 0) + 80) \div 160
    BY <1>s, <2>0, <2>a
  <2>2. 20 * (t + 0) + 80 \in Nat /\ 20 * (t + 0) + 80 < 1000 * 160 + 160
    BY <1>3
  <2>3. ((20 * (t + 0) + 80) \div 160) \in 0..1000
    BY <2>2, Share
  <2> QED BY <2>1, <2>3
<1>5. CASE c.history # Absent
  <2>1. PICK h \in 0..100 : h = c.history
    BY <1>5
  <2>2. ComputeTrust(c) = (20 * (t + 20 * h) + 100) \div 200
    <3>1. ComputeTrust(c) = (20 * (others + Weight.history * c.history) + 100) \div (2 * 100)
      BY <1>5 DEF ComputeTrust
    <3>2. Weight.history * c.history = 20 * h /\ 2 * 100 = 200
      BY <1>2, <2>1
    <3> QED BY <1>s, <3>1, <3>2
  <2>3. 20 * (t + 20 * h) + 100 \in Nat /\ 20 * (t + 20 * h) + 100 < 1000 * 200 + 200
    BY <1>3, <2>1
  <2>4. ((20 * (t + 20 * h) + 100) \div 200) \in 0..1000
    BY <2>3, Share
  <2> QED BY <2>2, <2>4
<1> QED BY <1>4, <1>5

--------------------------------------------------------------------------------
(* The ladder.                                                              *)

\* e is the only bearer of the organization's name, or the only one who answers its phone.
OnlyBearer(o, e) ==
    LET others == Bearers(known[o].name) \ {e}
    IN  others # {} => PhoneAgrees(o, e) /\ \A x \in others : ~PhoneAgrees(o, x)

\* What a candidate for an organization is.
Candidate(o, c) ==
    /\ c.entity \in Entity /\ c.rule \in Rules /\ c.agreement \in Pinned
    /\ c.name \in 0..100 /\ c.of \in 1..Firms
    /\ c.rule \in {"name_exact", "name_phone"} => OnlyBearer(o, c.entity)

LEMMA EntityFinite == IsFiniteSet(Entity) /\ Cardinality(Entity) = Firms
<1>1. Firms \in Nat
  BY RegistryMatchAssumption
<1> QED BY <1>1, FS_Interval DEF Entity

LEMMA BearersFinite ==
    ASSUME NEW n
    PROVE  /\ Bearers(n) \subseteq Entity /\ IsFiniteSet(Bearers(n))
           /\ Cardinality(Bearers(n)) \in Nat /\ Cardinality(Bearers(n)) <= Firms
<1>1. Bearers(n) \subseteq Entity
  BY DEF Bearers
<1>2. IsFiniteSet(Bearers(n)) /\ Cardinality(Bearers(n)) <= Cardinality(Entity)
  BY <1>1, EntityFinite, FS_Subset
<1> QED BY <1>1, <1>2, EntityFinite, FS_CardinalityType

LEMMA OnlyOne == ASSUME NEW S, IsFiniteSet(S), NEW e \in Only(S) PROVE S = {e}
<1>1. Cardinality(S) = 1 /\ e \in S
  BY DEF Only
<1>2. \E x : S = {x}
  BY <1>1, FS_Singleton
<1> QED BY <1>1, <1>2

LEMMA OnlyPart == ASSUME NEW S PROVE Only(S) \subseteq S
BY DEF Only

LEMMA HitTyped ==
    ASSUME NEW o, NEW e \in Entity, NEW rule \in Rules \ {"ambiguous"}, NEW agreement \in Pinned,
           NEW name \in 0..100, rule \in {"name_exact", "name_phone"} => OnlyBearer(o, e)
    PROVE  Candidate(o, Hit(e, rule, agreement, name)) /\ Hit(e, rule, agreement, name).rule # "ambiguous"
<1>1. 1 \in 1..Firms
  BY RegistryMatchAssumption
<1> QED BY <1>1 DEF Candidate, Hit

LEMMA NameRungTyped ==
    ASSUME MatchTypeOK, NEW o \in Org, NEW h \in NameRung(o)
    PROVE  Candidate(o, h) /\ h.rule # "ambiguous"
<1> DEFINE B == Bearers(known[o].name)
           A == {e \in B : PhoneAgrees(o, e)}
           Rule == CASE known[o].name \in OneWord -> "single_token"
                     [] A # {}                    -> "name_phone"
                     [] OTHER                     -> "name_exact"
<1>1. B \subseteq Entity /\ IsFiniteSet(B) /\ A \subseteq B /\ IsFiniteSet(A)
  <2>1. B \subseteq Entity /\ IsFiniteSet(B)
    BY BearersFinite
  <2>2. A \subseteq B
    OBVIOUS
  <2> QED BY <2>1, <2>2, FS_Subset
<1>2. CASE Cardinality(B) = 1
  <2>1. PICK e \in B : h = Hit(e, Rule, PhoneEvidence(o, e), 100)
    BY <1>2, Zenon DEF NameRung
  <2>2. B = {e}
    BY <1>1, <1>2, FS_Singleton
  <2>3. OnlyBearer(o, e)
    BY <2>2 DEF OnlyBearer
  <2>4. Rule \in {"single_token", "name_phone", "name_exact"}
    BY Zenon
  <2>5. Rule \in Rules \ {"ambiguous"}
    <3> HIDE DEF Rule
    <3> QED BY <2>4 DEF Rules
  <2>6. PhoneEvidence(o, e) \in Pinned /\ e \in Entity /\ 100 \in 0..100
    BY <1>1, PhoneTyped
  <2> HIDE DEF Rule
  <2> QED BY <2>1, <2>3, <2>5, <2>6, HitTyped
<1>3. CASE Cardinality(B) # 1
  <2>1. PICK e \in Only(A) : h = Hit(e, "name_phone", AgreementFor(reg[e].phone), 100)
    BY <1>3, Zenon DEF NameRung
  <2>2. A = {e}
    BY <1>1, OnlyOne
  <2>3. OnlyBearer(o, e)
    BY <2>2 DEF OnlyBearer
  <2>4. AgreementFor(reg[e].phone) \in Pinned /\ e \in Entity /\ 100 \in 0..100
    BY <1>1, <2>2, AgreementTyped
  <2>5. "name_phone" \in Rules \ {"ambiguous"}
    BY DEF Rules
  <2> QED BY <2>1, <2>3, <2>4, <2>5, HitTyped
<1> QED BY <1>2, <1>3

\* A hit of the rungs below the name: it names no rule the strict gate accepts.
LEMMA LowerHit ==
    ASSUME MatchTypeOK, NEW o \in Org, NEW e \in Entity, NEW agreement \in Pinned, NEW name \in 0..100,
           NEW rule \in {"phone", "google_phone", "address", "domain", "alias", "containment"}
    PROVE  /\ Candidate(o, Hit(e, rule, agreement, name))
           /\ Hit(e, rule, agreement, name).rule # "ambiguous"
<1>1. rule \in Rules \ {"ambiguous"} /\ rule \notin {"name_exact", "name_phone"}
  BY DEF Rules
<1> QED BY <1>1, HitTyped

LEMMA PhoneRungTyped ==
    ASSUME MatchTypeOK, NEW o \in Org, NEW h \in PhoneRung(o)
    PROVE  Candidate(o, h) /\ h.rule # "ambiguous"
<1>1. PICK e \in Entity : h = Hit(e, "phone", AgreementFor(reg[e].phone), Similarity(o, e))
  <2>1. \A p : ByPhone(p) \subseteq Entity
    BY OnlyPart DEF ByPhone, Listed
  <2>2. Closest(o, UNION {ByPhone(p) : p \in known[o].phones}) \subseteq Entity
    BY <2>1 DEF Closest
  <2> QED BY <2>2 DEF PhoneRung
<1>2. AgreementFor(reg[e].phone) \in Pinned /\ Similarity(o, e) \in 0..100
  BY AgreementTyped, SimilarityTyped
<1> QED BY <1>1, <1>2, LowerHit

LEMMA GoogleRungTyped ==
    ASSUME MatchTypeOK, NEW o \in Org, NEW h \in GoogleRung(o)
    PROVE  Candidate(o, h) /\ h.rule # "ambiguous"
<1>1. PICK e \in Entity : h = Hit(e, "google_phone", "weak", Similarity(o, e))
  <2>1. \A p : ByGoogle(p) \subseteq Entity
    BY OnlyPart DEF ByGoogle
  <2>2. Closest(o, UNION {ByGoogle(p) : p \in known[o].phones}) \subseteq Entity
    BY <2>1 DEF Closest
  <2> QED BY <2>2 DEF GoogleRung
<1>2. "weak" \in Pinned /\ Similarity(o, e) \in 0..100
  BY SimilarityTyped DEF Pinned
<1> QED BY <1>1, <1>2, LowerHit

LEMMA AddressRungTyped ==
    ASSUME MatchTypeOK, NEW o \in Org, NEW h \in AddressRung(o)
    PROVE  Candidate(o, h) /\ h.rule # "ambiguous"
<1>1. PICK e \in Entity, agreement \in {"strong", "weak"} :
        h = Hit(e, "address", agreement, Similarity(o, e))
  BY DEF AddressRung
<1>2. agreement \in Pinned /\ Similarity(o, e) \in 0..100
  BY SimilarityTyped DEF Pinned
<1> QED BY <1>1, <1>2, LowerHit

LEMMA DomainRungTyped ==
    ASSUME MatchTypeOK, NEW o \in Org, NEW h \in DomainRung(o)
    PROVE  Candidate(o, h) /\ h.rule # "ambiguous"
<1>1. PICK e \in Entity : h = Hit(e, "domain", AgreementFor(reg[e].domain), Similarity(o, e))
  <2>1. \A d : ByDomain(d) \subseteq Entity
    BY OnlyPart DEF ByDomain
  <2>2. Closest(o, UNION {ByDomain(d) : d \in known[o].domains}) \subseteq Entity
    BY <2>1 DEF Closest
  <2> QED BY <2>2 DEF DomainRung
<1>2. AgreementFor(reg[e].domain) \in Pinned /\ Similarity(o, e) \in 0..100
  BY AgreementTyped, SimilarityTyped
<1> QED BY <1>1, <1>2, LowerHit

LEMMA AliasRungTyped ==
    ASSUME MatchTypeOK, NEW o \in Org, NEW h \in AliasRung(o)
    PROVE  Candidate(o, h) /\ h.rule # "ambiguous"
<1>1. PICK e \in Entity : h = Hit(e, "alias", PhoneEvidence(o, e), 100)
  <2>1. \A n : Only(Bearers(n)) \subseteq Entity
    BY OnlyPart, BearersFinite
  <2>2. \A N : Only(UNION {Only(Bearers(n)) : n \in N}) \subseteq Entity
    BY <2>1, OnlyPart
  <2> QED BY <2>2 DEF AliasRung
<1>2. PhoneEvidence(o, e) \in Pinned /\ 100 \in 0..100
  BY PhoneTyped
<1>3. /\ Candidate(o, Hit(e, "alias", PhoneEvidence(o, e), 100))
      /\ Hit(e, "alias", PhoneEvidence(o, e), 100).rule # "ambiguous"
  BY <1>2, LowerHit
<1> QED BY <1>1, <1>3

LEMMA ContainmentRungTyped ==
    ASSUME MatchTypeOK, NEW o \in Org, NEW h \in ContainmentRung(o)
    PROVE  Candidate(o, h) /\ h.rule # "ambiguous"
<1>1. PICK e \in Entity : h = Hit(e, "containment", PhoneEvidence(o, e), Similarity(o, e))
  BY OnlyPart DEF ContainmentRung
<1>2. PhoneEvidence(o, e) \in Pinned /\ Similarity(o, e) \in 0..100
  BY PhoneTyped, SimilarityTyped
<1>3. /\ Candidate(o, Hit(e, "containment", PhoneEvidence(o, e), Similarity(o, e)))
      /\ Hit(e, "containment", PhoneEvidence(o, e), Similarity(o, e)).rule # "ambiguous"
  BY <1>2, LowerHit
<1> QED BY <1>1, <1>3

\* What several entities bear becomes as many rows as there are bearers, or as the cap lets through.
LEMMA AmbiguousWhole ==
    ASSUME MatchTypeOK, NEW o \in Org, BuildAmbiguousCandidates(o) # {}
    PROVE  \E n \in 1..Firms : \E C \in SUBSET Entity :
              /\ Cardinality(C) = Min({n, Fanout})
              /\ \A e \in C : \E c \in BuildAmbiguousCandidates(o) : c.entity = e
              /\ \A c \in BuildAmbiguousCandidates(o) :
                    Candidate(o, c) /\ c.rule = "ambiguous" /\ c.of = n
<1> DEFINE B == Bearers(known[o].name)
           Before(x, y) == \/ PhoneAgrees(o, x) /\ ~PhoneAgrees(o, y)
                           \/ PhoneAgrees(o, x) = PhoneAgrees(o, y) /\ x < y
           chosen == {e \in B : Cardinality({x \in B : Before(x, e)}) < Fanout}
           k == [e \in B |-> IF PhoneAgrees(o, e) THEN e ELSE Firms + e]
           Row(e) == [Hit(e, "ambiguous", PhoneEvidence(o, e), 100 \div Cardinality(B))
                        EXCEPT !.of = Cardinality(B)]
<1>1. B \subseteq Entity /\ IsFiniteSet(B) /\ Cardinality(B) \in Nat /\ Cardinality(B) <= Firms
  BY BearersFinite
<1>2. Firms \in Nat /\ Fanout \in Nat /\ \A e \in B : e \in 1..Firms
  BY <1>1, RegistryMatchAssumption DEF Entity
<1>3. ~(Cardinality(B) < 2) /\ BuildAmbiguousCandidates(o) = {Row(e) : e \in chosen}
  BY Zenon DEF BuildAmbiguousCandidates
<1>4. PICK n \in 2..Firms : n = Cardinality(B)
  BY <1>1, <1>2, <1>3
<1>5. k \in [B -> Nat]
  BY <1>2
<1>6. \A x, y \in B : Before(x, y) <=> k[x] < k[y]
  <2>1. SUFFICES ASSUME NEW x \in B, NEW y \in B PROVE Before(x, y) <=> k[x] < k[y]
    OBVIOUS
  <2>2. PICK a \in 1..Firms, b \in 1..Firms : a = x /\ b = y
    BY <1>2
  <2>3. k[x] = (IF PhoneAgrees(o, x) THEN a ELSE Firms + a)
        /\ k[y] = (IF PhoneAgrees(o, y) THEN b ELSE Firms + b)
    BY <2>2
  <2>4. CASE PhoneAgrees(o, x) /\ PhoneAgrees(o, y)
    BY <1>2, <2>2, <2>3, <2>4 DEF PhoneAgrees
  <2>5. CASE PhoneAgrees(o, x) /\ ~PhoneAgrees(o, y)
    BY <1>2, <2>2, <2>3, <2>5 DEF PhoneAgrees
  <2>6. CASE ~PhoneAgrees(o, x) /\ PhoneAgrees(o, y)
    BY <1>2, <2>2, <2>3, <2>6 DEF PhoneAgrees
  <2>7. CASE ~PhoneAgrees(o, x) /\ ~PhoneAgrees(o, y)
    BY <1>2, <2>2, <2>3, <2>7 DEF PhoneAgrees
  <2> QED BY <2>4, <2>5, <2>6, <2>7
<1>7. \A x, y \in B : k[x] = k[y] => x = y
  BY <1>2
<1>8. chosen = FirstOf(B, k, Fanout)
  <2>1. ASSUME NEW e \in B PROVE {x \in B : Before(x, e)} = Ahead(B, k, e)
    BY <1>6 DEF Ahead
  <2> QED BY <2>1 DEF FirstOf
<1> HIDE DEF k, Before
<1>9. Cardinality(chosen) = IF n <= Fanout THEN n ELSE Fanout
  <2>1. PICK b, f : b = B /\ f = k
    OBVIOUS
  <2>2. Cardinality(FirstOf(b, f, Fanout)) = IF Cardinality(b) <= Fanout THEN Cardinality(b) ELSE Fanout
    <3>1. IsFiniteSet(b) /\ f \in [b -> Nat] /\ \A x, y \in b : f[x] = f[y] => x = y
      BY <1>1, <1>5, <1>7, <2>1
    <3> QED BY <1>2, <3>1, FirstCounted
  <2> QED BY <1>4, <1>8, <2>1, <2>2
<1>10. Cardinality(chosen) = Min({n, Fanout})
  BY <1>2, <1>9, MinOfTwo
<1>11. \A e \in chosen : Row(e).entity = e
  BY DEF Hit
<1>12. ASSUME NEW e \in chosen PROVE Candidate(o, Row(e)) /\ Row(e).rule = "ambiguous" /\ Row(e).of = n
  <2>1. (100 \div n) \in 0..100
    <3>1. n \in Nat \ {0} /\ 100 < 100 * n + n
      OBVIOUS
    <3> QED BY <3>1, Share
  <2>2. PhoneEvidence(o, e) \in Pinned /\ e \in Entity /\ n \in 1..Firms /\ "ambiguous" \in Rules
    BY <1>1, <1>4, PhoneTyped DEF Rules
  <2>3. Row(e) = [entity |-> e, rule |-> "ambiguous", agreement |-> PhoneEvidence(o, e),
                  name |-> 100 \div n, of |-> n]
    BY <1>4 DEF Hit
  <2> QED BY <2>1, <2>2, <2>3 DEF Candidate
<1> HIDE DEF Row
<1>13. chosen \in SUBSET Entity /\ n \in 1..Firms
  BY <1>1, <1>4
<1> HIDE DEF chosen
<1>14. /\ \A e \in chosen : \E c \in BuildAmbiguousCandidates(o) : c.entity = e
       /\ \A c \in BuildAmbiguousCandidates(o) : Candidate(o, c) /\ c.rule = "ambiguous" /\ c.of = n
  BY <1>3, <1>11, <1>12
<1> QED BY <1>10, <1>13, <1>14

LEMMA MinMember == ASSUME NEW S \in SUBSET Nat, S # {} PROVE Min(S) \in S
<1>1. \E n \in S : \A m \in S : n <= m
  BY LeastNumber
<1> QED BY <1>1, Zenon DEF Min

LEMMA RungsTyped ==
    ASSUME MatchTypeOK, NEW o \in Org
    PROVE  /\ DOMAIN Rungs(o) = 1..7
           /\ \A i \in 1..7 : \A h \in Rungs(o)[i] : Candidate(o, h) /\ h.rule # "ambiguous"
<1> DEFINE If(set) == IF IdentifierAllowed(o) THEN set ELSE {}
<1>1. Rungs(o) = <<NameRung(o), If(PhoneRung(o)), If(GoogleRung(o)), If(AddressRung(o)),
                   If(DomainRung(o)), AliasRung(o), If(ContainmentRung(o))>>
  BY DEF Rungs
<1>2. \A S : If(S) \subseteq S
  OBVIOUS
<1> HIDE DEF If
<1>3. DOMAIN Rungs(o) = 1..7
  BY <1>1
<1>4. /\ Rungs(o)[1] = NameRung(o) /\ Rungs(o)[2] = If(PhoneRung(o)) /\ Rungs(o)[3] = If(GoogleRung(o))
      /\ Rungs(o)[4] = If(AddressRung(o)) /\ Rungs(o)[5] = If(DomainRung(o))
      /\ Rungs(o)[6] = AliasRung(o) /\ Rungs(o)[7] = If(ContainmentRung(o))
  BY <1>1
<1>5. \A h \in Rungs(o)[1] : Candidate(o, h) /\ h.rule # "ambiguous"
  BY <1>4, NameRungTyped
<1>6. \A h \in Rungs(o)[2] : Candidate(o, h) /\ h.rule # "ambiguous"
  BY <1>2, <1>4, PhoneRungTyped
<1>7. \A h \in Rungs(o)[3] : Candidate(o, h) /\ h.rule # "ambiguous"
  BY <1>2, <1>4, GoogleRungTyped
<1>8. \A h \in Rungs(o)[4] : Candidate(o, h) /\ h.rule # "ambiguous"
  BY <1>2, <1>4, AddressRungTyped
<1>9. \A h \in Rungs(o)[5] : Candidate(o, h) /\ h.rule # "ambiguous"
  BY <1>2, <1>4, DomainRungTyped
<1>10. \A h \in Rungs(o)[6] : Candidate(o, h) /\ h.rule # "ambiguous"
  BY <1>4, AliasRungTyped
<1>11. \A h \in Rungs(o)[7] : Candidate(o, h) /\ h.rule # "ambiguous"
  BY <1>2, <1>4, ContainmentRungTyped
<1>12. \A i \in 1..7 : i \in {1, 2, 3, 4, 5, 6, 7}
  OBVIOUS
<1> QED BY <1>3, <1>5, <1>6, <1>7, <1>8, <1>9, <1>10, <1>11, <1>12

\* What is offered for an organization: candidates, and of an ambiguous name enough of them.
LEMMA OfferTyped ==
    ASSUME MatchTypeOK, NEW o \in Org, NEW S \in Offers(o)
    PROVE  /\ \A c \in S : Candidate(o, c)
           /\ (\E c \in S : c.rule = "ambiguous") =>
                \E n \in 1..Firms : \E C \in SUBSET Entity :
                   /\ Cardinality(C) = Min({n, Fanout})
                   /\ \A e \in C : \E c \in S : c.entity = e
                   /\ \A c \in S : c.rule = "ambiguous" /\ c.of = n
<1> DEFINE found == {i \in DOMAIN Rungs(o) : Rungs(o)[i] # {}}
<1>1. CASE found = {}
  <2>1. S = BuildAmbiguousCandidates(o)
    BY <1>1 DEF Offers
  <2>2. CASE S = {}
    BY <2>2
  <2>3. CASE S # {}
    <3>1. PICK n \in 1..Firms, C \in SUBSET Entity :
             /\ Cardinality(C) = Min({n, Fanout})
             /\ \A e \in C : \E c \in S : c.entity = e
             /\ \A c \in S : Candidate(o, c) /\ c.rule = "ambiguous" /\ c.of = n
      <4>1. BuildAmbiguousCandidates(o) # {}
        BY <2>1, <2>3
      <4>2. \E n \in 1..Firms : \E C \in SUBSET Entity :
              /\ Cardinality(C) = Min({n, Fanout})
              /\ \A e \in C : \E c \in BuildAmbiguousCandidates(o) : c.entity = e
              /\ \A c \in BuildAmbiguousCandidates(o) :
                    Candidate(o, c) /\ c.rule = "ambiguous" /\ c.of = n
        BY <4>1, AmbiguousWhole
      <4> QED BY <2>1, <4>2
    <3> QED BY <3>1
  <2> QED BY <2>2, <2>3
<1>2. CASE found # {}
  <2>1. found \in SUBSET Nat /\ found \subseteq 1..7
    BY RungsTyped
  <2>2. Min(found) \in 1..7
    <3>1. PICK F \in SUBSET Nat : F = found
      BY <2>1
    <3>2. Min(F) \in F
      BY <1>2, <3>1, MinMember
    <3> QED BY <2>1, <3>1, <3>2
  <2>3. PICK hit \in Rungs(o)[Min(found)] : S = {hit}
    BY <1>2 DEF Offers
  <2>4. Candidate(o, hit) /\ hit.rule # "ambiguous"
    BY <2>2, <2>3, RungsTyped
  <2> QED BY <2>3, <2>4
<1> QED BY <1>1, <1>2

LEMMA ScoreTyped ==
    ASSUME MatchTypeOK, NEW o \in Org, NEW c, Candidate(o, c)
    PROVE  ComputeTrust(Components(o, c)) \in 0..1000
<1>1. PICK e \in Entity : e = c.entity
  BY DEF Candidate
<1>2a. PICK r : r = reg[e]
  OBVIOUS
<1>2. PICK a \in Pinned : a = c.agreement
  BY DEF Candidate
<1>3. PICK m \in Nat, n \in Nat : m = known[o].records /\ n = reg[e].records
  BY FactsTyped
<1>4. GradeIdentifier(a, r) \in 0..100 /\ Corroboration(m, n) \in 0..100
  BY IdentifierTyped, CorroborationTyped
<1>5. GradeLocality(o, e) \in 0..100 /\ known[o].role \in 0..100 /\ c.name \in 0..100
  BY LocalityTyped, FactsTyped DEF Candidate
<1>6. RuleHistory(c.rule) \in (0..100) \cup {Absent}
  BY HistoryTyped
<1>7. PICK k : k = Components(o, c)
  OBVIOUS
<1>8. /\ k.name = c.name /\ k.identifier = GradeIdentifier(a, r) /\ k.locality = GradeLocality(o, e)
      /\ k.role = known[o].role /\ k.corroboration = Corroboration(m, n)
      /\ k.history = RuleHistory(c.rule)
  BY <1>1, <1>2a, <1>2, <1>3, <1>7 DEF Components
<1>9. ComputeTrust(k) \in 0..1000
  BY <1>4, <1>5, <1>6, <1>8, TrustTyped
<1> QED BY <1>7, <1>9

--------------------------------------------------------------------------------
(* The inductive invariant.                                                 *)

\* A row is written by this pass, or decided; a candidate for it waits to be written.
Settled(q)   == rows[q] # Absent /\ (rows[q].pass = passes \/ rows[q].status # "pending")
Coming(q) == \E i \in pass.todo : i.pair = q

\* Enough of the n entities of an organization's name are there, or will be.
Whole(o, n) ==
    \E C \in SUBSET Entity : /\ Cardinality(C) = Min({n, Fanout})
                             /\ \A e \in C : Settled(<<o, e>>) \/ Coming(<<o, e>>)

\* The strict gate's promise.
Sure(o, e) ==
    /\ reg[e].name = known[o].name
    /\ SameCity(o, e) /\ SharedTrades(o, e) # {}
    /\ OnlyBearer(o, e)

\* What waits to be written.
Waiting(i) ==
    /\ i.pair \in Pair /\ i.rule \in Rules /\ i.of \in 1..Firms
    /\ i.trust \in 0..1000 /\ i.locality \in 0..100
    /\ i.strict => Sure(i.pair[1], i.pair[2])
    /\ i.rule = "ambiguous" => Whole(i.pair[1], i.of)

\* A row of an ambiguous name this pass wrote and nobody decided.
Offered(p) == rows[p] # Absent /\ rows[p].rule = "ambiguous" /\ rows[p].pass = passes
              /\ rows[p].status = "pending"

MatchInvariant ==
    /\ MatchTypeOK
    /\ pass = [pc |-> pass.pc, todo |-> pass.todo, item |-> pass.item]
    /\ ~Between => passes > 0
    /\ Between => pass.todo = {}
    /\ \A p \in Pair : rows[p] # Absent => rows[p].pass <= passes
    /\ \A i \in pass.todo : Waiting(i)
    /\ pass.pc # "died" => \A p \in Pair : Offered(p) => Whole(p[1], rows[p].of)

Decided(p) == rows[p] # Absent /\ rows[p].status # "pending"

\* What is about to be bound was found sure and is accepted by then: only a request that had
\* read the row before can still turn it down.
BindInvariant ==
    /\ pass.pc = "bind" =>
         /\ pass.item \in Pair /\ Sure(pass.item[1], pass.item[2]) /\ Decided(pass.item)
         /\ Deciding(pass.item) # {} \/ pass.item \in refused => pass.item \in crossed
    /\ \A q \in Reviewer : review[q] # Absent => rows[review[q].pair] # Absent
    /\ \A p \in refused : Decided(p)

LEMMA InitMatches == MatchInit => MatchInvariant
<1> SUFFICES ASSUME MatchInit PROVE MatchInvariant
  OBVIOUS
<1>1. reg \in [Entity -> UNION {Registrations[e] : e \in Entity}] /\ \A e \in Entity : reg[e] \in Registrations[e]
  BY DEF MatchInit
<1>2. known \in [Org -> Evidences] /\ bound \in [Org -> Entity \cup {Absent}]
  BY DEF MatchInit
<1>3. rows \in [Pair -> Observation \cup {Absent}] /\ \A p \in Pair : rows[p] = Absent
  BY DEF MatchInit
<1>4. /\ pass.pc = "idle" /\ pass.todo = {} /\ pass.item = Absent
      /\ pass = [pc |-> pass.pc, todo |-> pass.todo, item |-> pass.item]
  BY DEF MatchInit, Resting
<1>5. passes \in 0..MaxPass /\ decided \in 0..MaxDecision /\ deaths \in 0..MaxDeath
  BY RegistryMatchAssumption DEF MatchInit
<1>6. review \in [Reviewer -> Decision \cup {Absent}] /\ refused \subseteq Pair /\ crossed \subseteq Pair
  BY DEF MatchInit
<1>7. MatchTypeOK
  BY <1>1, <1>2, <1>3, <1>4, <1>5, <1>6 DEF MatchTypeOK
<1> QED BY <1>3, <1>4, <1>7 DEF MatchInvariant, Offered, Between

LEMMA InitBinds == MatchInit => BindInvariant
<1> SUFFICES ASSUME MatchInit PROVE BindInvariant
  OBVIOUS
<1>1. pass.pc = "idle" /\ refused = {} /\ \A q \in Reviewer : review[q] = Absent
  BY DEF MatchInit, Resting
<1> QED BY <1>1 DEF BindInvariant

\* A candidate as it is written down.
LEMMA EmissionTyped ==
    ASSUME MatchTypeOK, NEW o \in Org, NEW c, Candidate(o, c)
    PROVE  /\ Emission(o, c).pair \in Pair /\ Emission(o, c).pair = <<o, c.entity>>
           /\ Emission(o, c).rule \in Rules /\ Emission(o, c).of \in 1..Firms
           /\ Emission(o, c).trust \in 0..1000
           /\ Emission(o, c).locality \in 0..100
           /\ Emission(o, c).rule = c.rule /\ Emission(o, c).of = c.of
           /\ Emission(o, c).strict => Sure(o, c.entity)
<1>1. c.entity \in Entity /\ c.rule \in Rules /\ c.of \in 1..Firms
  BY DEF Candidate
<1>2. ComputeTrust(Components(o, c)) \in 0..1000
  BY ScoreTyped
<1>3. GradeLocality(o, c.entity) \in 0..100
  BY LocalityTyped
<1>4. ASSUME EvaluateStrictBind(o, c) PROVE Sure(o, c.entity)
  <2>1. OnlyBearer(o, c.entity)
    BY <1>4 DEF EvaluateStrictBind, Candidate
  <2>2. PICK e : e = c.entity
    OBVIOUS
  <2>3. GradeLocality(o, e) = 100 => SameCity(o, e)
    BY LocalityTyped
  <2>4. reg[e].name = known[o].name /\ GradeLocality(o, e) = 100 /\ SharedTrades(o, e) # {}
    BY <1>4, <2>2 DEF EvaluateStrictBind
  <2> QED BY <2>1, <2>2, <2>3, <2>4 DEF Sure
<1>5. <<o, c.entity>> \in Pair
  BY <1>1 DEF Pair
<1>6. /\ Emission(o, c).pair = <<o, c.entity>> /\ Emission(o, c).rule = c.rule /\ Emission(o, c).of = c.of
      /\ Emission(o, c).trust = ComputeTrust(Components(o, c))
      /\ Emission(o, c).locality = GradeLocality(o, c.entity)
      /\ Emission(o, c).strict = EvaluateStrictBind(o, c)
  BY DEF Emission
<1> QED BY <1>1, <1>2, <1>3, <1>4, <1>5, <1>6

--------------------------------------------------------------------------------
(* Every step keeps it.                                                     *)

\* What has been written or waited for still is: nothing this pass did is undone.
LEMMA StaysWhole ==
    ASSUME \A p \in Pair : Settled(p) \/ Coming(p) => Settled(p)' \/ Coming(p)', NEW o \in Org, NEW n
    PROVE  Whole(o, n) => Whole(o, n)'
<1> SUFFICES ASSUME Whole(o, n) PROVE Whole(o, n)'
  OBVIOUS
<1>1. PICK C \in SUBSET Entity : /\ Cardinality(C) = Min({n, Fanout})
                                 /\ \A e \in C : Settled(<<o, e>>) \/ Coming(<<o, e>>)
  BY DEF Whole
<1>2. \A e \in C : <<o, e>> \in Pair
  BY DEF Pair
<1>3. \A e \in C : Settled(<<o, e>>)' \/ Coming(<<o, e>>)'
  BY <1>1, <1>2
<1> QED BY <1>1, <1>3 DEF Whole

LEMMA BeginMatches == MatchInvariant /\ Begin => MatchInvariant'
<1> SUFFICES ASSUME MatchInvariant, Begin PROVE MatchInvariant'
  OBVIOUS
<1>1. MatchTypeOK /\ passes \in Nat /\ passes < MaxPass /\ MaxPass \in Nat
  BY RegistryMatchAssumption DEF MatchInvariant, MatchTypeOK, Begin
<1>2. PICK offer \in [Org -> UNION {Offers(o) : o \in Org}] :
        /\ \A o \in Org : offer[o] \in Offers(o)
        /\ LET inserts == UNION {{Emission(o, c) : c \in offer[o]} :
                                   o \in {x \in Org : bound[x] = Absent}}
           IN  pass' = [Resting EXCEPT !.pc = "persist",
                                       !.todo = {i \in inserts : ClearsFloor(i, inserts)}]
  BY DEF Begin
<1> DEFINE inserts == UNION {{Emission(o, c) : c \in offer[o]} : o \in {x \in Org : bound[x] = Absent}}
           todo == {i \in inserts : ClearsFloor(i, inserts)}
<1>3. passes' = passes + 1 /\ UNCHANGED <<reg, known, bound, rows, review, refused, crossed, decided, deaths>>
  BY DEF Begin
<1>4. pass' = [pc |-> "persist", todo |-> todo, item |-> Absent]
  BY <1>2 DEF Resting
<1>5. MatchTypeOK'
  <2>1. passes' \in 0..MaxPass
    BY <1>1, <1>3
  <2>2. pass'.pc = "persist" /\ pass'.item = Absent
    BY <1>4
  <2> QED BY <1>1, <1>3, <2>1, <2>2 DEF MatchTypeOK
<1>6. \A p \in Pair : rows[p] # Absent => rows[p].pass \in Nat /\ rows[p].pass < passes'
  <2>1. \A p \in Pair : rows[p] # Absent => rows[p].pass \in 1..MaxPass /\ rows[p].pass <= passes
    BY DEF MatchInvariant, MatchTypeOK, Observation
  <2> QED BY <1>1, <1>3, <2>1
<1>7. \A p \in Pair : ~Offered(p)'
  BY <1>1, <1>3, <1>6 DEF Offered
<1>8. ASSUME NEW i \in todo PROVE Waiting(i)'
  <2>0. PICK o \in Org : bound[o] = Absent /\ \E c \in offer[o] : i = Emission(o, c)
    OBVIOUS
  <2>1. PICK c \in offer[o] : i = Emission(o, c)
    BY <2>0
  <2>2. offer[o] \in Offers(o)
    BY <1>2
  <2>3. Candidate(o, c)
    BY <1>1, <2>1, <2>2, OfferTyped
  <2>4. /\ i.pair \in Pair /\ i.pair = <<o, c.entity>> /\ i.rule \in Rules /\ i.of \in 1..Firms
        /\ i.trust \in 0..1000 /\ i.locality \in 0..100
        /\ i.rule = c.rule /\ i.of = c.of
        /\ i.strict => Sure(o, c.entity)
    BY <1>1, <2>1, <2>3, EmissionTyped
  <2>5. i.strict => Sure(i.pair[1], i.pair[2])'
    <3>1. Sure(o, c.entity) => Sure(o, c.entity)'
      BY <1>3 DEF Sure, SameCity, OnlyBearer, SharedTrades, Bearers, PhoneAgrees
    <3> QED BY <2>4, <3>1
  <2>6. ASSUME i.rule = "ambiguous" PROVE Whole(i.pair[1], i.of)'
    <3>1. PICK n \in 1..Firms, C \in SUBSET Entity :
             /\ Cardinality(C) = Min({n, Fanout})
             /\ \A e \in C : \E d \in offer[o] : d.entity = e
             /\ \A d \in offer[o] : d.rule = "ambiguous" /\ d.of = n
      <4>1. PICK S : S = offer[o]
        OBVIOUS
      <4>2. S \in Offers(o) /\ \E d \in S : d.rule = "ambiguous"
        BY <2>2, <2>4, <2>6, <4>1
      <4>3. \E n \in 1..Firms : \E C \in SUBSET Entity :
              /\ Cardinality(C) = Min({n, Fanout})
              /\ \A e \in C : \E d \in S : d.entity = e
              /\ \A d \in S : d.rule = "ambiguous" /\ d.of = n
        BY <1>1, <4>2, OfferTyped
      <4> QED BY <4>1, <4>3
    <3>2. ASSUME NEW e \in C PROVE Coming(<<o, e>>)'
      <4>1. PICK d \in offer[o] : d.entity = e
        BY <3>1
      <4>2. PICK j : j = Emission(o, d)
        OBVIOUS
      <4>3. j.pair = <<o, e>> /\ j.rule = "ambiguous"
        BY <3>1, <4>1, <4>2 DEF Emission
      <4>4. j \in inserts
        BY <2>0, <4>2
      <4>5. \E x \in inserts : x.rule = "ambiguous" /\ x.pair[1] = o /\ x.trust >= MinQueueTrust
        <5>1. ClearsFloor(i, inserts)
          OBVIOUS
        <5> QED BY <2>4, <2>6, <5>1 DEF ClearsFloor
      <4>6. ClearsFloor(j, inserts)
        BY <4>3, <4>5 DEF ClearsFloor
      <4>7. j \in todo
        BY <4>4, <4>6
      <4> QED BY <1>4, <4>3, <4>7 DEF Coming
    <3>3. Whole(o, n)'
      BY <3>1, <3>2 DEF Whole
    <3>4. i.of = n /\ i.pair[1] = o
      BY <2>4, <3>1
    <3> QED BY <3>3, <3>4
  <2> QED BY <2>4, <2>5, <2>6 DEF Waiting
<1> HIDE DEF todo
<1>9. /\ pass' = [pc |-> pass'.pc, todo |-> pass'.todo, item |-> pass'.item]
      /\ pass'.pc = "persist" /\ passes' > 0
      /\ pass'.todo = todo
  BY <1>1, <1>3, <1>4
<1>10. \A p \in Pair : rows'[p] # Absent => rows'[p].pass <= passes'
  BY <1>1, <1>3, <1>6
<1> QED BY <1>5, <1>7, <1>8, <1>9, <1>10 DEF MatchInvariant, Between

\* The rows a pass writes.
LEMMA WrittenTyped ==
    ASSUME MatchInvariant, pass.pc = "persist", NEW i \in pass.todo,
           NEW status \in {"pending", "accepted", "rejected"}, NEW by \in {"nobody", "auto", "human"}
    PROVE  /\ Written(i, status, by) \in Observation
           /\ Written(i, status, by).status = status /\ Written(i, status, by).by = by
           /\ Written(i, status, by).pass = passes /\ Written(i, status, by).rule = i.rule
           /\ Written(i, status, by).of = i.of
<1>1. passes \in 1..MaxPass
  BY RegistryMatchAssumption DEF MatchInvariant, MatchTypeOK, Between
<1>2. i.rule \in Rules /\ i.of \in 1..Firms /\ i.trust \in 0..1000 /\ i.locality \in 0..100
  BY DEF MatchInvariant, Waiting
<1> QED BY <1>1, <1>2 DEF Written, Observation

\* What a pass does with one candidate: its row is done, the others are as they were, and a
\* row that then waits is the candidate's own.
LEMMA PersistWrites ==
    ASSUME MatchInvariant, pass.pc = "persist", NEW i \in pass.todo,
           PersistStrict(i) \/ PersistQueued(i)
    PROVE  /\ i.pair \in Pair
           /\ rows' \in [Pair -> Observation \cup {Absent}]
           /\ \A p \in Pair : p # i.pair => rows'[p] = rows[p]
           /\ rows'[i.pair] # Absent
           /\ rows'[i.pair] = rows[i.pair] \/ rows'[i.pair].pass = passes
           /\ rows'[i.pair].pass = passes \/ rows'[i.pair].status # "pending"
           /\ rows'[i.pair].status = "pending" => rows'[i.pair].rule = i.rule /\ rows'[i.pair].of = i.of
           /\ pass'.todo = pass.todo \ {i} /\ pass' = [pc |-> pass'.pc, todo |-> pass'.todo, item |-> pass'.item]
           /\ pass'.pc \in {"persist", "bind"} /\ pass'.item \in Pair \cup {Absent}
           /\ pass'.pc = "bind" => /\ i.strict /\ Pending(i.pair) /\ pass'.item = i.pair
                                   /\ rows'[i.pair].status = "accepted"
                                   /\ Deciding(i.pair) # {} => i.pair \in crossed'
           /\ crossed \subseteq crossed' /\ crossed' \subseteq Pair
           /\ rows[i.pair] # Absent /\ rows[i.pair].status # "pending" => rows'[i.pair] = rows[i.pair]
<1>1. i.pair \in Pair /\ rows \in [Pair -> Observation \cup {Absent}]
  BY DEF MatchInvariant, MatchTypeOK, Waiting
<1>2. /\ pass = [pc |-> "persist", todo |-> pass.todo, item |-> pass.item]
      /\ crossed \subseteq Pair /\ pass.item \in Pair \cup {Absent}
  BY DEF MatchInvariant, MatchTypeOK
<1>3. Absent \notin Observation
  BY RegistryMatchAssumption
<1>4. passes \in 1..MaxPass
  BY RegistryMatchAssumption DEF MatchInvariant, MatchTypeOK, Between
<1>6. CASE PersistStrict(i) /\ Pending(i.pair)
  <2>1. /\ rows' = [rows EXCEPT ![i.pair] =
               IF @ = Absent THEN Written(i, "accepted", "auto")
               ELSE [@ EXCEPT !.status = "accepted", !.by = "auto", !.pass = passes]]
        /\ pass' = [pass EXCEPT !.pc = "bind", !.todo = @ \ {i}, !.item = i.pair]
        /\ crossed' = IF Deciding(i.pair) = {} THEN crossed ELSE crossed \cup {i.pair}
        /\ i.strict
    BY <1>6, Zenon DEF PersistStrict
  <2>2. /\ pass' = [pc |-> "bind", todo |-> pass.todo \ {i}, item |-> i.pair]
        /\ crossed \subseteq crossed' /\ crossed' \subseteq Pair
        /\ Deciding(i.pair) # {} => i.pair \in crossed'
    BY <1>1, <1>2, <2>1
  <2>4. rows[i.pair] # Absent => rows[i.pair].status = "pending"
    BY <1>6 DEF Pending
  <2>3. PICK w \in Observation :
          /\ w.status = "accepted" /\ w.pass = passes
          /\ rows' = [rows EXCEPT ![i.pair] = w]
    <3>1. CASE rows[i.pair] = Absent
      <4>1. PICK w \in Observation : w = Written(i, "accepted", "auto") /\ w.status = "accepted" /\ w.pass = passes
        BY WrittenTyped
      <4> QED BY <1>1, <2>1, <3>1, <4>1
    <3>2. CASE rows[i.pair] # Absent
      <4>1. PICK v \in Observation : v = rows[i.pair]
        BY <1>1, <3>2
      <4>2. PICK w : w = [v EXCEPT !.status = "accepted", !.by = "auto", !.pass = passes]
        OBVIOUS
      <4>3. w \in Observation /\ w.status = "accepted" /\ w.pass = passes
        <5>1. /\ v.rule \in Rules /\ v.of \in 1..Firms /\ v.trust \in 0..1000
              /\ v.locality \in 0..100
          BY DEF Observation
        <5>2. w = [rule |-> v.rule, of |-> v.of, trust |-> v.trust,
                   locality |-> v.locality, status |-> "accepted", by |-> "auto", pass |-> passes]
          BY <4>2 DEF Observation
        <5> QED BY <1>4, <5>1, <5>2 DEF Observation
      <4>4. rows' = [rows EXCEPT ![i.pair] = w]
        BY <1>1, <2>1, <3>2, <4>1, <4>2
      <4> QED BY <4>3, <4>4
    <3> QED BY <3>1, <3>2
  <2>5. /\ pass'.todo = pass.todo \ {i} /\ pass' = [pc |-> pass'.pc, todo |-> pass'.todo, item |-> pass'.item]
        /\ pass'.pc = "bind" /\ pass'.item = i.pair
    BY <2>2
  <2>6. /\ rows' \in [Pair -> Observation \cup {Absent}]
        /\ \A p \in Pair : p # i.pair => rows'[p] = rows[p]
        /\ rows'[i.pair] # Absent /\ rows'[i.pair].pass = passes /\ rows'[i.pair].status = "accepted"
    BY <1>1, <1>3, <2>3
  <2> QED BY <1>1, <1>6, <2>1, <2>2, <2>4, <2>5, <2>6
<1>7. CASE PersistQueued(i) /\ Pending(i.pair)
  <2>1. rows' = [rows EXCEPT ![i.pair] = Written(i, "pending", "nobody")]
    BY <1>7 DEF PersistQueued
  <2>4. /\ pass' = [pc |-> "persist", todo |-> pass.todo \ {i}, item |-> pass.item] /\ crossed' = crossed
        /\ rows[i.pair] # Absent => rows[i.pair].status = "pending"
    BY <1>2, <1>7 DEF PersistQueued, Pending
  <2>2. PICK w \in Observation : /\ w = Written(i, "pending", "nobody") /\ w.status = "pending"
                                 /\ w.pass = passes /\ w.rule = i.rule /\ w.of = i.of
    BY WrittenTyped
  <2>3. rows' = [rows EXCEPT ![i.pair] = w]
    BY <2>1, <2>2
  <2> QED BY <1>1, <1>2, <1>3, <2>2, <2>3, <2>4
<1>8. CASE ~Pending(i.pair)
  <2>1. /\ UNCHANGED <<rows, crossed>>
        /\ pass' = [pc |-> "persist", todo |-> pass.todo \ {i}, item |-> pass.item]
    BY <1>2, <1>8 DEF PersistStrict, PersistQueued
  <2>2. rows[i.pair] # Absent /\ rows[i.pair].status # "pending"
    BY <1>8 DEF Pending
  <2> QED BY <1>1, <1>2, <2>1, <2>2
<1> QED BY <1>6, <1>7, <1>8

LEMMA PersistMatches == MatchInvariant /\ Persist => MatchInvariant'
<1> SUFFICES ASSUME MatchInvariant, Persist PROVE MatchInvariant'
  OBVIOUS
<1>1. pass.pc = "persist" /\ UNCHANGED <<reg, known, bound, review, refused, passes, decided, deaths>>
  BY DEF Persist
<1>2. PICK i \in pass.todo : PersistStrict(i) \/ PersistQueued(i)
  BY DEF Persist
<1>3. MatchTypeOK /\ passes > 0
  BY <1>1 DEF MatchInvariant, Between
<1>4. /\ pass'.todo = pass.todo \ {i} /\ pass' = [pc |-> pass'.pc, todo |-> pass'.todo, item |-> pass'.item]
      /\ pass'.pc \in {"persist", "bind"} /\ pass'.item \in Pair \cup {Absent} /\ crossed' \subseteq Pair
  BY <1>1, <1>2, PersistWrites
<1>5. /\ i.pair \in Pair
      /\ rows' \in [Pair -> Observation \cup {Absent}]
      /\ \A p \in Pair : p # i.pair => rows'[p] = rows[p]
      /\ rows'[i.pair] # Absent
      /\ rows'[i.pair] = rows[i.pair] \/ rows'[i.pair].pass = passes
      /\ rows'[i.pair].pass = passes \/ rows'[i.pair].status # "pending"
      /\ rows'[i.pair].status = "pending" => rows'[i.pair].rule = i.rule /\ rows'[i.pair].of = i.of
  BY <1>1, <1>2, PersistWrites
<1>6. MatchTypeOK'
  BY <1>1, <1>3, <1>4, <1>5 DEF MatchTypeOK
<1>7. \A p \in Pair : Settled(p) \/ Coming(p) => Settled(p)' \/ Coming(p)'
  <2>1. Settled(i.pair)'
    BY <1>1, <1>5 DEF Settled
  <2>2. ASSUME NEW p \in Pair, p # i.pair, Settled(p) PROVE Settled(p)'
    BY <1>1, <1>5, <2>2 DEF Settled
  <2>3. ASSUME NEW p \in Pair, p # i.pair, Coming(p) PROVE Coming(p)'
    BY <1>4, <2>3 DEF Coming
  <2> QED BY <2>1, <2>2, <2>3
<1>8. \A o \in Org : \A n : Whole(o, n) => Whole(o, n)'
  BY <1>7, StaysWhole
<1>9. ASSUME NEW j \in pass'.todo PROVE Waiting(j)'
  <2>1. Waiting(j)
    BY <1>4 DEF MatchInvariant
  <2>2. j.pair[1] \in Org
    BY <2>1 DEF Waiting, Pair
  <2>3. Sure(j.pair[1], j.pair[2]) => Sure(j.pair[1], j.pair[2])'
    BY <1>1 DEF Sure, SameCity, OnlyBearer, SharedTrades, Bearers, PhoneAgrees
  <2>4. Whole(j.pair[1], j.of) => Whole(j.pair[1], j.of)'
    BY <1>8, <2>2
  <2> QED BY <2>1, <2>3, <2>4 DEF Waiting
<1>10. ASSUME NEW p \in Pair, Offered(p)' PROVE Whole(p[1], rows[p].of)'
  <2>1. p[1] \in Org
    BY DEF Pair
  <2>2. CASE p # i.pair
    <3>1. Offered(p) /\ rows'[p] = rows[p]
      BY <1>1, <1>5, <1>10, <2>2 DEF Offered
    <3>2. Whole(p[1], rows[p].of)
      BY <1>1, <3>1 DEF MatchInvariant
    <3>3. PICK n : n = rows[p].of
      OBVIOUS
    <3>4. Whole(p[1], n)'
      BY <1>8, <2>1, <3>2, <3>3
    <3> QED BY <3>1, <3>3, <3>4
  <2>3. CASE p = i.pair
    <3>1. i.rule = "ambiguous" /\ rows'[p].of = i.of
      BY <1>5, <1>10, <2>3 DEF Offered
    <3>2. Whole(i.pair[1], i.of)
      BY <3>1 DEF MatchInvariant, Waiting
    <3>3. PICK n : n = i.of
      OBVIOUS
    <3>4. Whole(p[1], n)'
      BY <1>8, <2>1, <2>3, <3>2, <3>3
    <3> QED BY <3>1, <3>3, <3>4
  <2> QED BY <2>2, <2>3
<1>11. ASSUME NEW p \in Pair, rows'[p] # Absent PROVE rows'[p].pass <= passes'
  <2>1. CASE rows'[p] = rows[p]
    BY <1>1, <1>11, <2>1 DEF MatchInvariant
  <2>2. CASE rows'[p] # rows[p]
    <3>1. rows'[p].pass = passes
      BY <1>5, <2>2
    <3>2. passes \in Nat
      BY <1>3, RegistryMatchAssumption DEF MatchTypeOK
    <3> QED BY <1>1, <3>1, <3>2
  <2> QED BY <2>1, <2>2
<1> QED BY <1>1, <1>3, <1>4, <1>6, <1>9, <1>10, <1>11 DEF MatchInvariant, Between

\* What writes no row and gives the pass no work.
LEMMA StillMatches ==
    ASSUME MatchInvariant, MatchTypeOK', UNCHANGED <<rows, passes>>, pass'.todo = pass.todo,
           UNCHANGED <<reg, known>> \/ pass.todo = {},
           pass' = [pc |-> pass'.pc, todo |-> pass'.todo, item |-> pass'.item],
           Between => Between', Between' => pass.todo = {}, pass'.pc # "died" => pass.pc # "died"
    PROVE  MatchInvariant'
<1>1. \A q : Settled(q)' = Settled(q) /\ Coming(q)' = Coming(q) /\ Offered(q)' = Offered(q)
  BY DEF Settled, Coming, Offered
<1>2. \A o, n : Whole(o, n) => Whole(o, n)'
  BY <1>1 DEF Whole
<1>3. ASSUME NEW i \in pass'.todo PROVE Waiting(i)'
  <2>1. Waiting(i)
    BY DEF MatchInvariant
  <2>2. UNCHANGED <<reg, known>>
    OBVIOUS
  <2>3. \A o, e : Sure(o, e) => Sure(o, e)'
    BY <2>2 DEF Sure, SameCity, OnlyBearer, Bearers, PhoneAgrees, SharedTrades
  <2> QED BY <1>2, <2>1, <2>3 DEF Waiting
<1>4. ASSUME NEW p \in Pair, Offered(p)', pass'.pc # "died" PROVE Whole(p[1], rows[p].of)'
  <2>1. Whole(p[1], rows[p].of) /\ rows'[p] = rows[p]
    BY <1>1, <1>4 DEF MatchInvariant
  <2>2. PICK n : n = rows[p].of
    OBVIOUS
  <2> QED BY <1>2, <2>1, <2>2
<1>5. \A p \in Pair : rows'[p] # Absent => rows'[p].pass <= passes'
  BY DEF MatchInvariant
<1>6. ~Between' => passes' > 0
  BY DEF MatchInvariant
<1>7. Between' => pass'.todo = {}
  OBVIOUS
<1> QED BY <1>3, <1>4, <1>5, <1>6, <1>7 DEF MatchInvariant

\* Binding keeps to the organizations and the entities there are.
LEMMA BindTyped ==
    ASSUME MatchTypeOK, NEW p \in Pair, Bind(p[1], p[2]) PROVE bound' \in [Org -> Entity \cup {Absent}]
<1>1. p[1] \in Org /\ p[2] \in Entity /\ bound \in [Org -> Entity \cup {Absent}]
  BY DEF Pair, MatchTypeOK
<1> QED BY <1>1 DEF Bind

LEMMA BindMatches == MatchInvariant /\ BindInvariant /\ ApplyBindingAccept => MatchInvariant'
<1> SUFFICES ASSUME MatchInvariant, BindInvariant, ApplyBindingAccept PROVE MatchInvariant'
  OBVIOUS
<1>1. /\ pass.pc = "bind" /\ pass.item \in Pair /\ Bind(pass.item[1], pass.item[2])
      /\ UNCHANGED <<reg, known, rows, review, refused, crossed, passes, decided, deaths>>
  BY DEF ApplyBindingAccept, BindInvariant
<1>2. MatchTypeOK /\ pass = [pc |-> pass.pc, todo |-> pass.todo, item |-> pass.item]
  BY DEF MatchInvariant
<1>3. pass' = [pc |-> "persist", todo |-> pass.todo, item |-> Absent]
  BY <1>2 DEF ApplyBindingAccept
<1>4. bound' \in [Org -> Entity \cup {Absent}]
  BY <1>1, <1>2, BindTyped
<1>5. MatchTypeOK'
  BY <1>1, <1>2, <1>3, <1>4 DEF MatchTypeOK
<1> QED BY <1>1, <1>3, <1>5, StillMatches DEF Between

LEMMA PassEndsMatches == MatchInvariant /\ PassEnds => MatchInvariant'
<1> SUFFICES ASSUME MatchInvariant, PassEnds PROVE MatchInvariant'
  OBVIOUS
<1>1. /\ pass.pc = "persist" /\ pass.todo = {}
      /\ UNCHANGED <<reg, known, bound, rows, review, refused, crossed, passes, decided, deaths>>
  BY DEF PassEnds
<1>2. pass' = [pc |-> "idle", todo |-> {}, item |-> Absent]
  BY DEF PassEnds, Resting
<1>3. MatchTypeOK'
  BY <1>1, <1>2 DEF MatchInvariant, MatchTypeOK
<1> QED BY <1>1, <1>2, <1>3, StillMatches DEF Between

LEMMA PassDiesMatches == MatchInvariant /\ PassDies => MatchInvariant'
<1> SUFFICES ASSUME MatchInvariant, PassDies PROVE MatchInvariant'
  OBVIOUS
<1>1. /\ UNCHANGED <<reg, known, bound, rows, review, refused, crossed, passes, decided>>
      /\ deaths < MaxDeath /\ deaths' = deaths + 1
  BY DEF PassDies
<1>2. pass' = [pc |-> "died", todo |-> {}, item |-> Absent]
  BY DEF PassDies, Resting
<1>3. deaths' \in 0..MaxDeath
  BY <1>1, RegistryMatchAssumption DEF MatchInvariant, MatchTypeOK
<1>4. MatchTypeOK'
  BY <1>1, <1>2, <1>3 DEF MatchInvariant, MatchTypeOK
<1> QED BY <1>1, <1>2, <1>4 DEF MatchInvariant, Between

\* A request starts, binds or is lost: no row is written.
LEMMA RequestMatches ==
    ASSUME MatchInvariant, UNCHANGED <<reg, known, rows, pass, refused, crossed, passes>>,
           review' \in [Reviewer -> Decision \cup {Absent}], bound' \in [Org -> Entity \cup {Absent}],
           decided' \in 0..MaxDecision, deaths' \in 0..MaxDeath
    PROVE  MatchInvariant'
<1>1. MatchTypeOK /\ pass = [pc |-> pass.pc, todo |-> pass.todo, item |-> pass.item]
      /\ (Between => pass.todo = {})
  BY DEF MatchInvariant
<1>2. MatchTypeOK'
  BY <1>1 DEF MatchTypeOK
<1>3. Between' = Between
  BY DEF Between
<1>4. pass'.todo = pass.todo /\ pass' = [pc |-> pass'.pc, todo |-> pass'.todo, item |-> pass'.item]
      /\ UNCHANGED <<rows, passes>> /\ UNCHANGED <<reg, known>> /\ pass'.pc = pass.pc
  BY <1>1
<1> QED BY <1>1, <1>2, <1>3, <1>4, StillMatches

LEMMA ReadPendingMatches ==
    ASSUME MatchInvariant, NEW q \in Reviewer, NEW p \in Pair, NEW verdict \in {"accepted", "rejected"},
           ReadPending(q, p, verdict)
    PROVE  MatchInvariant'
<1>1. /\ UNCHANGED <<reg, known, bound, rows, pass, refused, crossed, passes, deaths>>
      /\ decided < MaxDecision /\ decided' = decided + 1
  BY DEF ReadPending
<1>2. PICK d \in Decision : review' = [review EXCEPT ![q] = d]
  <2>1. PICK d : d = [pair |-> p, verdict |-> verdict,
                      pc |-> IF verdict = "accepted" THEN "bind" ELSE "write"]
    OBVIOUS
  <2>2. d \in Decision
    BY <2>1 DEF Decision
  <2> QED BY <2>1, <2>2 DEF ReadPending
<1>3. MatchTypeOK
  BY DEF MatchInvariant
<1>4. review' \in [Reviewer -> Decision \cup {Absent}]
  BY <1>2, <1>3 DEF MatchTypeOK
<1>5. decided' \in 0..MaxDecision
  BY <1>1, <1>3, RegistryMatchAssumption DEF MatchTypeOK
<1>6. bound' \in [Org -> Entity \cup {Absent}] /\ deaths' \in 0..MaxDeath
  BY <1>1, <1>3 DEF MatchTypeOK
<1> QED BY <1>1, <1>4, <1>5, <1>6, RequestMatches

LEMMA BindAcceptedMatches ==
    ASSUME MatchInvariant, NEW q \in Reviewer, BindAccepted(q) PROVE MatchInvariant'
<1>1. MatchTypeOK /\ UNCHANGED <<reg, known, rows, pass, refused, crossed, passes, decided, deaths>>
  BY DEF BindAccepted, MatchInvariant
<1>2. PICK d \in Decision : d = review[q]
  BY <1>1 DEF BindAccepted, MatchTypeOK
<1>3. d.pair \in Pair /\ Bind(d.pair[1], d.pair[2])
  BY <1>2 DEF BindAccepted, Decision
<1>4. bound' \in [Org -> Entity \cup {Absent}]
  BY <1>1, <1>3, BindTyped
<1>5. review' \in [Reviewer -> Decision \cup {Absent}]
  <2>1. PICK c : c = [pair |-> d.pair, verdict |-> d.verdict, pc |-> "write"]
    OBVIOUS
  <2>2. c \in Decision
    BY <2>1 DEF Decision
  <2>3. [d EXCEPT !.pc = "write"] = c
    BY <2>1 DEF Decision
  <2>4. review \in [Reviewer -> Decision \cup {Absent}]
    BY <1>1 DEF MatchTypeOK
  <2>5. review' = [review EXCEPT ![q] = c]
    BY <1>2, <2>3, <2>4 DEF BindAccepted
  <2> QED BY <2>2, <2>4, <2>5
<1>6. decided' \in 0..MaxDecision /\ deaths' \in 0..MaxDeath
  BY <1>1 DEF MatchTypeOK
<1> QED BY <1>1, <1>4, <1>5, <1>6, RequestMatches

LEMMA RequestDiesMatches ==
    ASSUME MatchInvariant, NEW q \in Reviewer, RequestDies(q) PROVE MatchInvariant'
<1>1. /\ MatchTypeOK /\ UNCHANGED <<reg, known, bound, rows, pass, refused, crossed, passes, decided>>
      /\ deaths < MaxDeath /\ deaths' = deaths + 1 /\ review' = [review EXCEPT ![q] = Absent]
  BY DEF RequestDies, MatchInvariant
<1>2. review' \in [Reviewer -> Decision \cup {Absent}]
  BY <1>1 DEF MatchTypeOK
<1>3. deaths' \in 0..MaxDeath
  BY <1>1, RegistryMatchAssumption DEF MatchTypeOK
<1>4. decided' \in 0..MaxDecision /\ bound' \in [Org -> Entity \cup {Absent}]
  BY <1>1 DEF MatchTypeOK
<1> QED BY <1>1, <1>2, <1>3, <1>4, RequestMatches

LEMMA WriteVerdictMatches ==
    ASSUME MatchInvariant, BindInvariant, NEW q \in Reviewer, WriteVerdict(q) PROVE MatchInvariant'
<1>1. UNCHANGED <<reg, known, bound, pass, crossed, passes, decided, deaths>> /\ review' = [review EXCEPT ![q] = Absent]
  BY DEF WriteVerdict
<1>2. MatchTypeOK /\ Absent \notin Observation
  BY RegistryMatchAssumption DEF MatchInvariant
<1>3a. PICK d \in Decision : d = review[q]
  BY <1>2 DEF WriteVerdict, MatchTypeOK
<1>3b. PICK p \in Pair, verdict \in {"accepted", "rejected"} : p = d.pair /\ verdict = d.verdict
  BY DEF Decision
<1>3. rows[p] # Absent
  BY <1>3a, <1>3b DEF BindInvariant, WriteVerdict
<1>4. PICK v \in Observation : v = rows[p]
  BY <1>2, <1>3 DEF MatchTypeOK
<1>5. PICK w : w = [v EXCEPT !.status = verdict, !.by = "human"]
  OBVIOUS
<1>6. /\ w \in Observation /\ w.status = verdict /\ w.pass = v.pass
  <2>1. /\ v.rule \in Rules /\ v.of \in 1..Firms /\ v.trust \in 0..1000
        /\ v.locality \in 0..100 /\ v.pass \in 1..MaxPass
    BY DEF Observation
  <2>2. w = [rule |-> v.rule, of |-> v.of, trust |-> v.trust,
             locality |-> v.locality, status |-> verdict, by |-> "human", pass |-> v.pass]
    BY <1>5 DEF Observation
  <2> QED BY <2>1, <2>2 DEF Observation
<1>7. rows \in [Pair -> Observation \cup {Absent}] /\ rows' = [rows EXCEPT ![p] = w]
  <2>1. rows' = [rows EXCEPT ![p].status = verdict, ![p].by = "human"]
    BY <1>3a, <1>3b DEF WriteVerdict
  <2>2. rows \in [Pair -> Observation \cup {Absent}]
    BY <1>2 DEF MatchTypeOK
  <2> QED BY <1>4, <1>5, <2>1, <2>2
<1>8. rows' \in [Pair -> Observation \cup {Absent}] /\ rows'[p] = w /\ \A r \in Pair : r # p => rows'[r] = rows[r]
  BY <1>6, <1>7
<1>9. review' \in [Reviewer -> Decision \cup {Absent}] /\ refused' \subseteq Pair
  BY <1>1, <1>2, <1>3a, <1>3b DEF WriteVerdict, MatchTypeOK
<1>10. MatchTypeOK'
  BY <1>1, <1>2, <1>8, <1>9 DEF MatchTypeOK
<1>11. \A r \in Pair : Settled(r) \/ Coming(r) => Settled(r)' \/ Coming(r)'
  <2>1. Settled(p)'
    BY <1>2, <1>6, <1>8 DEF Settled
  <2>2. \A r \in Pair : r # p => (Settled(r) => Settled(r)')
    BY <1>1, <1>8 DEF Settled
  <2>3. \A r \in Pair : Coming(r) => Coming(r)'
    BY <1>1 DEF Coming
  <2> QED BY <2>1, <2>2, <2>3
<1>12. \A o \in Org : \A n : Whole(o, n) => Whole(o, n)'
  BY <1>11, StaysWhole
<1>13. ASSUME NEW r \in Pair, Offered(r)', pass.pc # "died" PROVE Whole(r[1], rows[r].of)'
  <2>1. r # p
    BY <1>6, <1>8, <1>13 DEF Offered
  <2>2. r[1] \in Org /\ Offered(r) /\ rows'[r] = rows[r]
    BY <1>1, <1>8, <1>13, <2>1 DEF Pair, Offered
  <2>3. PICK n : n = rows[r].of
    OBVIOUS
  <2>4. Whole(r[1], n)
    BY <1>13, <2>2, <2>3 DEF MatchInvariant
  <2>5. Whole(r[1], n)'
    BY <1>12, <2>2, <2>4
  <2> QED BY <2>2, <2>3, <2>5
<1>14. ASSUME NEW j \in pass.todo PROVE Waiting(j)'
  <2>1. Waiting(j)
    BY DEF MatchInvariant
  <2>2. j.pair[1] \in Org
    BY <2>1 DEF Waiting, Pair
  <2>3. Sure(j.pair[1], j.pair[2]) => Sure(j.pair[1], j.pair[2])'
    BY <1>1 DEF Sure, SameCity, OnlyBearer, SharedTrades, Bearers, PhoneAgrees
  <2>4. Whole(j.pair[1], j.of) => Whole(j.pair[1], j.of)'
    BY <1>12, <2>2
  <2> QED BY <2>1, <2>3, <2>4 DEF Waiting
<1>15. ASSUME NEW r \in Pair, rows'[r] # Absent PROVE rows'[r].pass <= passes'
  <2>1. rows[r] # Absent /\ rows'[r].pass = rows[r].pass
    BY <1>3, <1>4, <1>6, <1>8, <1>15
  <2> QED BY <1>1, <2>1 DEF MatchInvariant
<1>16. /\ pass' = [pc |-> pass'.pc, todo |-> pass'.todo, item |-> pass'.item]
       /\ (~Between' => passes' > 0) /\ (Between' => pass'.todo = {}) /\ pass' = pass
  BY <1>1 DEF MatchInvariant, Between
<1> QED BY <1>10, <1>13, <1>14, <1>15, <1>16 DEF MatchInvariant

LEMMA RepublishMatches ==
    ASSUME MatchInvariant, NEW e \in Entity, NEW r \in Registrations[e], Republish(e, r)
    PROVE  MatchInvariant'
<1>1. Between /\ UNCHANGED <<known, bound, rows, pass, review, refused, crossed, passes, decided, deaths>>
      /\ reg' = [reg EXCEPT ![e] = r]
  BY DEF Republish
<1>2. MatchTypeOK /\ pass.todo = {} /\ pass = [pc |-> pass.pc, todo |-> pass.todo, item |-> pass.item]
  BY <1>1 DEF MatchInvariant
<1>3. reg \in [Entity -> UNION {Registrations[x] : x \in Entity}] /\ \A x \in Entity : reg[x] \in Registrations[x]
  BY <1>2 DEF MatchTypeOK
<1>4. reg' \in [Entity -> UNION {Registrations[x] : x \in Entity}] /\ \A x \in Entity : reg'[x] \in Registrations[x]
  BY <1>1, <1>3
<1>5. MatchTypeOK'
  BY <1>1, <1>2, <1>4 DEF MatchTypeOK
<1>6. Between' = Between
  BY <1>1 DEF Between
<1> QED BY <1>1, <1>2, <1>5, <1>6, StillMatches

LEMMA LearnMatches ==
    ASSUME MatchInvariant, NEW o \in Org, NEW f \in Evidences, Learn(o, f)
    PROVE  MatchInvariant'
<1>1. Between /\ UNCHANGED <<reg, bound, rows, pass, review, refused, crossed, passes, decided, deaths>>
      /\ known' = [known EXCEPT ![o] = f]
  BY DEF Learn
<1>2. MatchTypeOK /\ pass.todo = {} /\ pass = [pc |-> pass.pc, todo |-> pass.todo, item |-> pass.item]
  BY <1>1 DEF MatchInvariant
<1>3. known' \in [Org -> Evidences]
  BY <1>1, <1>2 DEF MatchTypeOK
<1>4. MatchTypeOK'
  BY <1>1, <1>2, <1>3 DEF MatchTypeOK
<1>5. Between' = Between
  BY <1>1 DEF Between
<1> QED BY <1>1, <1>2, <1>4, <1>5, StillMatches

LEMMA StutterMatches == MatchInvariant /\ UNCHANGED matchVars => MatchInvariant'
<1> SUFFICES ASSUME MatchInvariant, UNCHANGED matchVars PROVE MatchInvariant'
  OBVIOUS
<1>1. UNCHANGED <<reg, known, bound, rows, pass, review, refused, crossed, passes, decided, deaths>>
  BY DEF matchVars
<1>2. MatchTypeOK' /\ pass' = [pc |-> pass'.pc, todo |-> pass'.todo, item |-> pass'.item]
      /\ (Between => pass.todo = {})
  BY <1>1 DEF MatchInvariant, MatchTypeOK
<1>3. Between' = Between
  BY <1>1 DEF Between
<1> QED BY <1>1, <1>2, <1>3, StillMatches

--------------------------------------------------------------------------------
(* What is bound stays sure.                                                *)

\* What accepts nothing and starts no request.
LEMMA StillBinds ==
    ASSUME BindInvariant, UNCHANGED <<rows, refused, crossed>>,
           (pass' = pass /\ UNCHANGED <<reg, known>>) \/ pass'.pc # "bind",
           \A q \in Reviewer : review'[q] # Absent =>
              review[q] # Absent /\ review'[q].pair = review[q].pair
    PROVE  BindInvariant'
<1>1. \A p : Decided(p)' = Decided(p) /\ Deciding(p)' \subseteq Deciding(p)
  BY DEF Decided, Deciding
<1>2. ASSUME pass'.pc = "bind"
      PROVE  /\ pass'.item \in Pair /\ Sure(pass.item[1], pass.item[2])' /\ Decided(pass.item)'
             /\ Deciding(pass.item)' # {} \/ pass'.item \in refused' => pass'.item \in crossed'
  <2>1. pass' = pass /\ UNCHANGED <<reg, known>>
    BY <1>2
  <2>2. PICK o, e : o = pass.item[1] /\ e = pass.item[2]
    OBVIOUS
  <2>3. Sure(o, e) => Sure(o, e)'
    BY <2>1 DEF Sure, SameCity, OnlyBearer, Bearers, PhoneAgrees, SharedTrades
  <2>4. PICK k : k = pass.item
    OBVIOUS
  <2>5. /\ k \in Pair /\ Sure(o, e) /\ Decided(k)
        /\ Deciding(k) # {} \/ k \in refused => k \in crossed
    BY <1>2, <2>1, <2>2, <2>4 DEF BindInvariant
  <2>6. Sure(o, e)' /\ Decided(k)' /\ (Deciding(k)' # {} \/ k \in refused' => k \in crossed')
    BY <1>1, <2>3, <2>5
  <2> QED BY <2>1, <2>2, <2>4, <2>5, <2>6
<1>3. \A q \in Reviewer : review'[q] # Absent => rows'[review'[q].pair] # Absent
  BY DEF BindInvariant
<1>4. \A p \in refused' : Decided(p)'
  BY <1>1 DEF BindInvariant
<1> QED BY <1>2, <1>3, <1>4 DEF BindInvariant

\* What the pass and the world do, but to accept.
LEMMA PassBinds ==
    ASSUME BindInvariant,
           \/ Begin \/ ApplyBindingAccept \/ PassEnds \/ PassDies \/ UNCHANGED matchVars
           \/ \E e \in Entity : \E r \in Registrations[e] : Republish(e, r)
           \/ \E o \in Org, f \in Evidences : Learn(o, f)
    PROVE  BindInvariant'
<1>1. UNCHANGED <<rows, refused, crossed, review>>
  BY DEF Begin, ApplyBindingAccept, PassEnds, PassDies, matchVars, Republish, Learn
<1>2. (pass' = pass /\ UNCHANGED <<reg, known>>) \/ pass'.pc # "bind"
  <2>1. CASE Begin
    BY <2>1 DEF Begin, Resting
  <2>2. CASE ApplyBindingAccept
    <3>1. pass' = [pass EXCEPT !.pc = "persist", !.item = Absent] /\ pass.pc = "bind"
      BY <2>2 DEF ApplyBindingAccept
    <3>2. pass'.pc # "bind"
      BY <2>2, <3>1 DEF ApplyBindingAccept
    <3> QED BY <3>2
  <2>3. CASE PassEnds
    BY <2>3 DEF PassEnds, Resting
  <2>4. CASE PassDies
    BY <2>4 DEF PassDies, Resting
  <2>5. CASE UNCHANGED matchVars
    BY <2>5 DEF matchVars
  <2>6. CASE \/ \E e \in Entity : \E r \in Registrations[e] : Republish(e, r)
             \/ \E o \in Org, f \in Evidences : Learn(o, f)
    BY <2>6 DEF Republish, Learn, Between
  <2> QED BY <2>1, <2>2, <2>3, <2>4, <2>5, <2>6
<1> QED BY <1>1, <1>2, StillBinds

LEMMA PersistBinds == MatchInvariant /\ BindInvariant /\ Persist => BindInvariant'
<1> SUFFICES ASSUME MatchInvariant, BindInvariant, Persist PROVE BindInvariant'
  OBVIOUS
<1>1. pass.pc = "persist" /\ UNCHANGED <<reg, known, review, refused>>
  BY DEF Persist
<1>2. PICK i \in pass.todo : PersistStrict(i) \/ PersistQueued(i)
  BY DEF Persist
<1>3. /\ i.pair \in Pair
      /\ \A p \in Pair : p # i.pair => rows'[p] = rows[p]
      /\ rows'[i.pair] # Absent
      /\ pass'.pc = "bind" => /\ i.strict /\ Pending(i.pair) /\ pass'.item = i.pair
                              /\ rows'[i.pair].status = "accepted"
                              /\ Deciding(i.pair) # {} => i.pair \in crossed'
      /\ crossed \subseteq crossed'
      /\ rows[i.pair] # Absent /\ rows[i.pair].status # "pending" => rows'[i.pair] = rows[i.pair]
  BY <1>1, <1>2, PersistWrites
<1>4. \A p \in Pair : Decided(p) => Decided(p)'
  BY <1>3 DEF Decided
<1>5. MatchTypeOK /\ refused \subseteq Pair
  BY DEF MatchInvariant, MatchTypeOK
<1>6. ASSUME pass'.pc = "bind"
      PROVE  /\ pass'.item \in Pair /\ Sure(pass.item[1], pass.item[2])' /\ Decided(pass.item)'
             /\ Deciding(pass.item)' # {} \/ pass'.item \in refused' => pass'.item \in crossed'
  <2>1. PICK k \in Pair : k = i.pair
    BY <1>3
  <2>2. Sure(k[1], k[2])
    BY <1>3, <1>6, <2>1 DEF MatchInvariant, Waiting
  <2>3. PICK o, e : o = k[1] /\ e = k[2]
    OBVIOUS
  <2>4. Sure(o, e) => Sure(o, e)'
    BY <1>1 DEF Sure, SameCity, OnlyBearer, Bearers, PhoneAgrees, SharedTrades
  <2>5. pass'.item = k /\ Decided(k)' /\ Deciding(k)' = Deciding(k) /\ k \notin refused
    BY <1>1, <1>3, <1>6, <2>1 DEF Decided, Deciding, Pending, BindInvariant
  <2>6. Deciding(k)' # {} \/ k \in refused' => k \in crossed'
    BY <1>1, <1>3, <1>6, <2>1, <2>5
  <2> QED BY <2>2, <2>3, <2>4, <2>5, <2>6
<1>7. ASSUME NEW q \in Reviewer, review'[q] # Absent PROVE rows'[review'[q].pair] # Absent
  <2>1. PICK k : k = review[q].pair
    OBVIOUS
  <2>2. review[q] \in Decision
    BY <1>1, <1>5, <1>7 DEF MatchTypeOK
  <2>3. k \in Pair /\ rows[k] # Absent
    BY <1>1, <1>7, <2>1, <2>2 DEF BindInvariant, Decision
  <2> QED BY <1>1, <1>3, <2>1, <2>3
<1>8. \A p \in refused' : Decided(p)'
  BY <1>1, <1>4, <1>5 DEF BindInvariant
<1> QED BY <1>6, <1>7, <1>8 DEF BindInvariant

\* A row that is accepted is no longer there to be read as waiting.
LEMMA ReadPendingBinds ==
    ASSUME MatchInvariant, BindInvariant, NEW q \in Reviewer, NEW p \in Pair,
           NEW verdict \in {"accepted", "rejected"}, ReadPending(q, p, verdict)
    PROVE  BindInvariant'
<1>1. /\ UNCHANGED <<reg, known, rows, pass, refused, crossed>>
      /\ rows[p] # Absent /\ rows[p].status = "pending" /\ review[q] = Absent
  BY DEF ReadPending
<1>2. review \in [Reviewer -> Decision \cup {Absent}]
  BY DEF MatchInvariant, MatchTypeOK
<1>3. review'[q].pair = p /\ \A x \in Reviewer \ {q} : review'[x] = review[x]
  BY <1>2 DEF ReadPending
<1>4. \A k : Decided(k)' = Decided(k)
  BY <1>1 DEF Decided
<1>5. ASSUME pass'.pc = "bind"
      PROVE  /\ pass'.item \in Pair /\ Sure(pass.item[1], pass.item[2])' /\ Decided(pass.item)'
             /\ Deciding(pass.item)' # {} \/ pass'.item \in refused' => pass'.item \in crossed'
  <2>1. PICK k : k = pass.item
    OBVIOUS
  <2>2. /\ k \in Pair /\ Sure(k[1], k[2]) /\ Decided(k)
        /\ Deciding(k) # {} \/ k \in refused => k \in crossed
    BY <1>1, <1>5, <2>1 DEF BindInvariant
  <2>3. k # p
    BY <1>1, <2>2 DEF Decided
  <2>4. Deciding(k)' \subseteq Deciding(k)
    BY <1>1, <1>3, <2>3 DEF Deciding
  <2>5. PICK o, e : o = k[1] /\ e = k[2]
    OBVIOUS
  <2>6. Sure(o, e) => Sure(o, e)'
    BY <1>1 DEF Sure, SameCity, OnlyBearer, Bearers, PhoneAgrees, SharedTrades
  <2>7. pass' = pass
    BY <1>1
  <2>8. Decided(k)' /\ (Deciding(k)' # {} \/ k \in refused' => k \in crossed')
    BY <1>1, <1>4, <2>2, <2>4
  <2> QED BY <2>1, <2>2, <2>5, <2>6, <2>7, <2>8
<1>6. \A x \in Reviewer : review'[x] # Absent => rows'[review'[x].pair] # Absent
  BY <1>1, <1>3 DEF BindInvariant
<1>7. \A k \in refused' : Decided(k)'
  BY <1>1, <1>4 DEF BindInvariant
<1> QED BY <1>5, <1>6, <1>7 DEF BindInvariant

\* A refusal that reaches an accepted row was under way before.
LEMMA WriteVerdictBinds ==
    ASSUME MatchInvariant, BindInvariant, NEW q \in Reviewer, WriteVerdict(q) PROVE BindInvariant'
<1>1. UNCHANGED <<reg, known, pass, crossed>> /\ review' = [review EXCEPT ![q] = Absent] /\ review[q] # Absent
  BY DEF WriteVerdict
<1>2. MatchTypeOK /\ Absent \notin Observation
  BY RegistryMatchAssumption DEF MatchInvariant
<1>3. PICK d \in Decision : d = review[q]
  BY <1>1, <1>2 DEF MatchTypeOK
<1>4. PICK p \in Pair, verdict \in {"accepted", "rejected"} : p = d.pair /\ verdict = d.verdict
  BY DEF Decision
<1>5. rows[p] # Absent /\ q \in Deciding(p)
  BY <1>1, <1>3, <1>4 DEF BindInvariant, Deciding
<1>6. PICK v \in Observation : v = rows[p]
  BY <1>2, <1>5 DEF MatchTypeOK
<1>7. PICK w : w = [v EXCEPT !.status = verdict, !.by = "human"]
  OBVIOUS
<1>8. w \in Observation /\ w.status = verdict
  <2>1. w = [rule |-> v.rule, of |-> v.of, trust |-> v.trust,
             locality |-> v.locality, status |-> verdict, by |-> "human", pass |-> v.pass]
    BY <1>7 DEF Observation
  <2> QED BY <2>1 DEF Observation
<1>9. rows \in [Pair -> Observation \cup {Absent}] /\ rows' = [rows EXCEPT ![p] = w]
  <2>1. rows' = [rows EXCEPT ![p].status = verdict, ![p].by = "human"]
    BY <1>3, <1>4 DEF WriteVerdict
  <2> QED BY <1>2, <1>6, <1>7, <2>1 DEF MatchTypeOK
<1>10. rows'[p] = w /\ w # Absent /\ w.status # "pending" /\ \A k \in Pair : k # p => rows'[k] = rows[k]
  BY <1>2, <1>8, <1>9
<1>11. \A k \in Pair : Decided(k) => Decided(k)'
  BY <1>10 DEF Decided
<1>12. Decided(p)'
  BY <1>10 DEF Decided
<1>13. refused' \subseteq refused \cup {p} /\ refused \subseteq Pair
  BY <1>2, <1>3, <1>4 DEF WriteVerdict, MatchTypeOK
<1>14. review \in [Reviewer -> Decision \cup {Absent}]
  BY <1>2 DEF MatchTypeOK
<1>15. review'[q] = Absent /\ \A x \in Reviewer \ {q} : review'[x] = review[x]
  BY <1>1, <1>14
<1>16. \A k : Deciding(k)' \subseteq Deciding(k)
  BY <1>15 DEF Deciding
<1>17. ASSUME pass'.pc = "bind"
      PROVE  /\ pass'.item \in Pair /\ Sure(pass.item[1], pass.item[2])' /\ Decided(pass.item)'
             /\ Deciding(pass.item)' # {} \/ pass'.item \in refused' => pass'.item \in crossed'
  <2>1. PICK k : k = pass.item
    OBVIOUS
  <2>2. /\ k \in Pair /\ Sure(k[1], k[2]) /\ Decided(k)
        /\ Deciding(k) # {} \/ k \in refused => k \in crossed
    BY <1>1, <1>17, <2>1 DEF BindInvariant
  <2>3. k = p => k \in crossed
    BY <1>5, <2>2
  <2>4. Deciding(k)' # {} \/ k \in refused' => k \in crossed'
    BY <1>1, <1>13, <1>16, <2>2, <2>3
  <2>5. PICK o, e : o = k[1] /\ e = k[2]
    OBVIOUS
  <2>6. Sure(o, e) => Sure(o, e)'
    BY <1>1 DEF Sure, SameCity, OnlyBearer, Bearers, PhoneAgrees, SharedTrades
  <2>7. Decided(k)' /\ pass' = pass
    BY <1>1, <1>11, <2>2
  <2> QED BY <2>1, <2>2, <2>4, <2>5, <2>6, <2>7
<1>18. ASSUME NEW x \in Reviewer, review'[x] # Absent PROVE rows'[review'[x].pair] # Absent
  <2>1. x # q /\ review'[x] = review[x]
    BY <1>15, <1>18
  <2>2. PICK c \in Decision : c = review[x]
    BY <1>14, <1>18, <2>1
  <2>3. c.pair \in Pair /\ rows[c.pair] # Absent
    BY <1>18, <2>1, <2>2 DEF BindInvariant, Decision
  <2> QED BY <1>10, <2>1, <2>2, <2>3
<1>19. \A k \in refused' : Decided(k)'
  BY <1>11, <1>12, <1>13 DEF BindInvariant
<1> QED BY <1>17, <1>18, <1>19 DEF BindInvariant

\* A request binds or is lost.
LEMMA RequestBinds ==
    ASSUME MatchInvariant, BindInvariant, NEW q \in Reviewer, BindAccepted(q) \/ RequestDies(q)
    PROVE  BindInvariant'
<1>1. UNCHANGED <<reg, known, rows, pass, refused, crossed>> /\ review[q] # Absent
  BY DEF BindAccepted, RequestDies
<1>2. review \in [Reviewer -> Decision \cup {Absent}]
  BY DEF MatchInvariant, MatchTypeOK
<1>3. PICK d \in Decision : d = review[q]
  BY <1>1, <1>2
<1>4. CASE BindAccepted(q)
  <2>1. PICK c : c = [pair |-> d.pair, verdict |-> d.verdict, pc |-> "write"]
    OBVIOUS
  <2>2. [d EXCEPT !.pc = "write"] = c /\ c.pair = d.pair
    BY <2>1 DEF Decision
  <2>3. review' = [review EXCEPT ![q] = c]
    BY <1>2, <1>3, <1>4, <2>2 DEF BindAccepted
  <2>4. \A x \in Reviewer : review'[x] # Absent => review[x] # Absent /\ review'[x].pair = review[x].pair
    BY <1>1, <1>2, <1>3, <2>2, <2>3
  <2> QED BY <1>1, <2>4, StillBinds
<1>5. CASE RequestDies(q)
  <2>1. review' = [review EXCEPT ![q] = Absent]
    BY <1>5 DEF RequestDies
  <2>2. \A x \in Reviewer : review'[x] # Absent => review[x] # Absent /\ review'[x].pair = review[x].pair
    BY <1>2, <2>1
  <2> QED BY <1>1, <2>2, StillBinds
<1> QED BY <1>4, <1>5

\* The matching starts and stays in order.
THEOREM MatchInvariantHolds == MatchSpec => [](MatchInvariant /\ BindInvariant)
<1>1. MatchInvariant /\ BindInvariant /\ [MatchNext]_matchVars => MatchInvariant' /\ BindInvariant'
  <2> SUFFICES ASSUME MatchInvariant, BindInvariant, [MatchNext]_matchVars
               PROVE  MatchInvariant' /\ BindInvariant'
    OBVIOUS
  <2>1. CASE Begin
    BY <2>1, BeginMatches, PassBinds
  <2>2. CASE Persist
    BY <2>2, PersistMatches, PersistBinds
  <2>3. CASE ApplyBindingAccept
    BY <2>3, BindMatches, PassBinds
  <2>4. CASE PassEnds
    BY <2>4, PassEndsMatches, PassBinds
  <2>5. CASE PassDies
    BY <2>5, PassDiesMatches, PassBinds
  <2>6. ASSUME NEW q \in Reviewer, NEW p \in Pair, NEW verdict \in {"accepted", "rejected"},
               ReadPending(q, p, verdict)
        PROVE  MatchInvariant' /\ BindInvariant'
    BY <2>6, ReadPendingMatches, ReadPendingBinds
  <2>7. ASSUME NEW q \in Reviewer, BindAccepted(q) PROVE MatchInvariant' /\ BindInvariant'
    BY <2>7, BindAcceptedMatches, RequestBinds
  <2>8. ASSUME NEW q \in Reviewer, WriteVerdict(q) PROVE MatchInvariant' /\ BindInvariant'
    BY <2>8, WriteVerdictMatches, WriteVerdictBinds
  <2>9. ASSUME NEW q \in Reviewer, RequestDies(q) PROVE MatchInvariant' /\ BindInvariant'
    BY <2>9, RequestDiesMatches, RequestBinds
  <2>10. CASE \E e \in Entity : \E r \in Registrations[e] : Republish(e, r)
    BY <2>10, RepublishMatches, PassBinds
  <2>11. CASE \E o \in Org, f \in Evidences : Learn(o, f)
    BY <2>11, LearnMatches, PassBinds
  <2>12. CASE UNCHANGED matchVars
    BY <2>12, StutterMatches, PassBinds
  <2> QED BY <2>1, <2>2, <2>3, <2>4, <2>5, <2>6, <2>7, <2>8, <2>9, <2>10, <2>11, <2>12 DEF MatchNext
<1> QED BY <1>1, InitMatches, InitBinds, PTL DEF MatchSpec

\* When a pass is over, what was to come is there.
LEMMA ChoiceWhole == MatchInvariant => WholeChoice
<1> SUFFICES ASSUME MatchInvariant, pass.pc = "idle", NEW p \in Pair,
                    rows[p] # Absent, rows[p].rule = "ambiguous", rows[p].pass = passes,
                    rows[p].status = "pending"
             PROVE  Cardinality({q \in Pair : /\ q[1] = p[1] /\ rows[q] # Absent
                                              /\ rows[q].pass = passes \/ rows[q].status # "pending"})
                      >= Min({rows[p].of, Fanout})
  BY DEF WholeChoice
<1> DEFINE D == {q \in Pair : /\ q[1] = p[1] /\ rows[q] # Absent
                              /\ rows[q].pass = passes \/ rows[q].status # "pending"}
<1>1. Whole(p[1], rows[p].of) /\ pass.todo = {}
  BY DEF MatchInvariant, Offered, Between
<1>2. PICK C \in SUBSET Entity : /\ Cardinality(C) = Min({rows[p].of, Fanout})
                                 /\ \A e \in C : Settled(<<p[1], e>>)
  BY <1>1 DEF Whole, Coming
<1>3. PICK o \in Org : o = p[1]
  BY DEF Pair
<1>4. PICK d : d = D
  OBVIOUS
<1>5. \A e \in C : <<o, e>> \in d
  BY <1>2, <1>3, <1>4 DEF Settled, Pair
<1>6. IsFiniteSet(d)
  <2>1. IsFiniteSet(Pair)
    BY RegistryMatchAssumption, EntityFinite, FS_Product DEF Pair
  <2> QED BY <1>4, <2>1, FS_Subset
<1> DEFINE f == [e \in C |-> <<o, e>>]
<1>7. f \in [C -> d] /\ \A x, y \in C : f[x] = f[y] => x = y
  BY <1>5
<1>8. f \in Injection(C, d)
  BY <1>7 DEF Injection, IsInjective
<1> HIDE DEF f, D
<1>9. Cardinality(C) <= Cardinality(d)
  BY <1>6, <1>8, FS_Injection
<1>10. IsFiniteSet(C)
  BY EntityFinite, FS_Subset
<1>11. Cardinality(C) \in Nat /\ Cardinality(d) \in Nat
  BY <1>6, <1>10, FS_CardinalityType
<1> QED BY <1>2, <1>4, <1>9, <1>11 DEF D

\* The machine binds what its gate has found sure, and nobody turned down in time.
LEMMA SureSteps == BindInvariant /\ MatchTypeOK /\ [MatchNext]_matchVars => [SureStep]_matchVars
<1> SUFFICES ASSUME BindInvariant, MatchTypeOK, MatchNext, NEW o \in Org,
                    pass.pc = "bind", pass' # pass, bound'[o] # bound[o]
             PROVE  LET e == bound'[o]
                        others == Bearers(known[o].name) \ {e}
                    IN  /\ reg[e].name = known[o].name
                        /\ SameCity(o, e) /\ SharedTrades(o, e) # {}
                        /\ others # {} => PhoneAgrees(o, e) /\ \A x \in others : ~PhoneAgrees(o, x)
                        /\ <<o, e>> \in refused => <<o, e>> \in crossed
  BY DEF SureStep
<1>1. bound \in [Org -> Entity \cup {Absent}]
  BY DEF MatchTypeOK
<1>2. ApplyBindingAccept
  <2>1. ~Begin /\ ~Persist /\ ~PassEnds
    BY DEF Begin, Persist, PassEnds, Between
  <2>2. ~PassDies
    BY DEF PassDies
  <2>3. \A q \in Reviewer :
          /\ \A p \in Pair, verdict \in {"accepted", "rejected"} : ~ReadPending(q, p, verdict)
          /\ ~BindAccepted(q) /\ ~WriteVerdict(q) /\ ~RequestDies(q)
    BY DEF ReadPending, BindAccepted, WriteVerdict, RequestDies
  <2>4. /\ \A e \in Entity : \A r \in Registrations[e] : ~Republish(e, r)
        /\ \A x \in Org, f \in Evidences : ~Learn(x, f)
    BY DEF Republish, Learn
  <2> QED BY <2>1, <2>2, <2>3, <2>4 DEF MatchNext
<1>3. PICK k \in Pair : k = pass.item
  BY DEF BindInvariant
<1>4. k[1] \in Org /\ k = <<k[1], k[2]>> /\ Bind(k[1], k[2])
  BY <1>2, <1>3 DEF Pair, ApplyBindingAccept
<1>5. o = k[1] /\ bound'[o] = k[2]
  BY <1>1, <1>4 DEF Bind
<1>6. Sure(o, bound'[o]) /\ (<<o, bound'[o]>> \in refused => <<o, bound'[o]>> \in crossed)
  BY <1>3, <1>4, <1>5 DEF BindInvariant
<1> QED BY <1>6 DEF Sure, OnlyBearer

\* A choice is offered whole.
THEOREM ChoicesStayWhole == MatchSpec => []ChoicesWhole
<1>1. MatchInvariant => ChoicesWhole
  BY ChoiceWhole DEF MatchInvariant, ChoicesWhole
<1> QED BY <1>1, MatchInvariantHolds, PTL

\* The machine binds only whom it can be, and a person turned down only across that
\* person's own request.
THEOREM BindsStaySure == MatchSpec => SureBinds
<1>1. MatchInvariant => MatchTypeOK
  BY DEF MatchInvariant
<1> QED BY <1>1, SureSteps, MatchInvariantHolds, PTL DEF MatchSpec, SureBinds
================================================================================
