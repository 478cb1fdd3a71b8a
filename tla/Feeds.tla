--------------------------------- MODULE Feeds ---------------------------------
(***************************************************************************)
(* What a run of a source asks the publisher for, and what the next run     *)
(* takes for done.  Three kinds of adapter keep a checkpoint in             *)
(* source_runs: "reports" are dated files on an index page, fetched from a  *)
(* high-water mark less an overlap; "rows" are the pages of a query over    *)
(* the same window; the "board" remembers for each posting the closing date *)
(* it has parsed, and takes a capped number of the others.                  *)
(*                                                                          *)
(* The runs may overlap, fail and die.  The work on one fetched item is one *)
(* step here: SourceRun is about what may happen inside it.                 *)
(***************************************************************************)
EXTENDS Integers, Sequences, FiniteSets, FiniteSetsExt, Functions

CONSTANTS
    Item,          \* reports, rows or postings
    Order,         \* [Item -> Nat], their place on the page among those of a date
    Worker,        \* processes that run the source
    Kinds,         \* which kinds of feed to look at
    MaxDate, MaxRevision, MaxChange, MaxFeedFault,  \* bounds
    Overlap,       \* dates below the mark a run asks for again
    Lag,           \* how far below the newest date the publisher still writes
    PageSize, Cap, \* rows of a page; postings of a run
    Unset

Versions   == 0..MaxRevision
Checkpoint == [mark : 0..MaxDate, seen : [Item -> Versions]]

ASSUME FeedsAssumption ==
    /\ IsFiniteSet(Item)
    /\ Kinds \subseteq {"reports", "rows", "board"}
    /\ MaxDate \in Nat /\ MaxRevision \in Nat \ {0} /\ MaxChange \in Nat /\ MaxFeedFault \in Nat
    /\ Lag \in Nat /\ Overlap \in Nat /\ Lag <= Overlap
    /\ PageSize \in Nat \ {0} /\ Cap \in Nat \ {0}
    /\ Order \in [Item -> Nat] /\ IsInjective(Order)
    /\ Unset \notin Checkpoint

VARIABLES
    feed,        \* the kind of this source
    listing,     \* what the publisher shows; version 0 is nothing yet
    stored,      \* the version of each item the database holds
    artifacts,   \* raw_artifacts, as [url, body]
    checkpoint,  \* checkpoint of the run begun last among the completed ones
    job,         \* what each process is doing
    letters,     \* dead letters of the ledger, as <<item, version>>
    feedFaults

feedVars == <<feed, listing, stored, artifacts, checkpoint, job, letters, feedFaults>>

IdleWorker == [pc |-> "idle", from |-> Unset, todo |-> <<>>, next |-> Unset,
         missed |-> {}, older |-> {}, stale |-> FALSE]

\* What a run fetches: an item, or a page of the query.
Page  == [floor : 0..MaxDate, page : Nat \ {0}]
Entry == [url : Item \cup Page, closing : Versions]

\* A run in progress knows which others began before it, and whether one that began
\* after it has completed.
Job == [pc : {"idle", "open", "discover", "items"},
        from : Checkpoint \cup {Unset}, todo : Seq(Entry), next : Checkpoint \cup {Unset},
        missed : SUBSET (Item \X Versions), older : SUBSET Worker, stale : BOOLEAN]

Published  == {i \in Item : listing[i].version > 0}
NewestDate == Max({0} \cup {listing[i].date : i \in Published})

FeedTypeOK ==
    /\ feed \in Kinds
    /\ listing \in [Item -> [date : 0..MaxDate, version : Versions]]
    /\ stored \in [Item -> Versions]
    /\ \A a \in artifacts : a.body \subseteq Item \X Versions
    /\ checkpoint \in Checkpoint \cup {Unset}
    /\ job \in [Worker -> Job]
    /\ letters \subseteq Item \X Versions
    /\ feedFaults \in 0..MaxFeedFault

FeedInit ==
    /\ feed \in Kinds
    /\ listing = [i \in Item |-> [date |-> 0, version |-> 0]]
    /\ stored = [i \in Item |-> 0]
    /\ artifacts = {} /\ checkpoint = Unset
    /\ job = [w \in Worker |-> IdleWorker]
    /\ letters = {} /\ feedFaults = 0

--------------------------------------------------------------------------------
(* The windows.                                                             *)

\* mutant: the window begins at the mark itself
SharpFloor(cp) == IF cp = Unset THEN 0 ELSE cp.mark

\* Without a checkpoint the default window, which reaches back past everything here.
Floor(cp) == IF cp = Unset THEN 0 ELSE Max({0, cp.mark - Overlap})

Seen(cp) == IF cp = Unset THEN [i \in Item |-> 0] ELSE cp.seen

\* What a run that starts from this checkpoint would ask for.
Due(cp, i) ==
    /\ listing[i].version > 0
    /\ IF feed = "board" THEN Seen(cp)[i] # listing[i].version ELSE listing[i].date >= Floor(cp)

\* Rows come by date, entries of an index and of the board as they stand on the page.
Before(i, j) ==
    \/ feed = "rows" /\ listing[i].date < listing[j].date
    \/ (feed = "rows" => listing[i].date = listing[j].date) /\ Order[i] < Order[j]

\* Which of S an item is, as they are listed.
Place(i, S) == Cardinality({j \in S : Before(j, i)}) + 1

Wanted(cp) == {i \in Item : Due(cp, i)}

\* mutant: the offset of the last row taken for the number of pages
LastOffset(count) == Max({1, (count - 1) \div PageSize})

Pages(count) == Max({1, (count + PageSize - 1) \div PageSize})

\* The first n of the wanted items, as they are listed.
Entries(cp, n) ==
    LET at(k) == CHOOSE i \in Wanted(cp) : Place(i, Wanted(cp)) = k
    IN  [k \in 1..n |-> [url |-> at(k), closing |-> listing[at(k)].version]]

Discovered(cp) ==
    LET count == Cardinality(Wanted(cp))
    IN  CASE feed = "reports" -> Entries(cp, count)
          [] feed = "board"   -> Entries(cp, Min({Cap, count}))
          [] feed = "rows"    -> [k \in 1..Pages(count) |->
                                    [url |-> [floor |-> Floor(cp), page |-> k], closing |-> 0]]

\* The items behind a URL when it is fetched.
InWindow(floor) == {i \in Published : listing[i].date >= floor}
Behind(url) ==
    IF feed # "rows" THEN {url}
    ELSE {i \in InWindow(url.floor) :
            Place(i, InWindow(url.floor)) \in ((url.page - 1) * PageSize + 1)..(url.page * PageSize)}

Body(url) == {<<i, listing[i].version>> : i \in Behind(url)}

\* The checkpoint a run sets when discover() has read the index ...
NextAtDiscovery(cp) ==
    IF feed = "reports" /\ Published # {} THEN [mark |-> NewestDate, seen |-> Seen(cp)] ELSE Unset

\* A run that has set no checkpoint carries the one it started from.
Held(j) == IF j.next # Unset THEN j.next ELSE j.from

\* ... and after the parse of an item.
NextAfterParse(j) ==
    LET mark == IF Held(j) = Unset THEN 0 ELSE Held(j).mark
        entry == Head(j.todo)
    IN  CASE feed = "reports" -> j.next
          [] feed = "rows"    ->
                 LET dates == {listing[i].date : i \in Behind(entry.url)} \cup {mark}
                 IN  IF Held(j) = Unset /\ Behind(entry.url) = {} THEN j.next
                     ELSE [mark |-> Max(dates), seen |-> Seen(Unset)]
          [] feed = "board"   ->
                 [mark |-> 0, seen |-> [Seen(Held(j)) EXCEPT ![entry.url] = entry.closing]]

--------------------------------------------------------------------------------
(* The publisher.                                                           *)

Changes == MapThenSumSet(LAMBDA i : listing[i].version, Item)

\* Something is published or amended, at most Lag below the newest date.  A row keeps
\* the date it has, a report may be dated anew.  Two assumptions: no new date comes up
\* while a run turns the pages of a query, and nothing is withdrawn.
Change(i, d) ==
    /\ listing[i].version < MaxRevision /\ Changes < MaxChange
    /\ d >= NewestDate - Lag
    /\ listing[i].version > 0 => d >= listing[i].date
    /\ listing[i].version > 0 /\ feed = "rows" => d = listing[i].date
    /\ feed = "board" => d = 0
    /\ feed = "rows" /\ (\E w \in Worker : job[w].pc = "items") => d <= NewestDate
    /\ listing' = [listing EXCEPT ![i] = [date |-> d, version |-> @.version + 1]]
    /\ UNCHANGED <<feed, stored, artifacts, checkpoint, job, letters, feedFaults>>

--------------------------------------------------------------------------------
(* runSource.                                                               *)

Set(w, new) == job' = [job EXCEPT ![w] = new]

\* The checkpoint is read ...
Load(w) ==
    /\ job[w].pc = "idle"
    /\ Set(w, [job[w] EXCEPT !.pc = "open", !.from = checkpoint])
    /\ UNCHANGED <<feed, listing, stored, artifacts, checkpoint, letters, feedFaults>>

\* ... and the run's row inserted after it.
Open(w) ==
    /\ job[w].pc = "open"
    /\ Set(w, [job[w] EXCEPT !.pc = "discover",
                             !.older = {x \in Worker : job[x].pc \in {"discover", "items"}}])
    /\ UNCHANGED <<feed, listing, stored, artifacts, checkpoint, letters, feedFaults>>

DiscoverFeed(w) ==
    /\ job[w].pc = "discover"
    /\ feed = "board" => Published # {}
    /\ Set(w, [job[w] EXCEPT !.pc = "items", !.todo = Discovered(job[w].from),
                             !.next = NextAtDiscovery(job[w].from)])
    /\ UNCHANGED <<feed, listing, stored, artifacts, checkpoint, letters, feedFaults>>

\* The item is done with; some of it may be dead-lettered.
Settle(w, missed, next) ==
    Set(w, [job[w] EXCEPT !.todo = Tail(@), !.missed = @ \cup missed, !.next = next])

Keep(body) == stored' = [i \in Item |->
    IF \E v \in Versions : <<i, v>> \in body THEN CHOOSE v \in Versions : <<i, v>> \in body
    ELSE stored[i]]

\* The body is new: artifact row, parse, records; or it is not, and nothing is parsed.
FetchEntry(w) ==
    /\ job[w].pc = "items" /\ job[w].todo # <<>>
    /\ LET url  == Head(job[w].todo).url
           body == Body(url)
           row  == [url |-> url, body |-> body]
       IN  IF row \in artifacts
             THEN Settle(w, {}, job[w].next) /\ UNCHANGED <<stored, artifacts>>
             ELSE /\ artifacts' = artifacts \cup {row}
                  /\ Keep(body)
                  /\ Settle(w, {}, NextAfterParse(job[w]))
    /\ UNCHANGED <<feed, listing, checkpoint, letters, feedFaults>>

FeedFault == feedFaults < MaxFeedFault /\ feedFaults' = feedFaults + 1

\* The item throws: in fetch(), in parse() with the artifact stored, or on a record.
EntryThrows(w) ==
    /\ FeedFault
    /\ job[w].pc = "items" /\ job[w].todo # <<>>
    /\ LET url  == Head(job[w].todo).url
           body == Body(url)
           row  == [url |-> url, body |-> body]
       IN  \/ Settle(w, body, job[w].next) /\ UNCHANGED artifacts
           \/ /\ row \notin artifacts
              /\ artifacts' = artifacts \cup {row}
              /\ Settle(w, body, job[w].next) \/ Settle(w, body, NextAfterParse(job[w]))
    /\ UNCHANGED <<feed, listing, stored, checkpoint, letters>>

\* The run is over; those of behind began before one that has completed.
End(w, behind) ==
    job' = [x \in Worker |->
              IF x = w THEN IdleWorker
              ELSE [job[x] EXCEPT !.older = @ \ {w}, !.stale = @ \/ x \in behind]]

\* The terminal write.  The next run takes the checkpoint of the completed run that
\* BEGAN last.
Close(w) ==
    /\ job[w].pc = "items" /\ job[w].todo = <<>>
    /\ IF Held(job[w]) = Unset \/ job[w].stale
         THEN checkpoint' = checkpoint /\ End(w, {})
         ELSE checkpoint' = Held(job[w]) /\ End(w, job[w].older)
    /\ letters' = letters \cup job[w].missed
    /\ UNCHANGED <<feed, listing, stored, artifacts, feedFaults>>

\* discover() or the terminal write throws: 'failed', with its dead letters and
\* without a checkpoint.
Fail(w) ==
    /\ FeedFault
    /\ job[w].pc = "discover" \/ (job[w].pc = "items" /\ job[w].todo = <<>>)
    /\ letters' = letters \cup job[w].missed
    /\ End(w, {})
    /\ UNCHANGED <<feed, listing, stored, artifacts, checkpoint>>

\* The process dies between two items.
Die(w) ==
    /\ FeedFault
    /\ job[w].pc # "idle"
    /\ End(w, {})
    /\ UNCHANGED <<feed, listing, stored, artifacts, checkpoint, letters>>

Work(w) == Load(w) \/ Open(w) \/ DiscoverFeed(w) \/ FetchEntry(w) \/ Close(w)

FeedNext ==
    \/ \E i \in Item, d \in 0..MaxDate : Change(i, d)
    \/ \E w \in Worker : Work(w) \/ EntryThrows(w) \/ Fail(w) \/ Die(w)

FeedSpec == FeedInit /\ [][FeedNext]_feedVars

--------------------------------------------------------------------------------
(* Properties.                                                              *)

\* What the database lacks of item i is accounted for: its bytes are kept for a
\* replay, or the ledger holds a dead letter for it.
Settled(i) ==
    LET current == <<i, listing[i].version>>
    IN  \/ stored[i] = listing[i].version
        \/ \E a \in artifacts : current \in a.body
        \/ current \in letters

\* Nothing falls out of the window: what was published or amended and is not in the
\* database is what the next run asks for, whichever of two overlapping runs wrote
\* the checkpoint, unless it is accounted for (source-sdk/runner.ts:81-97, 411-413;
\* types.ts: "a failed run re-covers the same window").
NothingSkipped ==
    /\ FeedTypeOK
    /\ \A i \in Published : Settled(i) \/ Due(checkpoint, i)

\* The database catches up with a dated index and with a paged query, through
\* overlapping, failing and dying runs.
FeedCatchesUp == feed # "board" => \A i \in Item : []<>Settled(i)
================================================================================
