-------------------------------- MODULE MCInbox --------------------------------
(* What is put before people, in two parts side by side: the digest of the week, the   *)
(* entities an organization may be.  They share no table: "side" says which part a     *)
(* behaviour is of.                                                                    *)
EXTENDS MCDelivery, RegistryMatch

CONSTANTS o1, acme, dba, solo, near, john, town, t1, t2, d1, a1, olympia, west, tacoma, thurston,
          roof, r1

VARIABLE side

inboxVars == <<vars, side, matchVars>>

--------------------------------------------------------------------------------
(* Three entities that may bear one name, share a telephone or an address, and an    *)
(* organization of which the permits know one name or another.                       *)

Row(name, phone, place) ==
    [name |-> name, aliases |-> {}, phone |-> phone, google |-> Absent, confirmed |-> FALSE,
     addresses |-> {a1}, domain |-> Absent, city |-> place, county |-> thurston, trades |-> {roof},
     records |-> 1, strong |-> 1, weak |-> 0, crossed |-> FALSE]

MCRegistrations == [e \in 1..3 |->
    CASE e = 1 -> {Row(acme, t1, olympia),
                   [Row(near, Absent, tacoma) EXCEPT !.aliases = {acme}, !.addresses = {}],
                   [Row(solo, t1, olympia) EXCEPT !.google = t2]}
      [] e = 2 -> {Row(acme, t2, tacoma),
                   [Row(near, Absent, olympia) EXCEPT !.domain = d1, !.records = 3, !.addresses = {}]}
      [] e = 3 -> {[Row(acme, Absent, olympia) EXCEPT !.addresses = {}],
                   [Row(solo, t2, tacoma) EXCEPT !.aliases = {dba}, !.county = Absent]}]

Permits(name, phones, cities) ==
    [name |-> name, phones |-> phones, addresses |-> {}, domains |-> {}, aliases |-> {},
     cities |-> cities, counties |-> {thurston}, trades |-> {roof}, role |-> 100, records |-> 2]
Thin(f) == [f EXCEPT !.role = 60, !.records = 1]

MCEvidences ==
    {Permits(acme, {}, {}), Permits(acme, {t1}, {west}), Thin(Permits(acme, {}, {tacoma})),
     Thin(Permits(near, {t2}, {olympia})),
     [Permits(solo, {t1}, {olympia}) EXCEPT !.aliases = {dba}],
     [Permits(john, {t2}, {tacoma}) EXCEPT !.addresses = {a1}, !.domains = {d1}, !.aliases = {dba}],
     [Permits(town, {t2}, {tacoma}) EXCEPT !.addresses = {a1}, !.domains = {d1}]}

MCAlike == [n \in Name \X Name |->
    CASE n[1] = n[2] -> 100
      [] {n[1], n[2]} = {acme, near} -> 75
      [] {n[1], n[2]} = {town, acme} -> 60
      [] {n[1], n[2]} = {town, near} -> 40
      [] {n[1], n[2]} = {town, solo} -> 35
      [] john \in {n[1], n[2]} -> 40
      [] OTHER -> 0]

MCWithin == {<<town, dba>>}

\* "West Olympia" contains "Olympia".
MCIncludes == {<<olympia, olympia>>, <<west, west>>, <<tacoma, tacoma>>, <<west, olympia>>}

--------------------------------------------------------------------------------
\* The part that stands still starts anywhere it may: one place is enough.  The permits
\* first know the organization by the name three entities may bear.
InboxInit ==
    /\ side \in {"digest", "match"}
    /\ Init /\ MatchInit
    /\ side = "digest" => /\ reg = [e \in 1..3 |-> CHOOSE r \in MCRegistrations[e] : TRUE]
                          /\ known = [o \in {o1} |-> CHOOSE f \in MCEvidences : TRUE]
    /\ side = "match" => known[o1].name = acme

DigestSide == side = "digest" /\ Next /\ UNCHANGED <<side, matchVars>>
MatchSide  == side = "match" /\ MatchNext /\ UNCHANGED <<vars, side>>

InboxNext == DigestSide \/ MatchSide

InboxSpec == InboxInit /\ [][InboxNext]_inboxVars

================================================================================
