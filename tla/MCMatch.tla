-------------------------------- MODULE MCMatch --------------------------------
(* Two entities that may bear one name, an organization whose permits tell more from *)
(* one night to the next.                                                            *)
EXTENDS RegistryMatch

CONSTANTS o1, acme, other, olympia, thurston, roof

Row(name) ==
    [name |-> name, aliases |-> {}, phone |-> Absent, google |-> Absent, confirmed |-> FALSE,
     addresses |-> {}, domain |-> Absent, city |-> olympia, county |-> thurston, trades |-> {roof},
     records |-> 3, strong |-> 1, weak |-> 0, crossed |-> FALSE]

MCRegistrations == [e \in Entity |-> {Row(acme), Row(other)}]

MCEvidences ==
    {[name |-> acme, phones |-> {}, addresses |-> {}, domains |-> {}, aliases |-> {},
      cities |-> cities, counties |-> {thurston}, trades |-> {roof}, role |-> 100, records |-> 3] :
        cities \in SUBSET {olympia}}

MCIncludes == {<<olympia, olympia>>}

MCAlike == [n \in Name \X Name |-> IF n[1] = n[2] THEN 100 ELSE 0]
================================================================================
