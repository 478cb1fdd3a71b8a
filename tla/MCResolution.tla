------------------------------ MODULE MCResolution ------------------------------
(* Small worlds of three records.  z opens a project; x, another permit, needs a *)
(* person to be told apart from it; y carries x's permit number.                 *)
EXTENDS Resolution

CONSTANTS x, y, z, county, city, n1, n2, street, place, parcel, owner

Nothing == [r \in Record |-> {}]
Nowhere == [r \in Record |-> Null]

MCNumber == [r \in Record |-> IF r = z THEN n1 ELSE n2]
MCTwice  == [r \in Record |-> IF r = z THEN <<1, 2>> ELSE IF r = x THEN <<2>> ELSE <<0>>]

\* One jurisdiction.  x has z's address under another name; y stands beside z and
\* names the same owner.
OneCounty == [r \in Record |-> county]
AtStreet  == [r \in Record |-> IF r = y THEN Null ELSE street]
AtPlace   == [r \in Record |-> IF r = x THEN Null ELSE place]
ByOwner   == [r \in Record |-> IF r = x THEN {} ELSE {owner}]

\* One jurisdiction; y cites z's number.
Cites == [r \in Record |-> IF r = y THEN {n1} ELSE {}]
================================================================================
