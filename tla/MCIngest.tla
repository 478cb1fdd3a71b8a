-------------------------------- MODULE MCIngest --------------------------------
(* A source and its records, in three parts that share no table the properties are   *)
(* about: what its runs and replays write, what its runs ask the publisher for, and  *)
(* the projects the resolver gives the records.  "side" says which part a behaviour  *)
(* is of; the others stand still.                                                    *)
EXTENDS MCSourceRun, Feeds, Resolution

CONSTANTS a, b, w1, w2, rx, ry, rz, county, city, n1, n2, parcel, owner

VARIABLE side

ingestVars == <<vars, side, feedVars, resolutionVars>>

MCOrder == [i \in Item |-> IF i = a THEN 1 ELSE 2]

--------------------------------------------------------------------------------
(* Two jurisdictions.  rx, in the city, has a parcel of rz, in the county; ry has the *)
(* number of the permit of rx and nothing else.                                      *)

CityCounty == [r \in Record |-> IF r = rz THEN county ELSE city]
Numbers    == [r \in Record |-> IF r = rz THEN n1 ELSE n2]
OnParcel   == [r \in Record |-> IF r = ry THEN {} ELSE {parcel}]
Stages     == [r \in Record |-> IF r = rz THEN <<1, 2>> ELSE IF r = rx THEN <<2>> ELSE <<0>>]
NoRefs     == [r \in Record |-> {}]
Nowhere    == [r \in Record |-> Null]
Owned      == [r \in Record |-> {owner}]

--------------------------------------------------------------------------------
IngestInit ==
    /\ side \in {"run", "feed", "resolution"}
    /\ Init /\ FeedInit /\ ResolutionInit
    /\ side # "feed" => feed = "board"

\* A bound: a second run of a feed is at work only where nothing has failed.
FeedBound == feedFaults' = 0 \/ job'[w2].pc = "idle"

\* A bound: a fault beside a person's decision strikes who carries it out.
DecisionFault ==
    /\ verdicts' # verdicts => faults = 0
    /\ faults' # faults /\ verdicts > 0 =>
         \E q \in {"reviewer", "operator"} : work[q] # work'[q]

RunSide  == side = "run" /\ Next /\ UNCHANGED <<side, feedVars, resolutionVars>>
FeedSide == side = "feed" /\ FeedNext /\ FeedBound /\ UNCHANGED <<vars, side, resolutionVars>>
ResolutionSide ==
    side = "resolution" /\ ResolutionNext /\ DecisionFault /\ UNCHANGED <<vars, side, feedVars>>

IngestNext == RunSide \/ FeedSide \/ ResolutionSide

\* The fairness of the feed's runs where they are at work; nothing is promised of
\* the part that only writes.
IngestSpec ==
    /\ IngestInit /\ [][IngestNext]_ingestVars
    /\ WF_feedVars(side = "feed" /\ (\E w \in {w1, w2} : Work(w)) /\ FeedBound)
================================================================================
