-------------------------------- MODULE MCNight --------------------------------
(* Parts of the nightly chain, side by side: the passes of the resolver, the        *)
(* exchange with the registry.  They meet in no table the properties are about, so  *)
(* a behaviour is one of one part: "side" says of which.                            *)
EXTENDS MCResolution, Registry

CONSTANTS o1, e1, chain, q1, q2

VARIABLE side

nightVars == <<resolutionVars, side, registryVars>>

\* One organization, whose permits carry the UBI of e1 or none; a pass finds e1 for
\* it, by the strict gate or not.
MCOffers    == [o \in {o1} |-> {{<<e1, TRUE>>}, {<<e1, FALSE>>}}]
MCFiled     == [o \in {o1} |-> {e1, None}]
MCHistories == {{}, {"alias_export"}}

NightInit ==
    /\ side \in {"resolution", "exchange"}
    /\ ResolutionInit /\ RegistryInit
    /\ side # "exchange" => \A o \in Org : org[o].ubi = None

ResolutionSide == side = "resolution" /\ ResolutionNext /\ UNCHANGED <<side, registryVars>>

\* A bound: a second person decides only where the sources stand still and nothing
\* has died; where they moved and something died, one decision is made in all.
ExchangeSide   ==
    /\ side = "exchange" /\ RegistryNext /\ UNCHANGED <<resolutionVars, side>>
    /\ (evidence' = 1 /\ breaks' = 0) \/ review'[q2] = IdleReview
    /\ evidence' + breaks' + decided' < 5

NightNext == ResolutionSide \/ ExchangeSide

\* The fairness of each part where it is at work.
NightSpec ==
    /\ NightInit /\ [][NightNext]_nightVars
    /\ WF_resolutionVars(side = "resolution" /\ ChainStep)
    /\ WF_resolutionVars(side = "resolution" /\ ReviewerStep)
    /\ WF_resolutionVars(side = "resolution" /\ OperatorStep)
    /\ WF_registryVars(side = "exchange" /\ Night)
================================================================================
