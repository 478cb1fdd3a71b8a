-------------------------------- MODULE Takeoff --------------------------------
(***************************************************************************)
(* The takeoff sheet of a pursuit (intelligence/takeoff.ts): lines derived  *)
(* from the permits' text and lines of the estimator, who edits, adds and    *)
(* deletes while another request derives the sheet again.  A derivation      *)
(* deletes and inserts line by line, without a transaction.                  *)
(***************************************************************************)
EXTENDS Integers, Sequences, FiniteSets

CONSTANTS
    Deriver,      \* requests that create the sheet or derive it again
    Readings,     \* what the evidence text may state, as sets of triggers
    Added,        \* assemblies the estimator adds lines of
    MaxLine, MaxDerivation, MaxHalt    \* bounds

Trigger  == {"area", "level5", "rated", "ceiling", "feet", "valuation"}
Assembly == {"hang_finish", "paint_walls", "level5_skim", "fire_rated_assembly", "act_grid",
             "metal_stud_framing", "scope_allowance"}

ASSUME TakeoffAssumption ==
    /\ Readings \subseteq SUBSET Trigger /\ Added \subseteq Assembly
    /\ MaxLine \in Nat /\ MaxDerivation \in Nat /\ MaxHalt \in Nat

VARIABLES
    sheet,       \* "none", "draft" or "final"
    lines,       \* takeoff_lines by id; a deleted one keeps its place
    deriving,    \* what each request is doing
    derivation,  \* derivations begun, each with what it read
    mixed,       \* two derivations were at work at once, or one died half way
    halts

takeoffVars == <<sheet, lines, deriving, derivation, mixed, halts>>

Line == [assembly : Assembly, quantity : {"stated", "zero", "priced", "estimator"},
         source : {"derived", "manual"}, gone : BOOLEAN,
         of : 0..MaxDerivation]

\* A line the text suggests, and a derivation at work.
Suggestion == [assembly : Assembly, quantity : {"stated", "zero", "priced"}]
Derivation == [pc : {"idle", "create", "delete", "insert"}, todo : Seq(Suggestion),
               of : 0..MaxDerivation]

AtRest == [pc |-> "idle", todo |-> <<>>, of |-> 0]

TakeoffTypeOK ==
    /\ sheet \in {"none", "draft", "final"}
    /\ lines \in Seq(Line) /\ Len(lines) <= MaxLine
    /\ deriving \in [Deriver -> Derivation]
    /\ derivation \in Seq(Readings) /\ Len(derivation) <= MaxDerivation
    /\ mixed \in BOOLEAN /\ halts \in 0..MaxHalt

TakeoffInit ==
    /\ sheet = "none" /\ lines = <<>>
    /\ deriving = [r \in Deriver |-> AtRest]
    /\ derivation = <<>> /\ mixed = FALSE /\ halts = 0

--------------------------------------------------------------------------------
(* deriveLines.                                                             *)

\* Some lines when the text states the trigger.
If(stated, found) == IF stated THEN found ELSE <<>>
Suggest(a, q) == <<[assembly |-> a, quantity |-> q]>>

\* A quantity nobody stated is zero, to be set from the job walk.
Measured(text) ==
    If("area" \in text, Suggest("hang_finish", "stated") \o Suggest("paint_walls", "stated"))
    \o If("level5" \in text, Suggest("level5_skim", IF "area" \in text THEN "stated" ELSE "zero"))
    \o If("rated" \in text, Suggest("fire_rated_assembly", "zero"))
    \o If("ceiling" \in text, Suggest("act_grid", "zero"))
    \o If("feet" \in text, Suggest("metal_stud_framing", "stated"))

\* Nothing but a valuation: one allowance for the scope.
DeriveLines(text) ==
    IF Measured(text) # <<>> THEN Measured(text)
    ELSE If("valuation" \in text, Suggest("scope_allowance", "priced"))

--------------------------------------------------------------------------------
(* The estimator's edits: single statements.                                *)

Live == {i \in 1..Len(lines) : ~lines[i].gone}

AddManualLine(a) ==
    /\ sheet # "none" /\ Len(lines) < MaxLine
    /\ lines' = Append(lines, [assembly |-> a, quantity |-> "estimator", source |-> "manual",
                               gone |-> FALSE, of |-> 0])
    /\ UNCHANGED <<sheet, deriving, derivation, mixed, halts>>

\* Any edit makes the line the estimator's.
UpdateLine(i) ==
    /\ i \in Live
    /\ lines' = [lines EXCEPT ![i].source = "manual", ![i].quantity = "estimator"]
    /\ UNCHANGED <<sheet, deriving, derivation, mixed, halts>>

DeleteLine(i) ==
    /\ i \in Live
    /\ lines' = [lines EXCEPT ![i].gone = TRUE]
    /\ UNCHANGED <<sheet, deriving, derivation, mixed, halts>>

\* updateSheetMeta; neither edits nor a derivation that has begun ask again.
SetStatus ==
    /\ sheet # "none"
    /\ sheet' \in {"draft", "final"} \ {sheet}
    /\ UNCHANGED <<lines, deriving, derivation, mixed, halts>>

--------------------------------------------------------------------------------
(* getOrCreateTakeoffSheet and rederiveSheet.                               *)

Deriving == {r \in Deriver : deriving[r] # AtRest}

\* The row is read, then the text of the project's records, which may have changed
\* since the last time; the lines it yields are kept by the request.  One step stands for
\* both reads: the text may be any, whatever else has happened, and the row is not read
\* again, so that nothing that comes between them makes a difference.
Begin(r, pc) ==
    /\ deriving[r] = AtRest
    /\ Len(derivation) < MaxDerivation
    /\ \E text \in Readings :
          /\ derivation' = Append(derivation, text)
          /\ deriving' = [deriving EXCEPT ![r] = [pc |-> pc, todo |-> DeriveLines(text),
                                                  of |-> Len(derivation) + 1]]
    /\ mixed' = (mixed \/ Deriving # {})
    /\ UNCHANGED <<sheet, lines, halts>>

OpenSheet(r) == sheet = "none" /\ Begin(r, "create")
Rederive(r)  == sheet = "draft" /\ Begin(r, "delete")

\* ON CONFLICT (pursuit_id) DO NOTHING: the loser reads the winner's sheet.
CreateSheet(r) ==
    /\ deriving[r].pc = "create"
    /\ IF sheet = "none"
         THEN sheet' = "draft" /\ deriving' = [deriving EXCEPT ![r].pc = "insert"]
         ELSE deriving' = [deriving EXCEPT ![r] = AtRest] /\ UNCHANGED sheet
    /\ UNCHANGED <<lines, derivation, mixed, halts>>

\* mutant: the delete takes every line of the sheet
OfAnySource(l) == TRUE

Replaceable(l) == l.source = "derived"

DeleteDerived(r) ==
    /\ deriving[r].pc = "delete"
    /\ lines' = [i \in 1..Len(lines) |-> [lines[i] EXCEPT !.gone = @ \/ Replaceable(lines[i])]]
    /\ deriving' = [deriving EXCEPT ![r].pc = "insert"]
    /\ UNCHANGED <<sheet, derivation, mixed, halts>>

\* insertDerivedLines, one statement a line, behind the highest sort of the sheet.
InsertDerived(r) ==
    /\ deriving[r].pc = "insert" /\ deriving[r].todo # <<>> /\ Len(lines) < MaxLine
    /\ LET l == Head(deriving[r].todo)
       IN  lines' = Append(lines, [assembly |-> l.assembly, quantity |-> l.quantity,
                                   source |-> "derived", gone |-> FALSE,
                                   of |-> deriving[r].of])
    /\ deriving' = [deriving EXCEPT ![r].todo = Tail(@)]
    /\ UNCHANGED <<sheet, derivation, mixed, halts>>

DerivationEnds(r) ==
    /\ deriving[r].pc = "insert" /\ deriving[r].todo = <<>>
    /\ deriving' = [deriving EXCEPT ![r] = AtRest]
    /\ UNCHANGED <<sheet, lines, derivation, mixed, halts>>

DeriverDies(r) ==
    /\ halts < MaxHalt
    /\ halts' = halts + 1
    /\ deriving[r] # AtRest
    /\ deriving' = [deriving EXCEPT ![r] = AtRest]
    /\ mixed' = TRUE
    /\ UNCHANGED <<sheet, lines, derivation>>

TakeoffNext ==
    \/ \E r \in Deriver : \/ OpenSheet(r) \/ Rederive(r) \/ CreateSheet(r) \/ DeleteDerived(r)
                          \/ InsertDerived(r) \/ DerivationEnds(r) \/ DeriverDies(r)
    \/ \E a \in Added : AddManualLine(a)
    \/ \E i \in 1..Len(lines) : UpdateLine(i) \/ DeleteLine(i)
    \/ SetStatus

TakeoffSpec == TakeoffInit /\ [][TakeoffNext]_takeoffVars

--------------------------------------------------------------------------------
\* What the estimator has touched is the estimator's: no derivation takes the line
\* away or writes its own figure into it, however requests interleave
\* (takeoff.ts:379-409, 438-466).
EstimatorKeepsThePen ==
    [][\A i \in 1..Len(lines) :
          /\ lines[i].source = "manual" => lines'[i].source = "manual"
          /\ lines[i].source = "manual" /\ ~lines[i].gone /\ lines'[i].gone =>
                \A r \in Deriver : deriving'[r] = deriving[r]]_takeoffVars

\* Derivations that come one by one leave the lines of the last reading, each assembly
\* once, next to what the estimator made of earlier ones; all of them, once it ended.
OneReading ==
    ~mixed =>
      /\ \A i, j \in Live : lines[i].source = "derived" /\ lines[j].source = "derived" =>
            /\ lines[i].of = lines[j].of
            /\ lines[i].assembly = lines[j].assembly => i = j
      /\ Deriving = {} /\ derivation # <<>> =>
            {lines[i].assembly : i \in {k \in 1..Len(lines) : lines[k].of = Len(derivation)}}
              = {DeriveLines(derivation[Len(derivation)])[k].assembly :
                   k \in 1..Len(DeriveLines(derivation[Len(derivation)]))}

\* A figure on a derived line was stated by the text: a trigger alone gives a zero the
\* estimator has to set, and a valuation prices the scope only when nothing else does
\* (deriveLines, takeoff.ts:182-227).
NothingInvented ==
    \A i \in 1..Len(lines) :
      LET l == lines[i]
          text == derivation[l.of]
      IN  l.of > 0 =>
            /\ l.quantity = "stated" => {"area", "feet"} \cap text # {}
            /\ l.assembly # "metal_stud_framing" /\ l.quantity = "stated" => "area" \in text
            /\ l.quantity = "priced" => text \subseteq {"valuation"}

\* What the estimator has touched stays the estimator's, however derivations interleave;
\* those that come one by one leave the last reading's lines, once each, and no figure
\* that nobody stated (takeoff.ts:182-227, 379-409, 438-466).
SheetIsTheEstimators == [](TakeoffTypeOK /\ OneReading /\ NothingInvented) /\ EstimatorKeepsThePen
================================================================================
