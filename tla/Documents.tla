------------------------------ MODULE Documents ------------------------------
(***************************************************************************)
(* A workbook rendered under limits, or one input of the pure operators    *)
(* documents and answers are made with: the inputs are initial states, so  *)
(* every property of an operator is checked over all of them.              *)
(***************************************************************************)
EXTENDS CompositeRender, WorkbookProjection, CompositePooled, CompositeContext,
        CompositeEligibility, CompositeNotice, Readiness, ReviewPanels

CONSTANTS
    Inputs,         \* pairs of a kind and a description of an input
    Sample(_)       \* the input a pair describes

\* An input is of a kind of its own, "none" being where a package is rendered,
\* and one of a contract is what its contract makes of it.
ASSUME InputsAssumption ==
    \A pair \in Inputs :
        /\ pair[1] # "none"
        /\ pair[1] = "text" => IsText(Sample(pair))
        /\ pair[1] = "number" =>
              IsDecimal(Sample(pair).decimal) /\ Sample(pair).places \in Int
        /\ pair[1] = "body" => IsBody(Sample(pair))
        /\ pair[1] = "content" => IsContent(Sample(pair))
        /\ pair[1] = "magnitude" => Sample(pair).magnitude \in Int
        /\ pair[1] = "members" => \A i \in 1..4 : IsText(Sample(pair)[i])
        /\ pair[1] = "posture" => Sample(pair) \in Postures
        /\ pair[1] = "returns" => IsReturns(Sample(pair))
        /\ pair[1] = "linked" => IsLinked(Sample(pair))
        /\ pair[1] = "pooled" => IsPooled(Sample(pair))
        /\ pair[1] = "context" => IsContext(Sample(pair))
        /\ pair[1] = "eligibility" => IsEligibility(Sample(pair))
        /\ pair[1] = "notice" => IsNotice(Sample(pair))
        /\ pair[1] = "review" => IsReview(Sample(pair))
        /\ pair[1] = "subjects" => IsReviewData(Sample(pair))
        /\ pair[1] = "groups" => IsGrouping(Sample(pair))
        /\ pair[1] = "series" => IsSeries(Sample(pair))
        /\ pair[1] = "bridge" => IsBridge(Sample(pair))
        /\ pair[1] = "risk" => IsRiskSet(Sample(pair))
        /\ pair[1] = "trend" => IsTrend(Sample(pair))
        /\ pair[1] = "drawdown" => IsDrawdown(Sample(pair))

VARIABLE input

NoInput == <<"none", 0>>

documentsVars == <<input, renderVars>>

\* No package is rendered while an operator is looked at.
NoBook == [version |-> "none", template |-> "none", content |-> "none",
           layout |-> "none", wire |-> 0, tables |-> <<>>]

DocumentsInit ==
    \/ input = NoInput /\ RenderInit
    \/ input \in Inputs /\ book = NoBook /\ writer = Nothing /\ temporary = FALSE

DocumentsNext == input = NoInput /\ WorkbookNext /\ UNCHANGED input

DocumentsSpec == DocumentsInit /\ [][DocumentsNext]_documentsVars

Is(kind) == input[1] = kind
Given == Sample(input)

-----------------------------------------------------------------------------
(* Properties: each of one kind of input, by the operators it is about *)

\* Nothing is cut to fit a cell: a text too long for one is given whole by
\* fragments that fit, a number that is not refused fits, and the members of an
\* identity are told apart by their framing: the parts are those of
\* WorkbookText.
NothingIsCut ==
    /\ Is("text") => FragmentsAreLossless(Given)
    /\ Is("magnitude") => ShownFits(Given.magnitude, Given.percent)
    /\ Is("members") => FramingIsInjective(Given[1], Given[2], Given[3], Given[4])

\* What a workbook shows is every row of every table once, under every limit,
\* and a render that fails leaves nothing behind: its two countings agree, and
\* no cell of it is cut (capacity.py, literal_writer.py:75-157,
\* rendering.py:48-116, identity.py:30-42, numeric_display.py).
WorkbooksAreWhole ==
    /\ Is("none") =>
          RenderTypeOK /\ CountingsAgree /\ SheetsHoldEveryRow /\ NothingIsLeftBehind
    /\ NothingIsCut

\* A cell shows its value and a pointer finds it: the number displayed is the
\* nearest of its format, every leaf of a body is found at its pointer and none
\* is left out, and the workbook is enough to have every cell back, in its unit:
\* the parts are those of WorkbookText, WorkbookProjection and CompositePooled.
CellsShowTheirValues ==
    /\ Is("number") => DisplayIsNearest(Given.decimal, Given.places, Given.percent)
    /\ Is("body") => EvidenceIsComplete(Given)
    /\ Is("content") => ContentIsRecoverable(Given) /\ UnitsAreShown(Given)

\* What an admitted review of returns (v1, v2) or of linked contributions
\* (v3) shows is of the source it selected, covers its horizon and counts its
\* members once: CompositeSource and CompositeLinked state the parts.
ReturnsAreSourced ==
    /\ Is("returns") =>
          /\ HorizonIsTiled(Given)
          /\ FiguresAreTheSources(Given)
          /\ ProductsCoverThePrimary(Given)
          /\ PopulationIsCounted(Given)
    /\ Is("linked") =>
          LinkedPopulationIsShown(Given) /\ CustodyCoversWhatIsShown(Given)

\* A pooled return (v5) is shown with every member covered, only when it is
\* qualified, and in the tables of its layout: the parts are CompositePooled's.
PooledReturnIsQualified ==
    Is("pooled") =>
        PooledIsCovered(Given) /\ ReturnsAreQualified(Given)
            /\ PooledTablesFitTheLayout(Given)

\* A source context (v8) shows a return since inception only of a whole
\* vector, and the history and products it names: the parts are
\* CompositeContext's.
ContextIsWhole ==
    Is("context") =>
        SinceInceptionIsWhole(Given) /\ HistoryIsTheWindows(Given)
            /\ ContextTablesFitTheLayout(Given)

\* An eligibility review (v4, v6, v7) accounts for every portfolio of every
\* month, its corrections are one history, and what it shows as admitted was
\* admitted in time: the parts are CompositeEligibility's.
EligibilityIsShown ==
    Is("eligibility") =>
        EligibilityIsAccounted(Given) /\ CorrectionsAreOrdered(Given)
            /\ AdmissionsWereCurrent(Given)

\* A notice of a correction (v9) shows every cell of both generations where
\* it is, and the one economic step between their archived documents: the
\* parts are CompositeNotice's.
NoticeIsWhole ==
    Is("notice") => BothSidesAreShown(Given) /\ CorrectionIsOneStep(Given)

\* A process says one thing of whether it takes work: Readiness's property.
ReadinessIsOne == Is("posture") => ReadinessAgrees(Given)

\* A portfolio review draws what was asked for and explains what it draws,
\* and none of its panels states a figure its rows do not: the parts are
\* those of ReviewScope and ReviewPanels.
ReviewsAreTrue ==
    /\ Is("review") => ScopeIsHonoured(Given)
    /\ Is("subjects") => AppendixExplainsThePages(Given)
    /\ Is("groups") => AllocationIsWhole(Given)
    /\ Is("series") => AxisHasZero(Given)
    /\ Is("bridge") => BridgeIsOnTheTrack(Given)
    /\ Is("risk") => DecompositionAddsUp(Given)
    /\ Is("trend") => TrendIsStated(Given)
    /\ Is("drawdown") => DrawdownsAreTheDeepest(Given)

\* No point of a chart is out of its axis: "a value inside the series is
\* inside [0, 1] by construction" (chart_geometry.py:76-84).
SeriesLiesInTheAxis == Is("series") => SeriesLiesInItsAxis(Given)

=============================================================================
