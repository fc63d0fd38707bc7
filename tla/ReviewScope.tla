----------------------------- MODULE ReviewScope -----------------------------
(***************************************************************************)
(* What a portfolio review may be asked for and what it then draws: the    *)
(* size it is admitted at, the selection of its sections, and the appendix *)
(* that explains its terms.  src/app/services/{render_envelope,            *)
(* section_selection,appendix_glossary,allocation_presentation,            *)
(* benchmark_presentation,typst_contexts}.py and render_submission.py.     *)
(*                                                                         *)
(* A package has the rows of its lists as numbers, and of its figures      *)
(* whether they are supplied.  A token of a selection is already trimmed,  *)
(* in lower case and with underscores.                                     *)
(***************************************************************************)
EXTENDS Integers, SequencesExt

\* The entries of seq at some of its places, in their order.
Picked(seq, places) ==
    [k \in 1..Cardinality(places) |->
        seq[CHOOSE i \in places : Cardinality({j \in places : j < i}) = k - 1]]

-----------------------------------------------------------------------------
(* The size a document is admitted at *)

CeilingPositions == 3125
CeilingTransactions == 4875
AdmittedPercent == 85

\* The rows of the position table.
PositionRows(data) == IF data.positions # 0 THEN data.positions ELSE data.holdings

\* The two costs add; both ceilings are multiples of 125 rows.
EnvelopeRefuses(data) ==
    LET positions == CeilingPositions \div 125
        transactions == CeilingTransactions \div 125
    IN  100 * (PositionRows(data) * transactions + data.transactions * positions)
          > AdmittedPercent * 125 * positions * transactions

-----------------------------------------------------------------------------
(* What the package says to present *)

AllocationSubject ==
    [asset_class |-> "allocation", currency |-> "allocation.currency",
     region |-> "allocation.region", sector |-> "allocation.sector",
     country |-> "allocation.country", product_type |-> "allocation.product_type",
     rating |-> "allocation.rating"]

\* An entry that cannot be drawn as it was stated is left out.
PresentedDimensions(data) ==
    LET entry(i) == data.dimensions[i]
    IN  Picked(data.dimensions,
               {i \in DOMAIN data.dimensions :
                   /\ entry(i).dimension \in DOMAIN AllocationSubject
                   /\ entry(i).keyed
                   /\ entry(i).posture \in {"ready", "empty", "unavailable"}})

\* A posture nobody stated is drawn: a missing benchmark must be seen.
BenchmarkPosture(data) ==
    IF data.benchmark \in {"available", "unavailable", "not_requested"}
    THEN data.benchmark ELSE "unavailable"

BenchmarkColumns(data) == BenchmarkPosture(data) # "not_requested"

-----------------------------------------------------------------------------
(* The appendix *)

RiskMeasures == {"volatility", "beta", "tracking_error", "information_ratio", "value_at_risk"}

PerformanceSubjects(data) ==
    LET chart == IF data.series # "none" THEN data.series ELSE data.monthly
    IN  {subject \in {"performance"} :
            data.periods \/ data.summary \/ data.annual \/ data.monthly # "none"}
          \cup IF data.periods /\ BenchmarkColumns(data) THEN {"benchmark", "benchmark.relative"}
               ELSE {subject \in {"benchmark"} : chart = "benchmarked"}

AllocationSubjects(data) ==
    {AllocationSubject[entry.dimension] :
        entry \in {e \in Range(PresentedDimensions(data)) : e.posture = "ready"}}

HoldingSubjects(data) ==
    {subject \in {"positions"} : data.holdings # 0}
      \cup {subject \in {"transactions"} : data.transactions # 0}

PresentSubjects(data) ==
    PerformanceSubjects(data) \cup (data.risk \cap RiskMeasures)
      \cup AllocationSubjects(data) \cup HoldingSubjects(data)

\* The subjects of each group of entries, in the order of the document.
Glossary ==
    <<<<"performance", "benchmark", "benchmark.relative">>,
      <<"volatility", "beta", "tracking_error", "information_ratio", "value_at_risk">>,
      <<"allocation", "allocation.currency", "allocation.region", "allocation.sector",
        "allocation.country", "allocation.product_type", "allocation.rating">>,
      <<"positions">>, <<"transactions">>>>

ApplicableGlossary(data) ==
    LET Applies(group) == {i \in DOMAIN group : group[i] \in PresentSubjects(data)}
        chapters == [g \in DOMAIN Glossary |-> Picked(Glossary[g], Applies(Glossary[g]))]
    IN  Picked(chapters, {g \in DOMAIN chapters : chapters[g] # <<>>})

-----------------------------------------------------------------------------
(* The selection of sections *)

DefaultSections ==
    <<"cover", "contents", "overview", "performance", "allocation", "positions",
      "transactions", "advisory_narrative", "advisor_memo", "advisor_commentary",
      "appendix">>

OptionalSections == {"advisory_narrative", "advisor_memo", "advisor_commentary"}

CanonicalSections == Range(DefaultSections) \cup {"scope", "holdings"}

SectionAliases ==
    [detailed_positions |-> "positions", holdings_appendix |-> "positions",
     asset_allocation |-> "allocation", scope_of_analysis |-> "overview",
     performance_review |-> "performance", transaction_list |-> "transactions",
     additional_information |-> "appendix", advisor_narrative |-> "advisory_narrative",
     advisory |-> "advisory_narrative", reviewed_advisory |-> "advisory_narrative",
     reviewed_advisory_narrative |-> "advisory_narrative",
     advisor_proposal_memo |-> "advisor_memo", proposal_memo |-> "advisor_memo",
     memo |-> "advisor_memo"]

SectionKey(token) ==
    IF token \in DOMAIN SectionAliases THEN SectionAliases[token] ELSE token

Drawable(data, key) ==
    IF key \in OptionalSections THEN key \in data.included
    ELSE key # "appendix" \/ ApplicableGlossary(data) # <<>>

\* A token that is unknown, or names a part the package does not carry.
TokenIsRefused(data, token) ==
    \/ SectionKey(token) \notin CanonicalSections
    \/ SectionKey(token) \in OptionalSections \ data.included

\* A selection is none, something that is no list, or a list of tokens.
SelectionIsRefused(package) ==
    LET s == package.selection
    IN  CASE s.kind = "none" -> FALSE
          [] s.kind = "other" -> TRUE
          [] s.kind = "list" ->
                s.tokens = <<>> \/ \E t \in Range(s.tokens) : TokenIsRefused(package.data, t)

\* Each of them once, where it is first.
Once(keys) ==
    Picked(keys, {i \in DOMAIN keys : \A j \in 1..(i - 1) : keys[j] # keys[i]})

\* The sections of a selection that is not refused.
SectionKeys(package) ==
    LET s == package.selection
        asked == IF s.kind = "none" THEN DefaultSections
                 ELSE [i \in DOMAIN s.tokens |-> SectionKey(s.tokens[i])]
    IN  Once(Picked(asked, {i \in DOMAIN asked : Drawable(package.data, asked[i])}))

\* What sends the package away before a slot is taken, in the order asked;
\* content that does not parse is left to the render.
Admission(package) ==
    CASE EnvelopeRefuses(package.data) -> "resource_limit_exceeded"
      [] ~EnvelopeRefuses(package.data) ->
            IF \/ package.selection.kind = "none"
               \/ /\ package.template = "portfolio-review"
                  /\ package.malformed \/ ~SelectionIsRefused(package)
            THEN "admitted" ELSE "package_validation_failed"

\* What the engine does with it: a failure, or the sections it draws.
DrawnSections(package) ==
    IF package.malformed \/ SelectionIsRefused(package)
    THEN [failed |-> TRUE, sections |-> <<>>]
    ELSE [failed |-> FALSE, sections |-> SectionKeys(package)]

\* What the contract makes of a review: rows are counted, lists are sequences.
IsReviewData(data) ==
    /\ {data.positions, data.holdings, data.transactions} \subseteq Nat
    /\ data.dimensions \in Seq(Range(data.dimensions))

IsReview(package) ==
    /\ IsReviewData(package.data)
    /\ package.malformed \in BOOLEAN
    /\ package.selection.tokens \in Seq(Range(package.selection.tokens))

-----------------------------------------------------------------------------
(* Properties *)

PlaceIn(keys, key) == CHOOSE i \in DOMAIN keys :
    keys[i] = key /\ \A j \in 1..(i - 1) : keys[j] # key

\* The largest documents the runtime was measured to render
\* (render_envelope.py:10-16, 48-56).
WasRendered(data) ==
    /\ PositionRows(data) <= 3000 /\ data.transactions <= 4875
    /\ PositionRows(data) <= 1875 \/ data.transactions <= 1875

\* What is asked for by name is drawn exactly, in that order and once, or
\* refused before a slot is taken: the scope never widens, and narrows only
\* by an appendix with nothing to explain; and no document is admitted past
\* those the runtime renders (section_selection.py:140-199,
\* render_submission.py:173-208, typst_contexts.py:572-602).
ScopeIsHonoured(package) ==
    LET s == package.selection
        asked == [i \in DOMAIN s.tokens |-> SectionKey(s.tokens[i])]
        drawn == DrawnSections(package)
    IN  package.template = "portfolio-review" /\ Admission(package) = "admitted" =>
          /\ drawn.failed <=> package.malformed
          /\ WasRendered(package.data)
          /\ s.kind = "list" /\ ~drawn.failed =>
                /\ Range(drawn.sections) \subseteq Range(asked)
                /\ Range(asked) \ Range(drawn.sections) \subseteq {"appendix"}
                /\ Cardinality(Range(drawn.sections)) = Len(drawn.sections)
                /\ \A i, j \in DOMAIN drawn.sections :
                      i < j => PlaceIn(asked, drawn.sections[i]) < PlaceIn(asked, drawn.sections[j])
          /\ s.kind = "none" /\ ~drawn.failed =>
                Range(DefaultSections) \ Range(drawn.sections)
                  \subseteq {"appendix"} \cup (OptionalSections \ package.data.included)

\* The rows and figures a full review has on its pages, its chart aside.
OnThePage(data) ==
    (data.risk \cap RiskMeasures)
      \cup {AllocationSubject[entry.dimension] :
               entry \in {e \in Range(data.dimensions) :
                             e.posture = "ready" /\ e.keyed
                               /\ e.dimension \in DOMAIN AllocationSubject}}
      \cup {s \in {"performance"} : data.periods \/ data.summary \/ data.annual
                                      \/ data.monthly # "none"}
      \cup {s \in {"benchmark.relative"} : data.periods /\ data.benchmark # "not_requested"}
      \cup {s \in {"positions"} : PositionRows(data) # 0}
      \cup {s \in {"transactions"} : data.transactions # 0}

\* The appendix explains what the pages have and nothing they have not, and
\* no heading of it stands over nothing; of positions it explains those that
\* are holdings too, and the line of the chart is its own
\* (appendix_glossary.py:121-241, allocation_presentation.py:86-119).
AppendixExplainsThePages(data) ==
    LET chapters == ApplicableGlossary(data)
        explained == (UNION {Range(g) : g \in Range(chapters)}) \ {"benchmark"}
    IN  /\ explained \subseteq OnThePage(data)
        /\ OnThePage(data) \ explained \subseteq
              {s \in {"positions"} : data.holdings = 0}
        /\ <<>> \notin Range(chapters)

=============================================================================
