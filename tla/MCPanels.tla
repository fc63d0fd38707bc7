------------------------------ MODULE MCPanels -------------------------------
(***************************************************************************)
(* Packages of a portfolio review, and the figures of its panels.          *)
(***************************************************************************)
EXTENDS ReviewPanels

MCPanelLimits == [rows |-> 3, colours |-> 2, uncrowded |-> 2, nameable |-> 20]

Figures(numbers) == {{}} \cup {{n} : n \in numbers}

\* A reading is not a figure: an amount, nothing, or no number.
Readings(numbers) ==
    [is : {"number"}, of : numbers] \cup [is : {"none", "nan"}, of : {0}]

Sequences(elements, length) == UNION {[1..n -> elements] : n \in 0..length}

-----------------------------------------------------------------------------
(* Packages: all are one but for a few of their parts *)

PlainData ==
    [positions |-> 0, holdings |-> 0, transactions |-> 0, periods |-> FALSE,
     summary |-> FALSE, annual |-> FALSE, monthly |-> "none", series |-> "none",
     benchmark |-> "unstated", risk |-> {}, dimensions |-> <<>>, included |-> {}]

FullData ==
    [PlainData EXCEPT !.holdings = 5, !.transactions = 3, !.periods = TRUE,
                      !.risk = {"beta"}, !.included = {"advisor_memo"}]

MCDimensions ==
    [dimension : {"currency", "rating", "colour"}, keyed : BOOLEAN,
     posture : {"ready", "empty", "unavailable", "guessed"}]

DataOfSubjects ==
    {[PlainData EXCEPT !.periods = p, !.series = s, !.monthly = m, !.benchmark = b,
                       !.risk = r, !.holdings = h, !.positions = q] :
        p \in BOOLEAN, s \in {"none", "plain", "benchmarked"},
        m \in {"none", "benchmarked"}, b \in {"available", "not_requested", "unstated"},
        r \in {{}, {"volatility", "drawdown"}}, h \in {0, 2}, q \in {0, 2}}
      \cup {[PlainData EXCEPT !.dimensions = d, !.transactions = 1] :
               d \in Sequences(MCDimensions, 2)}

SectionTokens ==
    {"overview", "scope", "memo", "advisor_memo", "advisor_commentary", "appendix",
     "additional_information", "everything"}

Selections ==
    {[kind |-> "none", tokens |-> <<>>], [kind |-> "other", tokens |-> <<>>]}
      \cup {[kind |-> "list", tokens |-> tokens] : tokens \in Sequences(SectionTokens, 3)}

Sizes ==
    {[PlainData EXCEPT !.positions = p, !.holdings = h, !.transactions = t] :
        p \in {0, 1593, 2656, 2657}, h \in {0, 2657}, t \in {0, 1658, 1659, 4143, 4144}}

MCReviewPackages ==
    [template : {"portfolio-review", "proof-pack"}, malformed : BOOLEAN,
     selection : Selections, data : {PlainData, FullData}]
      \cup [template : {"portfolio-review"}, malformed : {FALSE},
            selection : {[kind |-> "none", tokens |-> <<>>]}, data : Sizes]

-----------------------------------------------------------------------------
(* Panels *)

MCRow == [label : {"", "x"}, weight : Figures({10, 30}), value : Figures({5})]

MCRows ==
    Sequences(MCRow, 3)
      \cup {[i \in DOMAIN w |->
                [label |-> <<"a", "b", "c", "d", "e">>[i], weight |-> w[i],
                 value |-> IF w[i] = {30} THEN {} ELSE {5}]] :
               w \in Sequences({{}, {10}, {20}, {30}, {40}}, 5)}

MCSeries == Sequences({-213, -40, 0, 7, 102, 106, 206, 590}, 3)

MCBridges ==
    [posture : {"ready", "pending"}, effects : Sequences(Figures({-3, 2, 5}), 3),
     residual : Figures({-1, 0}), total : Figures({-4, 0, 6})]

MCRiskRow ==
    [named : BOOLEAN, component : Figures({-4, 3}), percent : Figures({1}),
     extras : {"none", "unreadable"}]

MCRiskSets ==
    [posture : {"ready"}, unit : {"decimal_ratio"},
     rows : Sequences({r \in MCRiskRow : r.named \/ r.component = {3}}, 2),
     residual : Figures({0}), reconciled : Readings({-7, 4, 6}), total : {{6}}]
      \cup [posture : {"ready", "empty", "unavailable", "unrecognised"},
            unit : {"unitless", "percent"},
            rows : {<<[named |-> TRUE, component |-> {3}, percent |-> {1}, extras |-> "none"]>>},
            residual : {{0}}, reconciled : Readings({3}) \cup [is : {"inf", "text"}, of : {0}],
            total : Figures({3})]

\* Slots that are computed or a gap, and ways neither.
MCSlots ==
    [date : {{1}, {2}}, posture : {""}, value : {{0}, {4}}, unread : {FALSE}]
      \cup [date : {{1}, {2}}, posture : {"not_computed"}, value : {{}}, unread : {FALSE}]
      \cup [date : {{2}}, posture : {"", "stale"}, value : {{}}, unread : BOOLEAN]
      \cup {[date |-> {}, posture |-> "", value |-> {4}, unread |-> FALSE],
            [date |-> {2}, posture |-> "not_computed", value |-> {4}, unread |-> FALSE]}

MCTrends == Sequences(MCSlots, 3)

MinusInfinity == [is |-> "-inf", of |-> -10000]

MCDrawdowns ==
    [points : Sequences(Readings({3, 0, -25, -41, -999}) \cup {MinusInfinity}, 3),
     episodes : {<<>>}]
      \cup [points : {<<>>},
            episodes : Sequences([depth : Readings({3, -10, -20, -30}) \cup {MinusInfinity}], 5)]

\* Why DrawdownsAreTheDeepest leaves out panels with a nan: among these five
\* depths the code shows -10 and not -20 (drawdown_panel.py:97, 198).
Unsorted ==
    LET Episode(is, of) == [depth |-> [is |-> is, of |-> of], recovered |-> TRUE]
    IN  <<Episode("number", -10), Episode("nan", 0), Episode("number", -30),
          Episode("number", -20), Episode("number", -5)>>

ASSUME NanHidesTheDeepest ==
    ~DeepestAreShown([points |-> <<>>, episodes |-> Unsorted])

=============================================================================
