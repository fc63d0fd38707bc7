--------------------------- MODULE CompositePooled ---------------------------
(***************************************************************************)
(* v5, the pooled money-weighted return: the captured response and its     *)
(* bundle against the selection, the outcome that may be shown, the        *)
(* predecessor of a correction, and the evidence table that shows every    *)
(* leaf of the response at its JSON pointer.                               *)
(* src/app/services/composite_workbook/pooled_{source,tables,policy,       *)
(* custody}.py, contracts/composite_pooled{,_selection}.py.                *)
(*                                                                         *)
(* A digest is the content it was computed from.  A body is a tree: a leaf *)
(* is <<"leaf", value>>, an object <<"object", <<key, tree>>s in key       *)
(* order>>, an array <<"array", trees>>; a key is a sequence of characters.*)
(***************************************************************************)
EXTENDS CompositeLinked

CONSTANT MaxDepth       \* how many objects and arrays of a body enclose one leaf

ASSUME DepthAssumption == MaxDepth \in Nat

\* No predecessor.
NoDocument == [none |-> TRUE]

-----------------------------------------------------------------------------
(* The selection *)

PooledPinIsComplete(pin) ==
    /\ pin.from <= pin.to
    /\ Len(pin.pages) = pin.pageCount /\ ~SequenceHasDuplicates(pin.pages)

PooledSelectionIsExact(s) ==
    /\ s.start < s.end
    /\ s.expected # <<>> /\ ~SequenceHasDuplicates(s.expected)
    /\ s.pins # <<>> /\ ~SequenceHasDuplicates([i \in DOMAIN s.pins |-> s.pins[i].id])
    /\ \A i \in DOMAIN s.pins : PooledPinIsComplete(s.pins[i])
    /\ (s.corrects = NoText) = (s.predecessorDigest = NoDocument)
    /\ s.corrects # s.calculation

-----------------------------------------------------------------------------
(* The bundle *)

Scope(x) == <<x.tenant, x.composite, x.currency, x.start, x.end>>

PinIds(s) == {s.pins[i].id : i \in DOMAIN s.pins}

PooledPopulation(s, bundle, observation) ==
    /\ bundle.complete
    /\ bundle.count = Len(s.expected) /\ bundle.expected = s.expected
    /\ observation.controls = Range(s.expected)

\* Each pinned body, unaltered, of a source that covers the interval.
SourceBodies(s, bundle) ==
    /\ DOMAIN bundle.bodies = PinIds(s)
    /\ \A i \in DOMAIN s.pins :
          /\ s.pins[i].from <= s.start /\ s.pins[i].to >= s.end
          /\ bundle.bodies[s.pins[i].id] = s.pins[i].digest

SourcePins(s, bundle) ==
    /\ bundle.pins = s.pins
    /\ Range(bundle.compatible) = PinIds(s)
    /\ Len(bundle.compatible) = Cardinality(PinIds(s))
    /\ bundle.populationPin \in PinIds(s)
    /\ SourceBodies(s, bundle)

PooledPolicy(s, bundle) == bundle.policy = s.policy

MemberMoney(s, bundle) ==
    /\ \A row \in Range(bundle.membership) :
          /\ row.portfolio \in Range(s.expected)
          /\ row.status \in {"INCLUDED", "EXCLUDED", "PENDING"}
          /\ row.from <= row.to
    /\ \A row \in Range(bundle.valuations \o bundle.flows) :
          /\ row.portfolio \in Range(s.expected) /\ row.currency = s.currency
          /\ row.pin \in PinIds(s)

FlowCoverage(s, bundle) ==
    /\ Len(bundle.coverage) = Len(s.expected)
    /\ Portfolios(bundle.coverage) = Range(s.expected)
    /\ \A row \in Range(bundle.coverage) :
          /\ row.complete /\ row.pin \in PinIds(s)
          /\ row.from <= s.start /\ row.to >= s.end

FlowDates(s, observation) ==
    \A day \in Range(observation.flowDates) : day \in s.start..s.end

BundleIsComplete(s, bundle, observation) ==
    /\ PooledPopulation(s, bundle, observation)
    /\ SourcePins(s, bundle)
    /\ PooledPolicy(s, bundle)
    /\ MemberMoney(s, bundle)
    /\ FlowCoverage(s, bundle) /\ FlowDates(s, observation)

-----------------------------------------------------------------------------
(* The outcome *)

Returns(outcome) == {outcome.value, outcome.annualized, outcome.holding}

SolverInterval(s, outcome) ==
    /\ outcome.interval = <<s.start, s.end>>
    /\ outcome.dayCount \in {NoText, s.policy.dayCount}

\* A root the solver says it found, alone, within its budget.
ConvergenceIsQualified(convergence) ==
    /\ convergence.converged /\ convergence.unique /\ ~convergence.nonSimple
    /\ convergence.roots = 1
    /\ convergence.iterations <= convergence.maxIterations

ElectedFallback(s, outcome) ==
    /\ s.policy.fallback = "ALLOW_MODIFIED_DIETZ"
    /\ outcome.method = "MODIFIED_DIETZ" /\ outcome.value # Absent
    /\ outcome.solver = <<"FALLBACK_USED", "MODIFIED_DIETZ">>
    /\ outcome.fallbackFrom = "XIRR"

AvailableXirr(s, outcome) ==
    /\ outcome.method = "XIRR" /\ Absent \notin Returns(outcome)
    /\ outcome.solver = <<"CALCULATED", "XIRR">>
    /\ outcome.convergence.dayCount = s.policy.dayCount
    /\ ConvergenceIsQualified(outcome.convergence)

\* Mutant of OutcomeIsShown: a result that cannot be calculated is not looked
\* at further.
OutcomeIsShownUnlessRejected(s, outcome) ==
    /\ SolverInterval(s, outcome)
    /\ \/ outcome.availability = "NOT_CALCULABLE"
       \/ outcome.availability = "FALLBACK_ANALYSIS" /\ ElectedFallback(s, outcome)
       \/ outcome.availability = "AVAILABLE" /\ AvailableXirr(s, outcome)

OutcomeIsShown(s, outcome) ==
    /\ SolverInterval(s, outcome)
    /\ \/ /\ outcome.availability = "NOT_CALCULABLE"
          /\ Returns(outcome) = {Absent} /\ outcome.reasons # {}
       \/ /\ outcome.dayCount = s.policy.dayCount
          /\ \/ outcome.availability = "FALLBACK_ANALYSIS" /\ ElectedFallback(s, outcome)
             \/ outcome.availability = "AVAILABLE" /\ AvailableXirr(s, outcome)

-----------------------------------------------------------------------------
(* The response and its predecessor *)

ResponseIsBound(r) ==
    /\ r.composite = r.observation.composite /\ r.manifest = r.observation.manifest
    /\ r.corrects # r.calculation

PooledIsAdmitted(p) ==
    LET s == p.selection
        r == p.source
    IN  /\ PooledSelectionIsExact(s)
        /\ s.tenant = p.tenant /\ r = s.digest
        /\ ResponseIsBound(r)
        /\ <<r.calculation, r.composite, r.manifest, r.corrects>>
             = <<s.calculation, s.composite, s.manifest, s.corrects>>
        /\ Scope(r.observation) = Scope(s) /\ Scope(r.observation.bundle) = Scope(s)
        /\ r.observation.manifest = s.manifest
        /\ r.observation.bundle = s.bundleDigest
        /\ BundleIsComplete(s, r.observation.bundle, r.observation)
        /\ OutcomeIsShown(s, r.outcome)

\* A correction shows what it corrects, admitted under its own population and
\* sources and under the correction's policy.
PredecessorIsAdmitted(p) ==
    LET s == p.selection
        parent == p.predecessor
        own == [s EXCEPT !.expected = parent.observation.bundle.expected,
                         !.pins = parent.observation.bundle.pins]
    IN  IF s.corrects = NoText THEN parent = NoDocument
        ELSE /\ parent # NoDocument
             /\ ResponseIsBound(parent)
             /\ parent = s.predecessorDigest
             /\ parent.calculation = s.corrects /\ parent.composite = s.composite
             /\ Scope(parent.observation) = Scope(s)
             /\ Scope(parent.observation.bundle) = Scope(s)
             /\ \A pin \in Range(own.pins) : PooledPinIsComplete(pin)
             /\ BundleIsComplete(own, parent.observation.bundle, parent.observation)
             /\ OutcomeIsShown(own, parent.outcome)

-----------------------------------------------------------------------------
(* JSON pointers *)

Replace(text, character, with) ==
    FlattenSeq([i \in DOMAIN text |->
                   IF text[i] = character THEN with ELSE <<text[i]>>])

Escape(key) == Replace(Replace(key, "~", <<"~", "0">>), "/", <<"~", "1">>)

\* Every "~" followed by this character is one of these.
ReplacePair(text, character, with) ==
    LET pair(i) == i \in 1..(Len(text) - 1) /\ text[i] = "~" /\ text[i + 1] = character
    IN  FlattenSeq([i \in DOMAIN text |->
            IF pair(i) THEN <<with>> ELSE IF pair(i - 1) THEN <<>> ELSE <<text[i]>>])

Unescape(token) == ReplacePair(ReplacePair(token, "1", "/"), "0", "~")

Digits == <<"0", "1", "2", "3", "4", "5", "6", "7", "8", "9">>

\* A number as it is written, with no zero before it.
Numeral(n) ==
    LET written[k \in 0..n] ==
            IF k < 10 THEN <<Digits[k + 1]>>
            ELSE Append(written[k \div 10], Digits[(k % 10) + 1])
    IN  written[n]

\* What a pointer calls a part of an object or an array, numbered from zero.
Token(tree, i) ==
    IF tree[1] = "object" THEN Escape(tree[2][i][1]) ELSE Numeral(i - 1)

Part(tree, i) == IF tree[1] = "object" THEN tree[2][i][2] ELSE tree[2][i]

\* An object or an array with nothing in it is a leaf.
IsLeaf(tree) == tree[1] = "leaf" \/ tree[2] = <<>>

\* A node is a pointer and the tree there.  What it is made of, in order.
Members(node) ==
    LET tree == node[2]
    IN  IF IsLeaf(tree) THEN <<node>>
        ELSE [i \in DOMAIN tree[2] |->
                <<node[1] \o <<"/">> \o Token(tree, i), Part(tree, i)>>]

\* One pointer per leaf: what is left when everything has been opened.
Leaves(tree) ==
    LET level[n \in 0..MaxDepth] ==
            IF n = 0 THEN <<<<<<>>, tree>>>>
            ELSE LET nodes == level[n - 1]
                 IN  FlattenSeq([i \in DOMAIN nodes |-> Members(nodes[i])])
        leaves == level[MaxDepth]
    IN  [k \in DOMAIN leaves |-> leaves[k][1]]

\* The tokens of a pointer: one begins at every slash.
Tokens(pointer) ==
    LET read[n \in 0..Len(pointer)] ==
            IF n = 0 THEN <<>>
            ELSE LET before == read[n - 1]
                 IN  IF pointer[n] = "/" THEN Append(before, <<>>)
                     ELSE IF before = <<>> THEN <<>>
                     ELSE Append(Front(before), Append(Last(before), pointer[n]))
    IN  read[Len(pointer)]

Unresolved == <<"unresolved">>

Child(tree, token) ==
    LET here == CASE tree[1] = "object" ->
                        {i \in DOMAIN tree[2] : tree[2][i][1] = Unescape(token)}
                  [] tree[1] = "array" -> {i \in DOMAIN tree[2] : Numeral(i - 1) = token}
                  [] OTHER -> {}
    IN  IF here = {} \/ \E k \in DOMAIN token :
                           token[k] = "~" /\ (k = Len(token)
                                                \/ token[k + 1] \notin {"0", "1"})
        THEN Unresolved
        ELSE Part(tree, CHOOSE i \in here : TRUE)

\* Where a path leads, one token after the other.
Follow(tree, path) ==
    LET at[k \in 0..Len(path)] ==
            IF k = 0 THEN tree ELSE Child(at[k - 1], path[k])
    IN  at[Len(path)]

ResolvePointer(tree, pointer) == Follow(tree, Tokens(pointer))

-----------------------------------------------------------------------------
(* The tables *)

PooledRequired ==
    {"Summary", "Outcome", "MonetaryObservation", "Policy", "Disclosures",
     "SourceEvidence"}

PooledOptional ==
    {"InvestorCashFlows", "Valuations", "PortfolioFlows", "MemberControls",
     "SourcePins", "Membership", "PredecessorEvidence"}

PooledDisclosures ==
    <<"NON_OFFICIAL_CALCULATED_ANALYSIS", "NOT_ATTESTED",
      "EXACT_MONEY_FLOAT64_ROOT", "EXPLICIT_OUTCOME", "CORRECTION_SCOPE">>

PooledTable(id, rows) == [id |-> id, rows |-> rows]

Evidence(id, document) ==
    LET pointers == Leaves(document.body)
    IN  PooledTable(id, [k \in DOMAIN pointers |->
                            <<pointers[k], ResolvePointer(document.body, pointers[k])>>])

\* The tables of the response itself.
PrimaryTables(p) ==
    LET observation == p.source.observation
    IN  <<PooledTable("Summary", <<p.source.calculation>>),
          PooledTable("Outcome", <<p.source.outcome>>),
          PooledTable("MonetaryObservation", <<Scope(observation)>>),
          PooledTable("InvestorCashFlows", observation.flowDates),
          PooledTable("Policy", <<observation.bundle.policy>>),
          PooledTable("Disclosures", PooledDisclosures)>>

\* The tables of the evidence it was calculated from.
BundleTables(p) ==
    LET bundle == p.source.observation.bundle
    IN  <<PooledTable("Valuations", bundle.valuations),
          PooledTable("PortfolioFlows", bundle.flows),
          PooledTable("MemberControls", SetToSeq(p.source.observation.controls)),
          PooledTable("SourcePins", bundle.pins),
          PooledTable("Membership", bundle.membership)>>

\* A table without rows is left out, for its empty array is a leaf of the
\* evidence.
WithRows(tables) ==
    FlattenSeq([i \in DOMAIN tables |->
                   IF tables[i].rows = <<>> THEN <<>> ELSE <<tables[i]>>])

\* The tables as the captured response gives them.
PooledTables(p) ==
    WithRows(PrimaryTables(p) \o BundleTables(p))
      \o <<Evidence("SourceEvidence", p.source)>>
      \o IF p.predecessor = NoDocument THEN <<>>
         ELSE <<Evidence("PredecessorEvidence", p.predecessor)>>

TableIds(tables) == [i \in DOMAIN tables |-> tables[i].id]

PooledTablesAreRebuilt(p) ==
    /\ TableIds(p.tables) = TableIds(PooledTables(p))
    /\ \A i \in DOMAIN p.tables : p.tables[i].rows = PooledTables(p)[i].rows

PooledContentIsAdmitted(p) ==
    PooledIsAdmitted(p) /\ PredecessorIsAdmitted(p) /\ PooledTablesAreRebuilt(p)

\* validate_pooled_table_set.
PooledTableSetIsRight(tables) ==
    LET names == Range(TableIds(tables))
    IN  PooledRequired \subseteq names /\ names \subseteq PooledRequired \cup PooledOptional

\* What the contract makes of a dataset: days are days, rows are sequences.
IsPooled(p) ==
    LET bundle == p.source.observation.bundle
        Intervals(rows) == \A row \in Range(rows) : {row.from, row.to} \subseteq Int
    IN  /\ "policy" \in DOMAIN p.selection
        /\ {p.selection.start, p.selection.end} \subseteq Int
        /\ Intervals(p.selection.pins) /\ Intervals(bundle.coverage)
        /\ \A rows \in {bundle.valuations, bundle.flows} : rows \in Seq(Range(rows))

\* What a body may be with so many objects and arrays around a leaf: the keys
\* of an object differ.  A fraction, true, false and null are texts.
Scalars == Int \cup STRING

Trees[n \in 0..MaxDepth] ==
    ({"leaf"} \X Scalars) \cup ({"object", "array"} \X {<<>>})
      \cup IF n = 0 THEN {}
            ELSE ({"array"} \X Seq(Trees[n - 1]))
                   \cup {tree \in {"object"} \X Seq(Seq(STRING) \X Trees[n - 1]) :
                            \A i, j \in DOMAIN tree[2] :
                                tree[2][i][1] = tree[2][j][1] => i = j}

IsBody(tree) == tree \in Trees[MaxDepth]

-----------------------------------------------------------------------------
(* Properties *)

\* Every member of an admitted population has its flows covered over the whole
\* interval, and every amount shown is in its currency, of one of its members
\* and from a pinned body that covers the interval and is the one selected
\* (pooled_source.py:182-206, 226-276).
PooledIsCovered(p) ==
    PooledContentIsAdmitted(p) =>
        LET s == p.selection
            bundle == p.source.observation.bundle
        IN  /\ \A member \in Range(s.expected) : \E row \in Range(bundle.coverage) :
                  row.portfolio = member /\ {s.start, s.end} \subseteq row.from..row.to
            /\ \A row \in Range(bundle.valuations) :
                  /\ row.portfolio \in p.source.observation.controls /\ row.currency = s.currency
                  /\ \E pin \in Range(s.pins) :
                        /\ pin.id = row.pin /\ bundle.bodies[row.pin] = pin.digest
                        /\ {s.start, s.end} \subseteq pin.from..pin.to

\* A return is shown only for a root found alone and in time or for the
\* elected fallback, in the result and in the predecessor shown beside it;
\* what could not be calculated shows its reasons and no return
\* (pooled_source.py:290-384, pooled_tables.py:37-41).
ReturnsAreQualified(p) ==
    PooledContentIsAdmitted(p) =>
        \A document \in {p.source, p.predecessor} \ {NoDocument} :
            LET outcome == document.outcome
            IN  IF Returns(outcome) = {Absent} THEN outcome.reasons # {}
                ELSE \/ outcome.method = "XIRR" /\ outcome.convergence.roots = 1
                        /\ Absent \notin Returns(outcome)
                     \/ outcome.method = "MODIFIED_DIETZ"
                        /\ p.selection.policy.fallback = "ALLOW_MODIFIED_DIETZ"

\* The tables of an admitted response are a table set its layout takes: what
\* leaves empty tables out never leaves a required one out
\* (pooled_tables.py:339-344, pooled_policy.py:25-38).
PooledTablesFitTheLayout(p) ==
    PooledContentIsAdmitted(p) => PooledTableSetIsRight(p.tables)

\* The evidence of a body shows each of its leaves once, at a pointer that
\* resolves to it whatever its keys are made of, and leaves none out: where a
\* pointer goes past an object or an array, one goes on to each of its parts
\* (pooled_tables.py:111-121, source_values.py:11-28).
EvidenceIsComplete(tree) ==
    LET pointers == Leaves(tree)
        Path(k) == Tokens(pointers[k])
    IN  /\ ~SequenceHasDuplicates(pointers)
        /\ \A k \in DOMAIN pointers :
              /\ LET found == ResolvePointer(tree, pointers[k])
                 IN  found # Unresolved /\ IsLeaf(found)
              /\ \A n \in 0..(Len(Path(k)) - 1) :
                    LET passed == SubSeq(Path(k), 1, n)
                        here == Follow(tree, passed)
                    IN  \A i \in DOMAIN here[2] :
                          \E l \in DOMAIN pointers :
                              IsPrefix(Append(passed, Token(here, i)), Path(l))

=============================================================================
