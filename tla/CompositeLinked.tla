--------------------------- MODULE CompositeLinked ---------------------------
(***************************************************************************)
(* v3, linked member contributions: the request, the retained windows, the *)
(* member and period population, and the tables that show each of them     *)
(* once.  src/app/services/composite_workbook/linked_{source,tables,       *)
(* custody}.py, custody.py and contracts/composite_linked.py.              *)
(*                                                                         *)
(* A digest is the content it was computed from; a column is named by the  *)
(* field its cells show, so its policy is the policy of that field.        *)
(***************************************************************************)
EXTENDS CompositeSource, FiniteSets

-----------------------------------------------------------------------------
(* The selection and the population *)

\* The source answers the request of its selection, in every field but the
\* materialization ids, which the windows carry.
RequestIsAnswered(request, source) ==
    \A field \in DOMAIN request \ {"materializations"} :
        field \in DOMAIN source /\ request[field] = source[field]

LinkedWindows(s) ==
    LET ids == [i \in DOMAIN s.windows |-> s.windows[i].id]
    IN  /\ ~SequenceHasDuplicates(ids) /\ ids = s.request.materializations
        /\ s.windows[1].start = s.request.start
        /\ Last(s.windows).end = s.request.end
        /\ Consecutive(s.windows)

Portfolios(rows) == {rows[i].portfolio : i \in DOMAIN rows}

PeriodsOf(source, portfolio) ==
    {i \in DOMAIN source.periods : source.periods[i].portfolio = portfolio}

\* Each member says how many periods it has.
MemberCountsOfMembers(source) ==
    \A i \in DOMAIN source.members :
        source.members[i].count
          = Cardinality(PeriodsOf(source, source.members[i].portfolio))

MemberCounts(source) ==
    /\ Portfolios(source.periods) = Portfolios(source.members)
    /\ MemberCountsOfMembers(source)

LinkedPopulation(source) ==
    /\ ~SequenceHasDuplicates(
            [i \in DOMAIN source.members |-> source.members[i].portfolio])
    /\ ~SequenceHasDuplicates(
            [i \in DOMAIN source.periods |->
                <<source.periods[i].portfolio, source.periods[i].start,
                  source.periods[i].end>>])
    /\ MemberCounts(source)

\* Every period is in a window, under the window's pin, and no window is empty.
PeriodVector(source, windows) ==
    /\ \A i \in DOMAIN source.periods :
          \E w \in Range(windows) :
              /\ w.start = source.periods[i].start /\ w.end = source.periods[i].end
              /\ w.seq = source.periods[i].seq /\ w.id = source.periods[i].version
    /\ \A w \in Range(windows) :
          \E i \in DOMAIN source.periods :
              w.start = source.periods[i].start /\ w.end = source.periods[i].end

\* validate_linked_source.
LinkedSourceIsPinned(d) ==
    /\ DigestIsPinned(d.selection, d.source, d.digest)
    /\ d.tenant = d.selection.tenant
    /\ RequestIsAnswered(d.selection.request, d.source)
    /\ d.source.manifest = [windows |-> d.selection.windows,
                            engine |-> d.selection.engine]
    /\ LinkedWindows(d.selection)
    /\ LinkedPopulation(d.source)
    /\ PeriodVector(d.source, d.selection.windows)

-----------------------------------------------------------------------------
(* The tables *)

LinkedTableNames ==
    <<"Summary", "LinkedContribution", "LinkedPeriods", "Methods", "Lineage",
      "Disclosures", "UncapturedProducts">>

LinkedColumns ==
    [Summary            |-> <<"start", "end", "cumulative">>,
     LinkedContribution |-> <<"portfolio", "linked", "count">>,
     LinkedPeriods      |-> <<"portfolio", "start", "end", "calculation">>,
     Methods            |-> <<"method">>,
     Lineage            |-> <<"engine">>,
     Disclosures        |-> <<"code">>,
     UncapturedProducts |-> <<"product", "value">>]

LinkedFinancialPolicy ==
    [cumulative |-> "DECIMAL_RETURN", linked |-> "DECIMAL_RETURN", count |-> "COUNT"]

RequiredDisclosures ==
    {"CALCULATED_REPLAY_NOT_OFFICIAL", "SOURCE_QUALIFICATION",
     "SOURCE_OWNED_LINKING", "PRECISION_AND_UNITS"}

UncapturedProducts ==
    {"CalendarReturns", "TrailingReturns", "SinceInception", "Risk", "Attribution",
     "ApprovedRestatement", "CompleteEligibilityPopulation"}

LinkedFactsAreComplete(facts) ==
    LET codes == [i \in DOMAIN facts.disclosures |-> facts.disclosures[i].code]
    IN  /\ ~SequenceHasDuplicates(codes) /\ RequiredDisclosures \subseteq Range(codes)
        /\ Len(facts.uncaptured) = 7
        /\ {facts.uncaptured[i].product : i \in 1..7} = UncapturedProducts

\* What the rows of a table show, in order.
LinkedRows(d, table) ==
    CASE table \in {"Summary", "Methods"} -> <<d.source>>
      [] table = "Lineage"            -> <<d.source.manifest>>
      [] table = "LinkedContribution" -> d.source.members
      [] table = "LinkedPeriods"      -> d.source.periods
      [] table = "Disclosures"        -> d.facts.disclosures
      [] table = "UncapturedProducts" -> d.facts.uncaptured

\* The reason an absent value is absent for.
LinkedReason(table, column) ==
    IF table = "UncapturedProducts" /\ column = "value"
    THEN "SOURCE_PRODUCT_NOT_CAPTURED" ELSE "SOURCE_IDENTITY_NOT_PROVIDED"

\* A cell names what it shows; only the calculation of a period and the value
\* of an uncaptured product may be null.
LinkedCellIsSourced(d, cell, table, i, column) ==
    LET value == LinkedRows(d, table)[i][column]
        missing == column \in {"calculation", "value"} /\ value = NoText
    IN  /\ cell.at = <<table, i, column>>
        /\ cell.value = value
        /\ cell.reasons = IF missing THEN {LinkedReason(table, column)} ELSE {}

ColumnType(column) ==
    IF column \in DOMAIN LinkedFinancialPolicy
    THEN LinkedFinancialPolicy[column] ELSE "TEXT"

\* _validate_table: its columns in order, a row of the source each, in order.
LinkedTableIsExact(d, table) ==
    LET columns == LinkedColumns[table.id]
    IN  /\ table.columns
             = [i \in DOMAIN columns |-> <<columns[i], ColumnType(columns[i])>>]
        /\ Len(table.rows) = Len(LinkedRows(d, table.id))
        /\ \A i \in DOMAIN table.rows :
              /\ DOMAIN table.rows[i] = Range(columns)
              /\ \A column \in Range(columns) :
                    LinkedCellIsSourced(d, table.rows[i][column], table.id, i, column)

LinkedTablesAreExact(d) ==
    /\ LinkedFactsAreComplete(d.facts)
    /\ [i \in DOMAIN d.tables |-> d.tables[i].id] = LinkedTableNames
    /\ \A i \in DOMAIN d.tables : LinkedTableIsExact(d, d.tables[i])

LinkedContentIsAdmitted(d) == LinkedSourceIsPinned(d) /\ LinkedTablesAreExact(d)

-----------------------------------------------------------------------------
(* Custody *)

\* The archive keeps the document under the scope of its data, whatever the
\* caller said of it: a composite's own, never a portfolio's.
CustodyScope(d, composite, start, end) ==
    [scope |-> "composite", portfolio |-> NoText, tenant |-> d.tenant,
     composite |-> composite, asOf |-> end, start |-> start, end |-> end,
     retention |-> end]

\* The revision is Report's, and the same in the package and its lineage.
CustodyIsBound(package, selection, scope) ==
    /\ package.archive.identity = selection
    /\ package.revision # "" /\ package.archive.revision = package.revision
    /\ package.lineage = <<package.snapshot, package.revision>>
    /\ package.archive.scope = scope

LinkedCustodyIsBound(package) ==
    LET request == package.data.selection.request
    IN  CustodyIsBound(package, package.data.selection,
            CustodyScope(package.data, request.composite, request.start, request.end))

LinkedIsAdmitted(package) ==
    LinkedContentIsAdmitted(package.data) /\ LinkedCustodyIsBound(package)

\* What the contract makes of a package: lists are sequences, and a window
\* ends no earlier than it starts.
IsLinked(package) ==
    LET d == package.data
    IN  /\ d.source.members \in Seq(Range(d.source.members))
        /\ d.source.periods \in Seq(Range(d.source.periods))
        /\ \A i \in DOMAIN d.tables : d.tables[i].rows \in Seq(Range(d.tables[i].rows))
        /\ AreWindowPins(d.selection.windows) /\ d.selection.windows # <<>>
        /\ \A w \in Range(d.selection.windows) : w.start <= w.end
        /\ "composite" \in DOMAIN d.selection.request

-----------------------------------------------------------------------------
(* Properties of admitted datasets *)

\* The periods the members are shown with, member by member, are as many as
\* the table of periods shows, at least one and at most one per window, and no
\* window is without one (linked_source.py:77-113, linked_tables.py:91-130).
LinkedPopulationIsShown(package) ==
    LinkedIsAdmitted(package) =>
        LET d == package.data
            shown(table) == d.tables[CHOOSE i \in DOMAIN d.tables :
                                        d.tables[i].id = table].rows
            members == shown("LinkedContribution")
            periods == shown("LinkedPeriods")
        IN  /\ Cardinality(UNION {{i} \X (1..members[i]["count"].value) : i \in DOMAIN members})
                 = Len(periods)
            /\ \A i \in DOMAIN members :
                  members[i]["count"].value \in 1..Len(d.selection.windows)
            /\ {periods[i]["start"].value : i \in DOMAIN periods}
                 = {d.selection.windows[i].start : i \in DOMAIN d.selection.windows}

\* A document is kept under the days it shows: its custody begins where the
\* first period shown begins, ends where the last one ends, and is retained
\* from then on for the tenant and composite of its source (linked_custody.py:
\* 40-57, linked_source.py:60-113).
CustodyCoversWhatIsShown(package) ==
    LinkedIsAdmitted(package) =>
        LET periods == Range(package.data.source.periods)
            scope == package.archive.scope
        IN  /\ scope.start = Min({p.start : p \in periods})
            /\ scope.end = Max({p.end : p \in periods}) /\ scope.retention = scope.end
            /\ scope.tenant = package.data.selection.tenant
            /\ scope.composite = package.data.source.composite

=============================================================================
