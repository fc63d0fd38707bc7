--------------------------- MODULE CompositeSource ---------------------------
(***************************************************************************)
(* What a composite review may show: the admission of a v1 or v2 dataset   *)
(* by its retained selection, the captured source response and the cells   *)
(* that point into them.  src/app/services/composite_workbook/             *)
(* {source_cells,pinned_identity,source_products,product_tables,           *)
(* source_values}.py and contracts/composite_{review,selection,products}.  *)
(*                                                                         *)
(* A date is a day number in a calendar of short months and years, and a   *)
(* digest is the content it was computed from.  The hashes, receipts and   *)
(* bindings of a window are one pin.                                       *)
(***************************************************************************)
EXTENDS Integers, SequencesExt

CONSTANTS
    MonthDays,      \* days of a month
    YearMonths,     \* months of a year
    MaxWindows      \* the bound of a window vector

ASSUME CalendarAssumption == MonthDays \in Nat \ {0} /\ YearMonths \in Nat \ {0}

\* A figure the source does not give, and a text it does not.
Absent == -1
NoText == "null"

-----------------------------------------------------------------------------
(* The selection *)

SequenceHasDuplicates(s) == Cardinality(Range(s)) # Len(s)

Month(day) == day \div MonthDays
FirstOf(month) == month * MonthDays
LastOf(month) == FirstOf(month + 1) - 1

\* Mutant of Consecutive: windows are ordered, gaps or not.
ConsecutiveOrdered(windows) ==
    \A i \in 1..(Len(windows) - 1) : windows[i + 1].start > windows[i].end

Consecutive(windows) ==
    \A i \in 1..(Len(windows) - 1) : windows[i + 1].start = windows[i].end + 1

\* CompositePinnedSelection and CompositeWindowPin.
SelectionIsPinned(s) ==
    /\ Len(s.windows) \in 1..MaxWindows
    /\ \A i \in DOMAIN s.windows :
          s.windows[i].start <= s.windows[i].end /\ s.windows[i].seq >= 1
    /\ ~SequenceHasDuplicates([i \in DOMAIN s.windows |-> s.windows[i].id])
    /\ s.start = s.windows[1].start /\ s.end = Last(s.windows).end
    /\ Consecutive(s.windows)

-----------------------------------------------------------------------------
(* The source response *)

Statuses == {"READY", "DEGRADED", "BLOCKED"}

StatusValues(period) ==
    /\ period.status \in Statuses
    /\ period.status = "BLOCKED" =>
          period.return = Absent /\ period.cumulative = Absent
    /\ period.status = "READY" =>
          /\ period.return # Absent /\ period.cumulative # Absent
          /\ period.count # 0

\* Every counted member once, each of this period and from its sources.
MembersArePinned(period) ==
    /\ Len(period.members) = period.count
    /\ ~SequenceHasDuplicates(
            [i \in DOMAIN period.members |-> period.members[i].portfolio])
    /\ \A i \in DOMAIN period.members :
          LET member == period.members[i]
          IN  /\ member.start = period.start /\ member.end = period.end
              /\ member.seq = period.seq
              /\ member.fingerprint \in period.fingerprints

\* The view and the currency: those of the selection, and there when a
\* return is.
InContext(period, s) ==
    /\ {period.view} \subseteq {NoText, s.view}
    /\ {period.currency} \subseteq {NoText, s.currency}
    /\ period.return # Absent => period.view = s.view /\ period.currency = s.currency

PeriodIsPinned(period, window, s) ==
    /\ period.start = window.start /\ period.end = window.end
    /\ period.seq = window.seq
    /\ MembersArePinned(period)
    /\ StatusValues(period)
    /\ InContext(period, s)

\* One captured response reconciled with its exact selector.
SourceIsPinned(s, source) ==
    /\ source.composite = s.composite
    /\ source.start = s.start /\ source.end = s.end
    /\ source.manifest = [windows |-> s.windows, engine |-> s.engine]
    /\ Len(source.periods) = Len(s.windows)
    /\ \A i \in DOMAIN s.windows : PeriodIsPinned(source.periods[i], s.windows[i], s)
    /\ source.status \in Statuses
    /\ source.cumulative = Last(source.periods).cumulative
    /\ source.status = "BLOCKED" => source.cumulative = Absent

DigestIsPinned(s, source, digest) == digest = source /\ s.digest = digest

-----------------------------------------------------------------------------
(* The captured products of v2 *)

MonthsAreComplete(windows) ==
    \A i \in DOMAIN windows :
        LET month == Month(windows[i].start)
        IN  windows[i].start = FirstOf(month) /\ windows[i].end = LastOf(month)

\* Calendar: every month of the year; trailing: so many months to the end.
HorizonIsRight(primary, product) ==
    LET s == product.selection
    IN  IF product.kind = "CALENDAR_RETURN"
        THEN /\ s.start = FirstOf(product.year * YearMonths)
             /\ s.end = LastOf(product.year * YearMonths + YearMonths - 1)
             /\ Len(s.windows) = YearMonths
        ELSE Len(s.windows) = product.months /\ s.end = primary.end

\* From the first window equal to the product's first on, they are equal.
WindowsAreThePrimarys(primary, windows) ==
    \E i \in DOMAIN primary :
        /\ primary[i] = windows[1]
        /\ \A j \in 1..(i - 1) : primary[j] # windows[1]
        /\ i + Len(windows) - 1 <= Len(primary)
        /\ SubSeq(primary, i, i + Len(windows) - 1) = windows

ProductIsPinned(primary, product) ==
    LET s == product.selection
    IN  /\ SelectionIsPinned(s)
        /\ DigestIsPinned(s, product.source, product.digest)
        /\ SourceIsPinned(s, product.source)
        /\ product.source.status = "READY" => product.source.cumulative # Absent
        /\ s.tenant = primary.tenant /\ s.composite = primary.composite
        /\ s.currency = primary.currency /\ s.view = primary.view
        /\ MonthsAreComplete(s.windows)
        /\ HorizonIsRight(primary, product)
        /\ WindowsAreThePrimarys(primary.windows, s.windows)

ProductsArePinned(d) ==
    /\ ~SequenceHasDuplicates([i \in DOMAIN d.products |-> d.products[i].key])
    /\ \A i \in DOMAIN d.products : ProductIsPinned(d.selection, d.products[i])

-----------------------------------------------------------------------------
(* The cells *)

\* A pointer names where in the dataset a scalar is: of the series, of a
\* period, of a period's member, of a product or of the report's own facts.
FieldType ==
    [cumulative |-> "DECIMAL_RETURN", return |-> "DECIMAL_RETURN",
     contribution |-> "DECIMAL_RETURN", count |-> "COUNT"]

Resolves(d, at) ==
    CASE at.of = "series"  -> at.field \in DOMAIN d.source
      [] at.of = "period"  -> at.i \in DOMAIN d.source.periods
                              /\ at.field \in DOMAIN d.source.periods[at.i]
      [] at.of = "product" -> at.i \in DOMAIN d.products
                              /\ at.field \in DOMAIN d.products[at.i].source
      [] at.of = "facts"   -> at.field \in DOMAIN d.facts

ValueAt(d, at) ==
    CASE at.of = "series"  -> d.source[at.field]
      [] at.of = "period"  -> d.source.periods[at.i][at.field]
      [] at.of = "product" -> d.products[at.i].source[at.field]
      [] at.of = "facts"   -> d.facts[at.field]

\* A financial figure is one of the source's, at the paths the source has it.
IsFinancial(at) ==
    /\ at.of # "facts"
    /\ at.field \in DOMAIN FieldType
    /\ at.of = "product" => at.field = "cumulative"

\* Availability, the source's value, and the unit the column declares.
CellIsSourced(d, cell) ==
    /\ IF cell.available THEN cell.value # Absent
       ELSE cell.value = Absent /\ cell.reasons # {}
    /\ Resolves(d, cell.at)
    /\ cell.value = ValueAt(d, cell.at)
    /\ IF cell.type = "TEXT" THEN ~IsFinancial(cell.at)
       ELSE IsFinancial(cell.at) /\ FieldType[cell.at.field] = cell.type
    /\ d.version = "v2" /\ cell.at.field \in DOMAIN FieldType => IsFinancial(cell.at)

NotAttested == "SOURCE_AUTHORITY_NOT_ATTESTED"

\* validate_dataset for v1 and v2.
Admitted(d) ==
    /\ SelectionIsPinned(d.selection)
    /\ DigestIsPinned(d.selection, d.source, d.digest)
    /\ d.tenant = d.selection.tenant
    /\ SourceIsPinned(d.selection, d.source)
    /\ d.facts.authority = NotAttested
    /\ d.version = "v2" => d.products # <<>> /\ ProductsArePinned(d)
    /\ \A cell \in d.cells : CellIsSourced(d, cell)

\* What the contract makes of windows: days are days.
AreWindowPins(windows) ==
    /\ windows \in Seq(Range(windows))
    /\ \A w \in Range(windows) : {w.start, w.end} \subseteq Int

\* What it makes of a review of returns: lists are sequences.
IsReturns(d) ==
    LET lists == {d.source.periods}
                   \cup {d.source.periods[i].members : i \in DOMAIN d.source.periods}
    IN  /\ \A list \in lists : list \in Seq(Range(list))
        /\ AreWindowPins(d.selection.windows)
        /\ d.version = "v2" =>
              \A i \in DOMAIN d.products : AreWindowPins(d.products[i].selection.windows)

-----------------------------------------------------------------------------
(* Properties of an admitted dataset *)

\* The periods of an admitted dataset tile its horizon: every day of it is in
\* exactly one period, and no period reaches outside (composite_selection.py:
\* 49-64, pinned_identity.py:90-134).
HorizonIsTiled(d) ==
    Admitted(d) =>
        \A day \in 0..(MonthDays * YearMonths * 2) :
            Cardinality({i \in DOMAIN d.source.periods :
                            day \in d.source.periods[i].start..d.source.periods[i].end})
              = IF day \in d.selection.start..d.selection.end THEN 1 ELSE 0

\* No cell of a blocked series shows a return, no figure is shown as text,
\* and nothing the report states of itself passes for a figure of the source
\* (source_cells.py:83-139, pinned_identity.py:82-89).
FiguresAreTheSources(d) ==
    Admitted(d) =>
        \A cell \in d.cells :
            /\ cell.type # "TEXT" => cell.at.of # "facts"
            /\ cell.type = "TEXT" /\ cell.at.of \in {"series", "period"} =>
                  cell.at.field \notin DOMAIN FieldType
            /\ cell.at.of = "series" /\ d.source.status = "BLOCKED"
                  /\ cell.at.field = "cumulative" => cell.value = Absent

\* A product of an admitted dataset covers a contiguous run of the months the
\* primary series covers, in its materializations: the trailing one its last,
\* the calendar one all of a year (source_products.py:71-114).
ProductsCoverThePrimary(d) ==
    Admitted(d) /\ d.version = "v2" =>
        \A i \in DOMAIN d.products :
            LET product == d.products[i]
                months == {Month(day) : day \in product.selection.start..product.selection.end}
                shared == {w \in Range(d.selection.windows) :
                              Month(w.start) \in months}
            IN  /\ Cardinality(shared) = Len(product.selection.windows)
                /\ shared = Range(product.selection.windows)
                /\ product.kind = "TRAILING_RETURN" =>
                      Last(product.selection.windows) = Last(d.selection.windows)

\* The population of an admitted period is complete and each portfolio is in
\* it once: its count is the number of portfolios (pinned_identity.py:25-50).
PopulationIsCounted(d) ==
    Admitted(d) =>
        \A i \in DOMAIN d.source.periods :
            LET period == d.source.periods[i]
            IN  period.count
                  = Cardinality({m.portfolio : m \in Range(period.members)})

=============================================================================
