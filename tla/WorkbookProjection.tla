-------------------------- MODULE WorkbookProjection --------------------------
(***************************************************************************)
(* What a reader of the workbook is given: the tables as they are shown,   *)
(* beside them the exact value of every cell, the policy of every column,  *)
(* the identity of the artifact and the dataset itself.                    *)
(* src/app/services/composite_workbook/{projection,presentation,           *)
(* eligibility_display}.py and the column policies of source_cells,        *)
(* linked_tables, eligibility_policy and pooled_tables.                    *)
(*                                                                         *)
(* A value is null, a text or a decimal, a record of its own each; twelve  *)
(* decimal places are FinePlaces, and which column identity has which      *)
(* policy is left out.                                                     *)
(***************************************************************************)
EXTENDS WorkbookText

CONSTANT FinePlaces     \* the places of a factor or a difference

Null == [is |-> "null"]
NoPlaces == -1
NoCurrency == "none"

\* The kinds of columns a version of the contract has.
Family(version) ==
    CASE version = "v3" -> "linked"
      [] version \in {"v4", "v6", "v7"} -> "eligibility"
      [] version = "v5" -> "pooled"
      [] OTHER -> "return"

-----------------------------------------------------------------------------
(* Column policies *)

\* validate_column: a return is a ratio shown times a hundred and rounded,
\* anything else is shown in its own unit.
ReturnPolicy(column) ==
    IF column.type = "DECIMAL_RETURN"
    THEN /\ column.unit = "DECIMAL_RATIO" /\ column.percent
         /\ column.display \in {"PERCENT", "PERCENTAGE_POINTS"}
         /\ column.places # NoPlaces
    ELSE /\ <<column.type, column.unit>> \in
              {<<"TEXT", "TEXT">>, <<"MONEY", "CURRENCY_UNITS">>,
               <<"COUNT", "PORTFOLIO_COUNT">>}
         /\ column.display = column.unit /\ ~column.percent

\* LINKED_FINANCIAL_POLICY, text for the rest; a return is converted.
LinkedPolicy(column) ==
    /\ <<column.type, column.unit, column.display, column.places>> \in
          {<<"DECIMAL_RETURN", "DECIMAL_RATIO", "PERCENT", 2>>,
           <<"DECIMAL_RETURN", "DECIMAL_RATIO", "PERCENTAGE_POINTS", 2>>,
           <<"DECIMAL_RETURN", "DECIMAL_RATIO", "PERCENTAGE_POINTS", FinePlaces>>,
           <<"DECIMAL_FACTOR", "DECIMAL_RATIO", "DECIMAL_RATIO", FinePlaces>>,
           <<"MONEY", "CURRENCY_UNITS", "CURRENCY_UNITS", 2>>,
           <<"COUNT", "PERIOD_COUNT", "PERIOD_COUNT", 0>>,
           <<"TEXT", "TEXT", "TEXT", NoPlaces>>}
    /\ column.percent = (column.type = "DECIMAL_RETURN")

\* eligibility_column_policy: nothing is converted, a ratio stays one.
EligibilityPolicy(column) ==
    /\ <<column.type, column.unit, column.places>> \in
          {<<"MONEY", "CURRENCY_UNITS", 2>>,
           <<"DECIMAL_FACTOR", "DECIMAL_RATIO", FinePlaces>>,
           <<"COUNT", "PORTFOLIO_COUNT", 0>>, <<"COUNT", "EVENT_COUNT", 0>>,
           <<"BOOLEAN", "BOOLEAN", NoPlaces>>, <<"TEXT", "TEXT", NoPlaces>>}
    /\ column.display = column.unit /\ ~column.percent

\* _column: the returns of a pooled analysis with six places, as FinePlaces.
PooledColumnPolicy(column) ==
    /\ <<column.type, column.unit, column.display, column.places>> \in
          {<<"DECIMAL_RETURN", "DECIMAL_RATIO", "PERCENT", FinePlaces>>,
           <<"MONEY", "CURRENCY_UNITS", "CURRENCY_UNITS", 2>>,
           <<"TEXT", "TEXT", "TEXT", NoPlaces>>}
    /\ column.percent = (column.type = "DECIMAL_RETURN")

ColumnIsRight(content, column) ==
    /\ CASE Family(content.version) = "return" -> ReturnPolicy(column)
         [] Family(content.version) = "linked" -> LinkedPolicy(column)
         [] Family(content.version) = "eligibility" -> EligibilityPolicy(column)
         [] Family(content.version) = "pooled" -> PooledColumnPolicy(column)
    /\ column.currency = IF column.type = "MONEY" THEN content.currency
                         ELSE NoCurrency

-----------------------------------------------------------------------------
(* Identities *)

Distinct(s) == IsInjective(s)

\* Mutant of TableIsIdentified: rows may be called the same.
ColumnsAreIdentified(table) ==
    /\ Distinct([c \in DOMAIN table.columns |-> table.columns[c].id])
    /\ \A r \in DOMAIN table.rows :
          DOMAIN table.rows[r].cells = {table.columns[c].id : c \in DOMAIN table.columns}

\* Columns and rows are told apart, and a row has a cell for every column.
TableIsIdentified(table) ==
    /\ Distinct([c \in DOMAIN table.columns |-> table.columns[c].id])
    /\ Distinct([r \in DOMAIN table.rows |-> table.rows[r].id])
    /\ \A r \in DOMAIN table.rows :
          DOMAIN table.rows[r].cells = {table.columns[c].id : c \in DOMAIN table.columns}

AvailabilityIsRight(cell) ==
    IF cell.availability = "AVAILABLE" THEN cell.value # Null
    ELSE cell.value = Null /\ cell.reasons # {}

\* What the admission of every version ensures of its tables, checked one by
\* one (v1, v2, v5, v8) or by comparing them with the tables it builds.
ContentIsIdentified(content) ==
    /\ Distinct([t \in DOMAIN content.tables |-> content.tables[t].id])
    /\ \A t \in DOMAIN content.tables :
          LET table == content.tables[t]
          IN  /\ TableIsIdentified(table)
              /\ \A c \in DOMAIN table.columns : ColumnIsRight(content, table.columns[c])
              /\ \A r \in DOMAIN table.rows :
                    \A id \in DOMAIN table.rows[r].cells :
                        AvailabilityIsRight(table.rows[r].cells[id])

-----------------------------------------------------------------------------
(* The tables of the workbook *)

AsText(family) == {"TEXT"} \cup IF family = "eligibility" THEN {"BOOLEAN"} ELSE {}

Suffix(column) ==
    CASE column.type = "MONEY" -> column.currency
      [] column.display = "PERCENT" -> "%"
      [] column.display = "PERCENTAGE_POINTS" -> "pp"
      [] OTHER -> ""

\* A cell as it is shown: why there is no value, the text, or the number
\* with its unit; without declared places, every place it has.
DisplayCell(family, column, cell) ==
    IF cell.value = Null
    THEN [says |-> cell.availability, codes |-> cell.reasons]
    ELSE IF column.type \in AsText(family) THEN cell.value
    ELSE LET places == IF column.places = NoPlaces THEN cell.value.exponent
                       ELSE column.places
         IN  [number |-> Displayed(cell.value, places, column.percent),
              places |-> places, suffix |-> Suffix(column)]

VisibleTable(family, table) ==
    [name |-> table.id,
     rows |-> [r \in DOMAIN table.rows |->
                 <<table.rows[r].id>>
                   \o [c \in DOMAIN table.columns |->
                         DisplayCell(family, table.columns[c],
                                     table.rows[r].cells[table.columns[c].id])]]]

\* One row for every cell, of every row, of every table.
CellEvidence(content) ==
    FlattenSeq([t \in DOMAIN content.tables |->
        LET table == content.tables[t]
        IN  FlattenSeq([r \in DOMAIN table.rows |->
              [c \in DOMAIN table.columns |->
                 LET id == table.columns[c].id
                 IN  [table |-> table.id, row |-> table.rows[r].id, column |-> id,
                      cell |-> table.rows[r].cells[id]]]])])

ColumnPolicy(content) ==
    FlattenSeq([t \in DOMAIN content.tables |->
        [c \in DOMAIN content.tables[t].columns |->
            [table |-> content.tables[t].id, column |-> content.tables[t].columns[c]]]])

\* What the artifact says of itself: how it rounds, and for some versions
\* what it does not calculate.
ArtifactIdentity(content) ==
    [rounding |-> IF content.version \in {"v4", "v6", "v7"}
                  THEN "source ratios remain ratios" ELSE "ratio times 100 once",
     boundary |-> content.version \in {"v6", "v7"},
     generations |-> content.version = "v9"]

WorkbookTables(content) ==
    [visible |-> [t \in DOMAIN content.tables |->
                    VisibleTable(Family(content.version), content.tables[t])],
     evidence |-> CellEvidence(content),
     policy |-> ColumnPolicy(content),
     identity |-> ArtifactIdentity(content),
     pinned |-> Chunks(content.text)]

\* What the contracts make of a content: a currency is a code of letters, and
\* what a column of numbers has is a decimal.
IsContent(content) ==
    /\ content.currency \notin {"", "%", "pp"}
    /\ content.tables \in Seq(Range(content.tables)) /\ IsText(content.text)
    /\ \A t \in DOMAIN content.tables :
          LET table == content.tables[t]
          IN  /\ table.columns \in Seq(Range(table.columns))
              /\ table.rows \in Seq(Range(table.rows))
              /\ \A c \in DOMAIN table.columns :
                    /\ table.columns[c].places \in Int
                    /\ \A r \in DOMAIN table.rows :
                          LET cells == table.rows[r].cells
                              value == cells[table.columns[c].id].value
                          IN  table.columns[c].id \in DOMAIN cells =>
                                \/ value = Null
                                \/ DOMAIN value = {"text"}
                                   /\ table.columns[c].type \in AsText(Family(content.version))
                                \/ DOMAIN value = {"digits", "exponent"} /\ IsDecimal(value)

-----------------------------------------------------------------------------
(* Properties of one content *)

\* The workbook alone is enough: for the cell at any place of any shown table
\* the policies of the table, one after the other, give its column and the
\* evidence exactly one value, which is what is shown there; and the dataset is
\* in it whole (projection.py:19-160, source_cells.py:136-157).
ContentIsRecoverable(content) ==
    ContentIsIdentified(content) =>
        LET book == WorkbookTables(content)
            Of(sheet) == {k \in DOMAIN book.policy : book.policy[k].table = sheet.name}
            Evidenced(sheet, row, column) ==
                {k \in DOMAIN book.evidence :
                    LET e == book.evidence[k]
                    IN  e.table = sheet.name /\ e.row = row /\ e.column = column}
        IN  /\ \A t \in DOMAIN book.visible :
                  LET sheet == book.visible[t]
                  IN  \A r \in DOMAIN sheet.rows :
                        \E first \in 0..Len(book.policy) :
                          /\ Of(sheet) = (first + 1)..(first + Len(sheet.rows[r]) - 1)
                          /\ \A c \in 1..(Len(sheet.rows[r]) - 1) :
                                LET column == book.policy[first + c].column
                                IN  \E k \in DOMAIN book.evidence :
                                      /\ Evidenced(sheet, sheet.rows[r][1], column.id) = {k}
                                      /\ sheet.rows[r][c + 1] =
                                            DisplayCell(Family(content.version), column,
                                                        book.evidence[k].cell)
            /\ FlattenSeq(book.pinned) = content.text

\* A figure is never shown a hundred times off: with a percent sign or
\* percentage points it is a hundred times its value, otherwise its value,
\* rounded; money has its currency, and nothing else has one; and what the
\* artifact states of its rounding is so (presentation.py:15-51,
\* eligibility_display.py:7-15, projection.py:100-127).
UnitsAreShown(content) ==
    ContentIsIdentified(content) =>
        \A t \in DOMAIN content.tables :
            LET table == content.tables[t]
            IN  \A r \in DOMAIN table.rows, c \in DOMAIN table.columns :
                    LET column == table.columns[c]
                        cell == table.rows[r].cells[column.id]
                        shown == DisplayCell(Family(content.version), column, cell)
                        scale == IF shown.suffix \in {"%", "pp"} THEN 100 ELSE 1
                        \* both on the finer of the two scales
                        fine == IF cell.value.exponent > shown.places
                                THEN cell.value.exponent ELSE shown.places
                        unit == TenTo(fine - shown.places)
                        exact == cell.value.digits * scale * TenTo(fine - cell.value.exponent)
                    IN  "number" \in DOMAIN shown =>
                          /\ 2 * Abs(shown.number * unit - exact) <= unit
                          /\ (shown.suffix = content.currency) = (column.type = "MONEY")
                          /\ (scale = 100) =>
                                ArtifactIdentity(content).rounding = "ratio times 100 once"

=============================================================================
