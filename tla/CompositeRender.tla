--------------------------- MODULE CompositeRender ---------------------------
(***************************************************************************)
(* The XLSX engine: one package is checked against its template, its       *)
(* content and its layout, sized, and written sheet by sheet under limits  *)
(* and a deadline.  src/app/services/composite_workbook/{rendering,        *)
(* capacity,literal_writer,projection}.py.                                 *)
(*                                                                         *)
(* A cell is its size; a header cell has size one.  What the content says  *)
(* is CompositeSource's and its siblings'; here it is admitted or not.     *)
(* "refused" stands for resource_limit_exceeded and, for a character a     *)
(* cell may not hold, package_validation_failed.                           *)
(***************************************************************************)
EXTENDS Integers, SequencesExt

CONSTANTS
    Books,          \* packages: version, verdicts, bytes on the wire and tables
    Limits          \* wire, rows per sheet, rows, cells, text, sheets, columns, cell

ASSUME LimitsAssumption ==
    Limits \in [{"wire", "rowsPerSheet", "rows", "cells", "text", "sheets", "columns", "cell"}
                  -> Nat \ {0}]

\* A table is its number of columns and its rows, a row the sizes of its cells.
ASSUME BooksAssumption ==
    \A b \in Books : /\ b.wire \in Nat
                     /\ b.tables \in Seq([columns : Nat, rows : Seq(Seq(Nat))])

VARIABLES
    book,           \* the package being rendered
    writer,         \* where the writer is and what it counted
    temporary       \* whether the writer's temporary directory exists

renderVars == <<book, writer, temporary>>

-----------------------------------------------------------------------------
(* Before anything is written *)

\* A text with a character a cell may not hold.
Control == 0

Preflighted == {"v4", "v5", "v6", "v7", "v8", "v9"}

\* The verdict on a package, in the order the engine reaches it.  What the
\* registry or the layout is wrong about is not the package's fault.
Verdict(b) ==
    CASE b.template # "pinned" -> "template_render_failed"
      [] b.content # "admitted" -> "package_validation_failed"
      [] b.layout # "pinned" -> "template_render_failed"
      [] OTHER -> "admitted"

\* Mutant of Sheets: a full last sheet is followed by an empty one.
SheetsByDivision(rows) == 1 + rows \div Limits.rowsPerSheet

\* How many sheets preflight counts for this many rows.
Sheets(rows) ==
    IF rows = 0 THEN 1 ELSE 1 + (rows - 1) \div Limits.rowsPerSheet

\* What a counter shows after each of a sequence of figures is added to it.
Running(figures) ==
    LET total[n \in 0..Len(figures)] ==
            IF n = 0 THEN 0 ELSE total[n - 1] + figures[n]
    IN  total

Tally(figures) == Running(figures)[Len(figures)]

RowText(row) == Tally(row)

RowTexts(table) == [i \in DOMAIN table.rows |-> RowText(table.rows[i])]

TableText(table) == Tally(RowTexts(table))

SumOver(tables, value(_)) == Tally([i \in DOMAIN tables |-> value(tables[i])])

CellsOf(table) ==
    table.columns * (Sheets(Len(table.rows)) + Len(table.rows))

TextOf(table) == table.columns * Sheets(Len(table.rows)) + TableText(table)
RowsOf(table) == Len(table.rows)
SheetsOf(table) == Sheets(Len(table.rows))

AllRows(tables) == UNION {Range(tables[i].rows) : i \in DOMAIN tables}
AllCells(tables) == UNION {Range(row) : row \in AllRows(tables)}

\* Tables that cannot be written: too much of anything, a ragged row, a bad
\* cell.
TablesRefused(tables) ==
    \/ \E i \in DOMAIN tables :
          \/ tables[i].columns \notin 1..Limits.columns
          \/ \E row \in Range(tables[i].rows) : Len(row) # tables[i].columns
    \/ SumOver(tables, RowsOf) > Limits.rows
    \/ SumOver(tables, CellsOf) > Limits.cells
    \/ SumOver(tables, TextOf) > Limits.text
    \/ SumOver(tables, SheetsOf) > Limits.sheets
    \/ \E size \in AllCells(tables) : size = Control \/ size > Limits.cell

\* What preflight refuses: the package, serialised again, or its tables.
PreflightRefuses(b) == b.wire > Limits.wire \/ TablesRefused(b.tables)

-----------------------------------------------------------------------------
(* The writer *)

Nothing == [at |-> "received", table |-> 0, row |-> 0, onSheet |-> 0,
            sheets |-> <<>>, rows |-> 0, cells |-> 0, text |-> 0,
            outcome |-> "none"]

RenderInit ==
    /\ book \in Books
    /\ writer = Nothing
    /\ temporary = FALSE

Done(outcome) ==
    /\ writer' = [writer EXCEPT !.at = "done", !.outcome = outcome]
    /\ temporary' = FALSE

\* Admission, and from v4 on the sizing of every cell before the first write.
Admit ==
    /\ writer.at = "received"
    /\ IF Verdict(book) # "admitted" THEN Done(Verdict(book))
       ELSE IF book.version \in Preflighted /\ PreflightRefuses(book)
       THEN Done("refused")
       ELSE writer' = [writer EXCEPT !.at = "table"] /\ temporary' = TRUE
    /\ UNCHANGED book

Table == book.tables[writer.table]

\* Adding one sheet and its header to what was counted.
Opened(w, table) ==
    [w EXCEPT !.sheets = Append(@, 0), !.onSheet = 0,
              !.cells = @ + table.columns, !.text = @ + table.columns]

Within(w) ==
    /\ Len(w.sheets) <= Limits.sheets /\ w.rows <= Limits.rows
    /\ w.cells <= Limits.cells /\ w.text <= Limits.text

\* The next table's first sheet, or the end of the workbook.
NextTable ==
    /\ writer.at = "table"
    /\ writer.table < Len(book.tables)
    /\ LET table == book.tables[writer.table + 1]
           begun == [writer EXCEPT !.table = @ + 1, !.row = 0, !.at = "row"]
           opened == Opened(begun, table)
       IN  IF table.columns \notin 1..Limits.columns \/ ~Within(opened)
           THEN Done("refused")
           ELSE writer' = opened /\ UNCHANGED temporary
    /\ UNCHANGED book

SheetFull == writer.onSheet = Limits.rowsPerSheet

\* One row: on a new sheet when this one is full.
WriteRow ==
    /\ writer.at = "row" /\ writer.row < Len(Table.rows)
    /\ LET row == Table.rows[writer.row + 1]
           placed == IF SheetFull THEN Opened(writer, Table) ELSE writer
           written == [placed EXCEPT
                         !.row = @ + 1, !.rows = @ + 1, !.onSheet = @ + 1,
                         !.cells = @ + Len(row), !.text = @ + RowText(row),
                         !.sheets[Len(placed.sheets)] = @ + 1]
       IN  IF \/ Len(row) # Table.columns
              \/ ~Within(written)
              \/ \E size \in Range(row) : size = Control \/ size > Limits.cell
           THEN Done("refused")
           ELSE writer' = written /\ UNCHANGED temporary
    /\ UNCHANGED book

CloseTable ==
    /\ writer.at = "row" /\ writer.row = Len(Table.rows)
    /\ writer' = [writer EXCEPT !.at = "table"]
    /\ UNCHANGED <<book, temporary>>

\* The deadline is read before each row and after the last.
Expire ==
    /\ \/ writer.at = "row" /\ writer.row < Len(Table.rows)
       \/ /\ writer.at = "table" /\ writer.table = Len(book.tables)
          /\ writer.sheets # <<>>
    /\ Done("timeout")
    /\ UNCHANGED book

\* Closing the file: no sheet at all, or an output over its limit.
Close ==
    /\ writer.at = "table" /\ writer.table = Len(book.tables)
    /\ IF writer.sheets = <<>> THEN Done("package_validation_failed")
       ELSE Done("rendered") \/ Done("refused")
    /\ UNCHANGED book

WorkbookNext == Admit \/ NextTable \/ WriteRow \/ CloseTable \/ Expire \/ Close

-----------------------------------------------------------------------------
(* Properties *)

RenderTypeOK ==
    /\ book \in Books
    /\ temporary \in BOOLEAN
    /\ writer.at \in {"received", "table", "row", "done"}
    /\ writer.outcome \in {"none", "rendered", "refused", "timeout",
                           "template_render_failed", "package_validation_failed"}
    /\ writer.table \in 0..Len(book.tables)

\* Sizing and writing are two countings of one workbook: what preflight
\* admits the writer never refuses before the file is closed, and the tables
\* the writer wrote to the end preflight would have admitted (capacity.py:30-74,
\* literal_writer.py:56-133).
CountingsAgree ==
    /\ (writer.at = "done" /\ writer.outcome = "refused"
           /\ book.version \in Preflighted /\ writer.sheets # <<>>)
          => writer.table = Len(book.tables) /\ writer.row = Len(Table.rows)
    /\ writer.outcome = "rendered" =>
          /\ ~TablesRefused(book.tables)
          /\ book.version \in Preflighted => ~PreflightRefuses(book)

\* A rendered workbook has every row of every table once, on sheets that are
\* full before the next is opened, and a workbook is never held over its
\* limits on the way (literal_writer.py:104-123).
SheetsHoldEveryRow ==
    /\ Within(writer)
    /\ \A i \in DOMAIN writer.sheets : writer.sheets[i] <= Limits.rowsPerSheet
    /\ writer.outcome = "rendered" =>
          /\ Tally(writer.sheets) = SumOver(book.tables, RowsOf)
          /\ Len(writer.sheets) = SumOver(book.tables, SheetsOf)

\* Whatever ends a render, a refusal half-way through a sheet too, its
\* temporary files are gone with it (literal_writer.py:130-164).
NothingIsLeftBehind == writer.at = "done" => ~temporary

=============================================================================
