----------------------- MODULE CompositeRenderProofs -----------------------
(***************************************************************************)
(* The safety of CompositeRender, proved for every set of books and any    *)
(* limits: packages may have any number of tables, columns and rows, and   *)
(* cells of any size.                                                      *)
(*                                                                         *)
(* Preflight adds up whole tables, the writer one row and one header at a  *)
(* time.  The invariant states in numbers what the writer has counted of   *)
(* the tables before this one and of this one so far, so that at the end   *)
(* the two sums are the same and on the way the writer's is the smaller.   *)
(*                                                                         *)
(* Then what a workbook shows: a number rounded, of any size and any power *)
(* of ten, in the unit of its cell; and the leaves of a body of any depth, *)
(* at pointers that are read back.  The lemmas on sequences come first.    *)
(***************************************************************************)
EXTENDS CompositeRender, WorkbookProjection, CompositePooled, SequenceTheorems,
        FiniteSetTheorems, WellFoundedInduction, TLAPS

-----------------------------------------------------------------------------
(* Natural numbers and counters *)

\* A set of naturals that is not empty has a least element.
LEMMA LeastNatural ==
    ASSUME NEW T \in SUBSET Nat, T # {}
    PROVE  \E m \in T : \A n \in T : m <= n
<1>1. PICK m \in T : \A n \in T : <<n, m>> \notin OpToRel(<, Nat)
  BY WFMin, NatLessThanWellFounded, Zenon
<1>2. ASSUME NEW n \in T PROVE m <= n
  <2>1. n \in Nat /\ m \in Nat
    OBVIOUS
  <2>2. ~(n < m)
    BY <1>1, <2>1 DEF OpToRel
  <2> QED BY <2>1, <2>2
<1> QED BY <1>2

\* A set of naturals with 0 and with every successor up to n has n.
LEMMA Climb ==
    ASSUME NEW T, 0 \in T, NEW n \in Nat,
           \A k, m \in 0..n : k \in T /\ m = k + 1 => m \in T
    PROVE  n \in T
<1> SUFFICES ASSUME n \notin T PROVE FALSE
  OBVIOUS
<1> DEFINE U == {k \in 0..n : k \notin T}
<1>1. U \in SUBSET Nat /\ U # {}
  OBVIOUS
<1>2. PICK m \in U : \A k \in U : m <= k
  BY <1>1, LeastNatural
<1>3. m # 0 /\ m \in 0..n
  BY <1>2
<1>4. m - 1 \in 0..n /\ m - 1 \notin U /\ m = (m - 1) + 1
  BY <1>2, <1>3
<1>5. m \in T
  BY <1>4, <1>3
<1> QED BY <1>5, <1>2

\* f is what a counter of s shows up to n.
IsRunning(f, s, n) ==
    /\ f \in [0..n -> Nat]
    /\ f[0] = 0
    /\ \A i \in 1..n : f[i] = f[i - 1] + s[i]

\* What a counter shows is a number, and one figure more than it showed.
LEMMA RunningIs ==
    ASSUME NEW s \in Seq(Nat)
    PROVE  IsRunning(Running(s), s, Len(s))
<1> DEFINE T == {n \in Nat : n <= Len(s) => \E f \in [0..n -> Nat] : IsRunning(f, s, n)}
<1>1. 0 \in T
  <2>1. IsRunning([i \in 0..0 |-> 0], s, 0)
    BY DEF IsRunning
  <2> QED BY <2>1 DEF IsRunning
<1>2. ASSUME NEW k \in 0..Len(s), NEW m \in 0..Len(s), k \in T, m = k + 1
      PROVE  m \in T
  <2>1. k \in Nat /\ k <= Len(s) /\ m \in Nat /\ m \in 1..Len(s)
    BY <1>2, LenProperties
  <2>2. PICK f \in [0..k -> Nat] : IsRunning(f, s, k)
    BY <1>2, <2>1
  <2> DEFINE g == [i \in 0..m |-> IF i = m THEN f[k] + s[m] ELSE f[i]]
  <2>3. s[m] \in Nat
    BY <2>1, ElementOfSeq
  <2>4. g \in [0..m -> Nat] /\ g[0] = 0
    BY <1>2, <2>1, <2>2, <2>3 DEF IsRunning
  <2>5. ASSUME NEW i \in 1..m PROVE g[i] = g[i - 1] + s[i]
    <3>1. k \in Nat /\ m = k + 1 /\ i \in Nat /\ i - 1 \in 0..k
      BY <1>2, <2>1
    <3> HIDE DEF T
    <3>2. CASE i = m
      BY <3>1, <3>2
    <3>3. CASE i # m
      <4>1. i \in 1..k /\ f[i] = f[i - 1] + s[i]
        BY <2>2, <3>1, <3>3 DEF IsRunning
      <4> QED BY <3>1, <3>3, <4>1
    <3> QED BY <3>2, <3>3
  <2> HIDE DEF g
  <2>6. IsRunning(g, s, m)
    BY <2>4, <2>5 DEF IsRunning
  <2> QED BY <2>1, <2>4, <2>6
<1>3. Len(s) \in T
  BY <1>1, <1>2, Climb, LenProperties
<1>4. PICK f \in [0..Len(s) -> Nat] : IsRunning(f, s, Len(s))
  BY <1>3, LenProperties
<1>5. f = [n \in 0..Len(s) |-> IF n = 0 THEN 0 ELSE f[n - 1] + s[n]]
  BY <1>4, LenProperties DEF IsRunning
<1> DEFINE R == Running(s)
<1>6. R = CHOOSE g : g = [n \in 0..Len(s) |-> IF n = 0 THEN 0 ELSE g[n - 1] + s[n]]
  BY DEF Running
<1>7. R = [n \in 0..Len(s) |-> IF n = 0 THEN 0 ELSE R[n - 1] + s[n]]
  BY <1>5, <1>6
<1> HIDE DEF R
<1>8. R[0] = 0 /\ \A n \in 1..Len(s) : R[n] = R[n - 1] + s[n]
  BY <1>7, LenProperties
<1> DEFINE V == {n \in Nat : n <= Len(s) => R[n] \in Nat}
<1>9. 0 \in V
  BY <1>8
<1>10. ASSUME NEW k \in 0..Len(s), NEW m \in 0..Len(s), k \in V, m = k + 1
       PROVE  m \in V
  <2>1. k \in Nat /\ k <= Len(s) /\ m \in Nat /\ m \in 1..Len(s)
    BY <1>10, LenProperties
  <2>2. s[m] \in Nat
    BY <2>1, ElementOfSeq
  <2>3. R[m] = R[k] + s[m]
    BY <1>10, <2>1, <1>8
  <2> QED BY <1>10, <2>1, <2>2, <2>3
<1>11. ASSUME NEW n \in 0..Len(s) PROVE R[n] \in Nat
  <2>1. n \in Nat /\ 0..n \subseteq 0..Len(s)
    BY LenProperties
  <2>2. \A k, m \in 0..n : k \in V /\ m = k + 1 => m \in V
    BY <2>1, <1>10
  <2> HIDE DEF V
  <2>3. n \in V
    BY <1>9, <2>1, <2>2, Climb
  <2> QED BY <2>1, <2>3, LenProperties DEF V
<1>12. R \in [0..Len(s) -> Nat]
  BY <1>7, <1>11
<1> QED BY <1>8, <1>12 DEF IsRunning, R

\* The same, as the counts of a workbook use it.
LEMMA Counters ==
    ASSUME NEW s \in Seq(Nat)
    PROVE  /\ Running(s)[0] = 0
           /\ \A n \in 0..Len(s) : Running(s)[n] \in Nat
           /\ \A n \in 1..Len(s) :
                 s[n] \in Nat /\ Running(s)[n] = Running(s)[n - 1] + s[n]
           /\ Tally(s) = Running(s)[Len(s)] /\ Tally(s) \in Nat
<1>1. \A n \in 1..Len(s) : s[n] \in Nat
  BY ElementOfSeq
<1>2. Len(s) \in Nat /\ Len(s) \in 0..Len(s)
  BY LenProperties
<1> QED BY <1>1, <1>2, RunningIs DEF IsRunning, Tally

\* A counter never shows less than it did.
LEMMA CountersGrow ==
    ASSUME NEW s \in Seq(Nat), NEW i \in 0..Len(s), NEW j \in i..Len(s)
    PROVE  Running(s)[i] <= Running(s)[j]
<1> DEFINE T == {n \in Nat : i + n <= Len(s) => Running(s)[i] <= Running(s)[i + n]}
<1>1. i \in Nat /\ j \in Nat /\ Len(s) \in Nat /\ j - i \in Nat
  BY LenProperties
<1>2. 0 \in T
  BY <1>1, Counters
<1>3. ASSUME NEW k \in 0..(j - i), NEW m \in 0..(j - i), k \in T, m = k + 1
      PROVE  m \in T
  <2>1. k \in Nat /\ m \in Nat /\ i + k <= Len(s) /\ i + m \in 1..Len(s)
          /\ i + k = (i + m) - 1 /\ i + k \in 0..Len(s)
    BY <1>1, <1>3
  <2>2. Running(s)[i + m] = Running(s)[i + k] + s[i + m] /\ s[i + m] \in Nat
    BY <2>1, Counters
  <2>3. Running(s)[i + k] \in Nat /\ Running(s)[i] \in Nat
    BY <1>1, <2>1, Counters
  <2>4. Running(s)[i] <= Running(s)[i + k]
    BY <1>3, <2>1
  <2>5. Running(s)[i] <= Running(s)[i + m]
    BY <2>2, <2>3, <2>4
  <2> QED BY <2>1, <2>5
<1> HIDE DEF T
<1>4. j - i \in T
  BY <1>1, <1>2, <1>3, Climb
<1> QED BY <1>1, <1>4 DEF T

\* Two countings of the same figures show the same.
LEMMA CountersAgree ==
    ASSUME NEW s \in Seq(Nat), NEW t \in Seq(Nat),
           NEW n \in Nat, n <= Len(s), n <= Len(t),
           \A i \in 1..n : s[i] = t[i]
    PROVE  Running(s)[n] = Running(t)[n]
<1> DEFINE T == {k \in Nat : k <= n => Running(s)[k] = Running(t)[k]}
<1>1. Len(s) \in Nat /\ Len(t) \in Nat
  BY LenProperties
<1>2. 0 \in T
  BY Counters
<1>3. ASSUME NEW k \in 0..n, NEW m \in 0..n, k \in T, m = k + 1
      PROVE  m \in T
  <2>1. m \in Nat /\ m \in 1..n /\ m \in 1..Len(s) /\ m \in 1..Len(t) /\ k = m - 1
          /\ k \in Nat /\ k <= n
    BY <1>1, <1>3
  <2>2. Running(s)[m] = Running(s)[k] + s[m] /\ Running(t)[m] = Running(t)[k] + t[m]
    BY <2>1, Counters
  <2>3. Running(s)[m] = Running(t)[m]
    BY <1>3, <2>1, <2>2
  <2> QED BY <2>1, <2>3
<1> HIDE DEF T
<1>4. n \in T
  BY <1>2, <1>3, Climb
<1> QED BY <1>4 DEF T

\* A figure more is that much more in total.
LEMMA TallyOfAppend ==
    ASSUME NEW s \in Seq(Nat), NEW x \in Nat
    PROVE  Append(s, x) \in Seq(Nat) /\ Tally(Append(s, x)) = Tally(s) + x
<1> DEFINE t == Append(s, x)
<1>1. /\ t \in Seq(Nat) /\ Len(t) = Len(s) + 1 /\ Len(s) \in Nat
      /\ t[Len(t)] = x /\ \A i \in 1..Len(s) : t[i] = s[i]
  BY AppendProperties, LenProperties
<1> HIDE DEF t
<1>2. Running(t)[Len(s)] = Running(s)[Len(s)]
  <2>1. Len(s) <= Len(t) /\ Len(s) <= Len(s)
    BY <1>1
  <2> QED BY <1>1, <2>1, CountersAgree, Zenon
<1>3. Len(t) \in 1..Len(t) /\ Len(t) - 1 = Len(s)
  BY <1>1
<1>4. Running(t)[Len(t)] = Running(t)[Len(s)] + x
  BY <1>1, <1>3, Counters
<1> QED BY <1>1, <1>2, <1>4, Counters DEF t

\* One more in the last figure is one more in total.
LEMMA TallyOfOneMore ==
    ASSUME NEW s \in Seq(Nat), s # <<>>
    PROVE  LET t == [s EXCEPT ![Len(s)] = @ + 1]
           IN  t \in Seq(Nat) /\ Len(t) = Len(s) /\ Tally(t) = Tally(s) + 1
<1> DEFINE t == [s EXCEPT ![Len(s)] = @ + 1]
<1>1. Len(s) \in Nat \ {0} /\ Len(s) \in 1..Len(s) /\ s[Len(s)] \in Nat
  BY LenProperties, EmptySeq, ElementOfSeq
<1>2. t \in Seq(Nat) /\ Len(t) = Len(s)
  BY <1>1, ExceptSeq
<1>3. t[Len(s)] = s[Len(s)] + 1 /\ \A i \in 1..(Len(s) - 1) : t[i] = s[i]
  BY <1>1, LenProperties
<1> HIDE DEF t
<1>4. Running(t)[Len(s) - 1] = Running(s)[Len(s) - 1]
  <2>1. Len(s) - 1 \in Nat /\ Len(s) - 1 <= Len(s) /\ Len(s) - 1 <= Len(t)
    BY <1>1, <1>2
  <2> QED BY <1>2, <1>3, <2>1, CountersAgree, Zenon
<1>5. /\ Running(t)[Len(s)] = Running(t)[Len(s) - 1] + t[Len(s)]
      /\ Running(s)[Len(s)] = Running(s)[Len(s) - 1] + s[Len(s)]
      /\ Running(s)[Len(s) - 1] \in Nat
  BY <1>1, <1>2, Counters, SMTT(30)
<1>6. Tally(t) = Running(t)[Len(s)] /\ Tally(s) = Running(s)[Len(s)]
  BY <1>2, Counters
<1>7. Tally(t) = Tally(s) + 1
  BY <1>1, <1>3, <1>4, <1>5, <1>6
<1> QED BY <1>2, <1>7 DEF t

\* How many rows a sheet takes.
PerSheet == Limits.rowsPerSheet

\* The sheets of so many rows are full but for the last, which has some.
LEMMA FullSheets ==
    ASSUME NEW n \in Nat, n # 0
    PROVE  \E last \in 1..PerSheet :
              Sheets(n) \in Nat \ {0} /\ n = (Sheets(n) - 1) * PerSheet + last
<1>1. PerSheet \in Nat \ {0}
  BY LimitsAssumption DEF PerSheet
<1> DEFINE q == (n - 1) \div PerSheet
           r == (n - 1) % PerSheet
<1>2. q \in Nat /\ r \in 0..(PerSheet - 1) /\ n - 1 = PerSheet * q + r
  BY <1>1
<1>3. Sheets(n) = q + 1
  BY <1>2 DEF Sheets, PerSheet
<1>4. n = (Sheets(n) - 1) * PerSheet + (r + 1) /\ r + 1 \in 1..PerSheet
  BY <1>1, <1>2, <1>3
<1> QED BY <1>2, <1>3, <1>4

\* And there is only one way to fill them so.
LEMMA SheetsByLast ==
    ASSUME NEW k \in Nat \ {0}, NEW last \in 1..PerSheet, NEW n \in Nat,
           n = (k - 1) * PerSheet + last
    PROVE  Sheets(n) = k
<1>1. PerSheet \in Nat \ {0}
  BY LimitsAssumption DEF PerSheet
<1>2. (k - 1) * PerSheet \in Nat
  BY <1>1
<1>3. n # 0
  BY <1>2
<1>4. PICK end \in 1..PerSheet :
          Sheets(n) \in Nat \ {0} /\ n = (Sheets(n) - 1) * PerSheet + end
  BY <1>3, FullSheets
<1> DEFINE j == Sheets(n)
<1> HIDE DEF j
<1>5. j \in Nat /\ (j - 1) * PerSheet + end = (k - 1) * PerSheet + last
  BY <1>4 DEF j
<1>6. ASSUME j < k PROVE FALSE
  <2>1. PICK d \in Nat : k - 1 = (j - 1) + 1 + d
    BY <1>5, <1>6
  <2>2. (k - 1) * PerSheet = (j - 1) * PerSheet + PerSheet + d * PerSheet
    BY <1>1, <1>5, <2>1
  <2>3. d * PerSheet \in Nat
    BY <1>1
  <2> QED BY <1>1, <1>5, <2>2, <2>3
<1>7. ASSUME k < j PROVE FALSE
  <2>1. PICK d \in Nat : j - 1 = (k - 1) + 1 + d
    BY <1>5, <1>7
  <2>2. (j - 1) * PerSheet = (k - 1) * PerSheet + PerSheet + d * PerSheet
    BY <1>1, <1>5, <2>1
  <2>3. d * PerSheet \in Nat
    BY <1>1
  <2> QED BY <1>1, <1>5, <2>2, <2>3
<1> QED BY <1>5, <1>6, <1>7 DEF j

-----------------------------------------------------------------------------
(* Sequences *)

\* A function on the first places is a sequence.
LEMMA FunctionIsSeq ==
    ASSUME NEW S, NEW m \in Nat, NEW f \in [1..m -> S]
    PROVE  f \in Seq(S) /\ DOMAIN f = 1..m
<1>1. f = [i \in 1..m |-> f[i]] /\ \A i \in 1..m : f[i] \in S
  OBVIOUS
<1> QED BY <1>1, IsASeq

\* Tuples are sequences of what is in them.
LEMMA TupleOfOne == ASSUME NEW a PROVE <<a>> \in Seq({a}) /\ Range(<<a>>) = {a}
BY DEF Range

\* No two places of s show the same.
OnlyOnce(s) == \A k, l \in DOMAIN s : s[k] = s[l] => k = l

\* There are n numbers from 1 to n.
LEMMA CountedUp ==
    ASSUME NEW n \in Nat
    PROVE  IsFiniteSet(1..n) /\ Cardinality(1..n) = n
<1>1. 1 \in Int /\ n \in Int /\ 1 <= n + 1
  OBVIOUS
<1>2. IsFiniteSet(1..n) /\ Cardinality(1..n) = IF 1 > n THEN 0 ELSE n - 1 + 1
  BY <1>1, FS_Interval
<1> QED BY <1>2

\* A sequence shows as many things as it has places when none is shown twice.
LEMMA OnceIsCounted ==
    ASSUME NEW S, NEW s \in Seq(S)
    PROVE  /\ IsFiniteSet(Range(s))
           /\ OnlyOnce(s) <=> Cardinality(Range(s)) = Len(s)
<1> DEFINE n == Len(s)
<1>1. n \in Nat /\ DOMAIN s = 1..n /\ s \in [1..n -> Range(s)]
  BY LenProperties DEF Range
<1>2. IsFiniteSet(1..n) /\ Cardinality(1..n) = n
  BY <1>1, CountedUp
<1>3. s \in Surjection(1..n, Range(s))
  BY <1>1 DEF Surjection, Range
<1>4. /\ IsFiniteSet(Range(s))
      /\ Cardinality(Range(s)) = Cardinality(1..n) <=> s \in Injection(1..n, Range(s))
  BY <1>2, <1>3, FS_Surjection
<1>5. s \in Injection(1..n, Range(s)) <=> OnlyOnce(s)
  BY <1>1 DEF Injection, IsInjective, OnlyOnce
<1> QED BY <1>2, <1>4, <1>5

-----------------------------------------------------------------------------
(* The invariant *)

\* A table of BooksAssumption.
TableShape == [columns : Nat, rows : Seq(Seq(Nat))]

\* What preflight counts of each table.
RowCounts(tables) == [i \in DOMAIN tables |-> RowsOf(tables[i])]
CellCounts(tables) == [i \in DOMAIN tables |-> CellsOf(tables[i])]
TextCounts(tables) == [i \in DOMAIN tables |-> TextOf(tables[i])]
SheetCounts(tables) == [i \in DOMAIN tables |-> SheetsOf(tables[i])]

\* What a writer is.
WriterRecord ==
    [at : {"received", "table", "row", "done"}, table : Nat, row : Nat,
     onSheet : Nat, sheets : Seq(Nat), rows : Nat, cells : Nat, text : Nat,
     outcome : {"none", "rendered", "refused", "timeout",
                "template_render_failed", "package_validation_failed"}]

\* A row that no limit of a row or a cell refuses.
RowFits(table, r) ==
    /\ Len(table.rows[r]) = table.columns
    /\ \A size \in Range(table.rows[r]) : size # Control /\ size <= Limits.cell

\* The writer counted the tables before this one whole, and of this one the
\* headers of its sheets and the rows written.
Counted(w, tables) ==
    LET before == w.table - 1
        table == tables[w.table]
        opened == Sheets(w.row)
    IN  /\ w.rows = Running(RowCounts(tables))[before] + w.row
        /\ w.cells = Running(CellCounts(tables))[before]
                        + table.columns * (opened + w.row)
        /\ w.text = Running(TextCounts(tables))[before]
                        + table.columns * opened + Running(RowTexts(table))[w.row]
        /\ Len(w.sheets) = Running(SheetCounts(tables))[before] + opened

\* Sheets are filled one after the other and hold every row written.
Partitioned(w) ==
    /\ w.row = (Sheets(w.row) - 1) * PerSheet + w.onSheet
    /\ w.onSheet \in 0..PerSheet /\ (w.row # 0 => w.onSheet # 0)
    /\ w.sheets # <<>> /\ w.sheets[Len(w.sheets)] = w.onSheet
    /\ Tally(w.sheets) = w.rows
    /\ \A i \in DOMAIN w.sheets : w.sheets[i] <= PerSheet

\* What was written was checked.
Checked(w, tables) ==
    /\ \A i \in 1..w.table : tables[i].columns \in 1..Limits.columns
    /\ \A i \in 1..(w.table - 1) : \A r \in DOMAIN tables[i].rows : RowFits(tables[i], r)
    /\ \A r \in 1..w.row : RowFits(tables[w.table], r)

\* All of it, once a table was begun.
Written(w, tables) ==
    /\ w.table \in 0..Len(tables)
    /\ IF w.table = 0 THEN w = [Nothing EXCEPT !.at = w.at, !.outcome = w.outcome]
       ELSE /\ w.row \in 0..Len(tables[w.table].rows)
            /\ Counted(w, tables) /\ Partitioned(w) /\ Checked(w, tables)

\* The last row of the last table is written.
AtTheEnd ==
    /\ writer.table # 0
    /\ writer.table = Len(book.tables) /\ writer.row = Len(Table.rows)

\* What the engine relies on from one step to the next.
RenderInv ==
    /\ book \in Books /\ temporary \in BOOLEAN /\ writer \in WriterRecord
    /\ Written(writer, book.tables) /\ Within(writer)
    /\ writer.at = "received" => writer.table = 0
    /\ writer.at = "row" => writer.table # 0
    /\ writer.at = "table" /\ writer.table # 0 => writer.row = Len(Table.rows)
    /\ (writer.at \in {"table", "row"} \/ writer.outcome = "rendered")
         /\ book.version \in Preflighted =>
          ~PreflightRefuses(book)
    /\ writer.at # "done" => writer.outcome = "none"
    /\ writer.at = "done" => ~temporary
    /\ writer.outcome = "rendered" => AtTheEnd
    /\ writer.outcome = "refused" /\ book.version \in Preflighted /\ writer.sheets # <<>> =>
          AtTheEnd

\* More rows never need fewer sheets, and no table is without one.
LEMMA SheetsOfMore ==
    ASSUME NEW n \in Nat, NEW m \in Nat, n <= m
    PROVE  Sheets(n) \in Nat \ {0} /\ Sheets(m) \in Nat \ {0} /\ Sheets(n) <= Sheets(m)
<1>1. PerSheet \in Nat \ {0}
  BY LimitsAssumption DEF PerSheet
<1>2. Sheets(0) = 1
  BY DEF Sheets
<1>3. CASE n = 0
  <2>1. CASE m = 0
    BY <1>2, <1>3, <2>1
  <2>2. CASE m # 0
    BY <1>2, <1>3, <2>2, FullSheets
  <2> QED BY <2>1, <2>2
<1>4. CASE n # 0
  <2>1. m # 0
    BY <1>4
  <2>2. PICK last \in 1..PerSheet :
            Sheets(n) \in Nat \ {0} /\ n = (Sheets(n) - 1) * PerSheet + last
    BY <1>4, FullSheets
  <2>3. PICK end \in 1..PerSheet :
            Sheets(m) \in Nat \ {0} /\ m = (Sheets(m) - 1) * PerSheet + end
    BY <2>1, FullSheets
  <2> DEFINE j == Sheets(n)  k == Sheets(m)
  <2> HIDE DEF j, k
  <2>4. j \in Nat /\ k \in Nat /\ n = (j - 1) * PerSheet + last /\ m = (k - 1) * PerSheet + end
    BY <2>2, <2>3 DEF j, k
  <2>5. ASSUME k < j PROVE FALSE
    <3>1. PICK d \in Nat : j - 1 = (k - 1) + 1 + d
      BY <2>4, <2>5
    <3>2. (j - 1) * PerSheet = (k - 1) * PerSheet + PerSheet + d * PerSheet
      BY <1>1, <2>4, <3>1
    <3>3. d * PerSheet \in Nat
      BY <1>1
    <3> QED BY <1>1, <2>4, <3>2, <3>3
  <2> QED BY <2>2, <2>3, <2>4, <2>5 DEF j, k
<1> QED BY <1>3, <1>4

\* A table has a sheet, whatever its rows.
LEMMA SheetsAreCounted == \A n \in Nat : Sheets(n) \in Nat \ {0}
<1> SUFFICES ASSUME NEW n \in Nat PROVE Sheets(n) \in Nat \ {0}
  OBVIOUS
<1>1. n <= n
  OBVIOUS
<1> QED BY <1>1, SheetsOfMore

\* The texts of a table's rows are numbers.
LEMMA RowTextsAreCounts ==
    ASSUME NEW table \in TableShape
    PROVE  /\ RowTexts(table) \in Seq(Nat) /\ Len(RowTexts(table)) = Len(table.rows)
           /\ \A r \in 1..Len(table.rows) :
                 /\ table.rows[r] \in Seq(Nat)
                 /\ RowTexts(table)[r] = RowText(table.rows[r])
           /\ Len(table.rows) \in Nat /\ table.columns \in Nat /\ TableText(table) \in Nat
<1>1. table.rows \in Seq(Seq(Nat)) /\ table.columns \in Nat
  BY DEF TableShape
<1>2. DOMAIN table.rows = 1..Len(table.rows) /\ Len(table.rows) \in Nat
  BY <1>1, LenProperties
<1>3. \A r \in 1..Len(table.rows) : table.rows[r] \in Seq(Nat)
  BY <1>1, ElementOfSeq
<1>4. \A r \in 1..Len(table.rows) : RowText(table.rows[r]) \in Nat
  BY <1>3, Counters DEF RowText
<1>5. RowTexts(table) \in Seq(Nat) /\ Len(RowTexts(table)) = Len(table.rows)
  BY <1>2, <1>4 DEF RowTexts
<1>6. TableText(table) \in Nat
  BY <1>5, Counters DEF TableText
<1> QED BY <1>1, <1>2, <1>3, <1>5, <1>6 DEF RowTexts

\* So are the four figures preflight adds up, one for each table.
LEMMA Tallies ==
    ASSUME NEW tables \in Seq(TableShape)
    PROVE  /\ RowCounts(tables) \in Seq(Nat) /\ Len(RowCounts(tables)) = Len(tables)
           /\ CellCounts(tables) \in Seq(Nat) /\ Len(CellCounts(tables)) = Len(tables)
           /\ TextCounts(tables) \in Seq(Nat) /\ Len(TextCounts(tables)) = Len(tables)
           /\ SheetCounts(tables) \in Seq(Nat) /\ Len(SheetCounts(tables)) = Len(tables)
           /\ \A i \in 1..Len(tables) :
                 /\ tables[i] \in TableShape
                 /\ RowCounts(tables)[i] = RowsOf(tables[i])
                 /\ CellCounts(tables)[i] = CellsOf(tables[i])
                 /\ TextCounts(tables)[i] = TextOf(tables[i])
                 /\ SheetCounts(tables)[i] = SheetsOf(tables[i])
           /\ Len(tables) \in Nat
<1>1. DOMAIN tables = 1..Len(tables) /\ Len(tables) \in Nat
  BY LenProperties
<1>2. ASSUME NEW i \in 1..Len(tables)
      PROVE  /\ tables[i] \in TableShape
             /\ RowsOf(tables[i]) \in Nat /\ CellsOf(tables[i]) \in Nat
             /\ TextOf(tables[i]) \in Nat /\ SheetsOf(tables[i]) \in Nat
  <2>1. tables[i] \in TableShape
    BY ElementOfSeq
  <2>2. /\ Len(tables[i].rows) \in Nat /\ tables[i].columns \in Nat
        /\ TableText(tables[i]) \in Nat
    BY <2>1, RowTextsAreCounts
  <2>3. Sheets(Len(tables[i].rows)) \in Nat
    BY <2>2, SheetsAreCounted
  <2>4. /\ tables[i].columns * (Sheets(Len(tables[i].rows)) + Len(tables[i].rows)) \in Nat
        /\ tables[i].columns * Sheets(Len(tables[i].rows)) \in Nat
    <3>1. \A a, b, c \in Nat : a * (b + c) \in Nat /\ a * b \in Nat
      OBVIOUS
    <3> QED BY <2>2, <2>3, <3>1, ZenonT(30)
  <2> QED BY <2>1, <2>2, <2>3, <2>4 DEF RowsOf, CellsOf, TextOf, SheetsOf
<1>3. RowCounts(tables) \in Seq(Nat) /\ Len(RowCounts(tables)) = Len(tables)
  BY <1>1, <1>2 DEF RowCounts
<1>4. CellCounts(tables) \in Seq(Nat) /\ Len(CellCounts(tables)) = Len(tables)
  BY <1>1, <1>2 DEF CellCounts
<1>5. TextCounts(tables) \in Seq(Nat) /\ Len(TextCounts(tables)) = Len(tables)
  BY <1>1, <1>2 DEF TextCounts
<1>6. SheetCounts(tables) \in Seq(Nat) /\ Len(SheetCounts(tables)) = Len(tables)
  BY <1>1, <1>2 DEF SheetCounts
<1> QED BY <1>1, <1>2, <1>3, <1>4, <1>5, <1>6
           DEF RowCounts, CellCounts, TextCounts, SheetCounts

-----------------------------------------------------------------------------
(* The two countings *)

\* A table written to its end is counted as preflight counts it.
LEMMA WholeTables ==
    ASSUME NEW tables \in Seq(TableShape), NEW t \in 1..Len(tables)
    PROVE  LET table == tables[t]
               n == Len(table.rows)
           IN  /\ Running(RowCounts(tables))[t] = Running(RowCounts(tables))[t - 1] + n
               /\ Running(CellCounts(tables))[t]
                    = Running(CellCounts(tables))[t - 1] + table.columns * (Sheets(n) + n)
               /\ Running(TextCounts(tables))[t]
                    = Running(TextCounts(tables))[t - 1] + table.columns * Sheets(n)
                        + Running(RowTexts(table))[n]
               /\ Running(SheetCounts(tables))[t]
                    = Running(SheetCounts(tables))[t - 1] + Sheets(n)
               /\ Running(RowCounts(tables))[t - 1] \in Nat
               /\ Running(CellCounts(tables))[t - 1] \in Nat
               /\ Running(TextCounts(tables))[t - 1] \in Nat
               /\ Running(SheetCounts(tables))[t - 1] \in Nat
<1> DEFINE table == tables[t]  n == Len(table.rows)
<1>1. t \in Nat /\ t - 1 \in 0..Len(tables) /\ Len(tables) \in Nat /\ table \in TableShape
  BY SMTT(30), Tallies
<1>a. /\ RowCounts(tables) \in Seq(Nat) /\ t \in 1..Len(RowCounts(tables))
      /\ CellCounts(tables) \in Seq(Nat) /\ t \in 1..Len(CellCounts(tables))
      /\ TextCounts(tables) \in Seq(Nat) /\ t \in 1..Len(TextCounts(tables))
      /\ SheetCounts(tables) \in Seq(Nat) /\ t \in 1..Len(SheetCounts(tables))
      /\ RowCounts(tables)[t] = RowsOf(table) /\ CellCounts(tables)[t] = CellsOf(table)
      /\ TextCounts(tables)[t] = TextOf(table) /\ SheetCounts(tables)[t] = SheetsOf(table)
  BY Tallies
<1>b. ASSUME NEW s \in Seq(Nat), t \in 1..Len(s)
      PROVE  Running(s)[t] = Running(s)[t - 1] + s[t] /\ Running(s)[t - 1] \in Nat
  <2>1. t - 1 \in 0..Len(s)
    BY <1>b, LenProperties
  <2> QED BY <1>b, <2>1, Counters
<1>2. Running(RowCounts(tables))[t] = Running(RowCounts(tables))[t - 1] + RowsOf(table)
        /\ Running(RowCounts(tables))[t - 1] \in Nat
  BY <1>a, <1>b
<1>3. Running(CellCounts(tables))[t] = Running(CellCounts(tables))[t - 1] + CellsOf(table)
        /\ Running(CellCounts(tables))[t - 1] \in Nat
  BY <1>a, <1>b
<1>4. Running(TextCounts(tables))[t] = Running(TextCounts(tables))[t - 1] + TextOf(table)
        /\ Running(TextCounts(tables))[t - 1] \in Nat
  BY <1>a, <1>b
<1>5. Running(SheetCounts(tables))[t] = Running(SheetCounts(tables))[t - 1] + SheetsOf(table)
        /\ Running(SheetCounts(tables))[t - 1] \in Nat
  BY <1>a, <1>b
<1>6. /\ n \in Nat /\ table.columns \in Nat /\ Sheets(n) \in Nat
      /\ TableText(table) = Running(RowTexts(table))[n] /\ TableText(table) \in Nat
  BY <1>1, RowTextsAreCounts, SheetsAreCounted, Counters DEF TableText
<1>7. table.columns * Sheets(n) \in Nat
  BY <1>6
<1> HIDE DEF table, n
<1>8. /\ RowsOf(table) = n /\ CellsOf(table) = table.columns * (Sheets(n) + n)
      /\ TextOf(table) = table.columns * Sheets(n) + TableText(table)
      /\ SheetsOf(table) = Sheets(n)
  BY DEF RowsOf, CellsOf, TextOf, SheetsOf, n
<1>9. Running(TextCounts(tables))[t]
        = Running(TextCounts(tables))[t - 1] + table.columns * Sheets(n)
            + Running(RowTexts(table))[n]
  BY SMTT(30), <1>4, <1>6, <1>7, <1>8
<1> QED BY <1>2, <1>3, <1>4, <1>5, <1>8, <1>9 DEF table, n

\* What is written of a table is no more than what is counted of all of them.
LEMMA PartOfTheWhole ==
    ASSUME NEW tables \in Seq(TableShape), NEW t \in 1..Len(tables),
           NEW n \in 0..Len(tables[t].rows)
    PROVE  LET table == tables[t] IN
           /\ Running(RowCounts(tables))[t - 1] + n <= Tally(RowCounts(tables))
           /\ Running(CellCounts(tables))[t - 1] + table.columns * (Sheets(n) + n)
                <= Tally(CellCounts(tables))
           /\ Running(TextCounts(tables))[t - 1] + table.columns * Sheets(n)
                + Running(RowTexts(table))[n] <= Tally(TextCounts(tables))
           /\ Running(SheetCounts(tables))[t - 1] + Sheets(n)
                <= Tally(SheetCounts(tables))
<1> DEFINE table == tables[t]  all == Len(table.rows)
<1>1. t \in Nat /\ t \in 0..Len(tables) /\ Len(tables) \in t..Len(tables) /\ Len(tables) \in Nat
        /\ table \in TableShape
  BY Tallies
<1>2. /\ all \in Nat /\ n \in Nat /\ n <= all /\ all \in n..all /\ table.columns \in Nat
      /\ RowTexts(table) \in Seq(Nat) /\ Len(RowTexts(table)) = all
  BY <1>1, RowTextsAreCounts
<1>3. Sheets(n) \in Nat /\ Sheets(all) \in Nat /\ Sheets(n) <= Sheets(all)
  BY <1>2, SheetsOfMore
<1>4. /\ Running(RowTexts(table))[n] <= Running(RowTexts(table))[all]
      /\ Running(RowTexts(table))[n] \in Nat /\ Running(RowTexts(table))[all] \in Nat
  <2>1. all \in 0..all
    BY <1>2
  <2> QED BY <1>2, <2>1, CountersGrow, Counters
<1>5. /\ Running(RowCounts(tables))[t] <= Tally(RowCounts(tables))
      /\ Running(CellCounts(tables))[t] <= Tally(CellCounts(tables))
      /\ Running(TextCounts(tables))[t] <= Tally(TextCounts(tables))
      /\ Running(SheetCounts(tables))[t] <= Tally(SheetCounts(tables))
  BY <1>1, Tallies, CountersGrow DEF Tally
<1>6. /\ Tally(RowCounts(tables)) \in Nat /\ Tally(CellCounts(tables)) \in Nat
      /\ Tally(TextCounts(tables)) \in Nat /\ Tally(SheetCounts(tables)) \in Nat
  BY Tallies, Counters
<1> DEFINE a == Running(RowCounts(tables))[t - 1]
           b == Running(CellCounts(tables))[t - 1]
           c == Running(TextCounts(tables))[t - 1]
           d == Running(SheetCounts(tables))[t - 1]
           part == table.columns * Sheets(n)
           parts == table.columns * (Sheets(n) + n)
           whole == table.columns * Sheets(all)
           wholes == table.columns * (Sheets(all) + all)
<1>7. /\ a \in Nat /\ b \in Nat /\ c \in Nat /\ d \in Nat
      /\ a + all <= Tally(RowCounts(tables))
      /\ b + wholes <= Tally(CellCounts(tables))
      /\ c + whole + Running(RowTexts(table))[all] <= Tally(TextCounts(tables))
      /\ d + Sheets(all) <= Tally(SheetCounts(tables))
  BY <1>5, WholeTables
<1>8. /\ parts <= wholes /\ parts \in Nat /\ wholes \in Nat
      /\ part <= whole /\ part \in Nat /\ whole \in Nat
  <2>1. \A x, y, z \in Nat : y <= z => x * y <= x * z /\ x * y \in Nat /\ x * z \in Nat
    OBVIOUS
  <2>2. Sheets(n) + n \in Nat /\ Sheets(all) + all \in Nat /\ Sheets(n) + n <= Sheets(all) + all
    BY <1>2, <1>3
  <2> HIDE DEF table, all
  <2> QED BY <2>1, <2>2, <1>2, <1>3
<1> HIDE DEF table, all, a, b, c, d, part, parts, whole, wholes
<1>9. /\ a + n <= Tally(RowCounts(tables))
      /\ d + Sheets(n) <= Tally(SheetCounts(tables))
  BY SMTT(30), <1>2, <1>3, <1>6, <1>7
<1>10. b + parts <= Tally(CellCounts(tables))
  BY <1>6, <1>7, <1>8
<1>11. c + part + Running(RowTexts(table))[n] <= Tally(TextCounts(tables))
  BY SMTT(30), <1>4, <1>6, <1>7, <1>8
<1> QED BY <1>9, <1>10, <1>11 DEF table, all, a, b, c, d, part, parts

\* Every table and row is one the writer would write.
Fits(tables) ==
    \A i \in 1..Len(tables) :
       /\ tables[i].columns \in 1..Limits.columns
       /\ \A r \in DOMAIN tables[i].rows : RowFits(tables[i], r)

\* What preflight admits: every row fits, and every total is within its limit.
LEMMA PreflightPasses ==
    ASSUME NEW tables \in Seq(TableShape)
    PROVE  ~TablesRefused(tables) <=>
              /\ Fits(tables)
              /\ Tally(RowCounts(tables)) <= Limits.rows
              /\ Tally(CellCounts(tables)) <= Limits.cells
              /\ Tally(TextCounts(tables)) <= Limits.text
              /\ Tally(SheetCounts(tables)) <= Limits.sheets
<1>1. /\ Tally(RowCounts(tables)) \in Nat /\ Tally(CellCounts(tables)) \in Nat
      /\ Tally(TextCounts(tables)) \in Nat /\ Tally(SheetCounts(tables)) \in Nat
  BY Tallies, Counters
<1>2. /\ Limits.rows \in Nat /\ Limits.cells \in Nat /\ Limits.text \in Nat
      /\ Limits.sheets \in Nat /\ Limits.cell \in Nat
  BY LimitsAssumption
<1>3. /\ SumOver(tables, RowsOf) = Tally(RowCounts(tables))
      /\ SumOver(tables, CellsOf) = Tally(CellCounts(tables))
      /\ SumOver(tables, TextOf) = Tally(TextCounts(tables))
      /\ SumOver(tables, SheetsOf) = Tally(SheetCounts(tables))
  BY DEF SumOver, RowCounts, CellCounts, TextCounts, SheetCounts
<1>4. DOMAIN tables = 1..Len(tables)
  BY LenProperties
<1> DEFINE Ragged == \E i \in DOMAIN tables :
                        \/ tables[i].columns \notin 1..Limits.columns
                        \/ \E row \in Range(tables[i].rows) : Len(row) # tables[i].columns
           Bad == \E size \in AllCells(tables) : size = Control \/ size > Limits.cell
<1>5. \A size \in AllCells(tables) : size \in Nat
  <2> SUFFICES ASSUME NEW i \in DOMAIN tables, NEW r \in DOMAIN tables[i].rows,
                      NEW c \in DOMAIN tables[i].rows[r]
               PROVE  tables[i].rows[r][c] \in Nat
    BY DEF AllCells, AllRows, Range
  <2>1. tables[i] \in TableShape
    BY <1>4, ElementOfSeq
  <2>2. tables[i].rows \in Seq(Seq(Nat))
    BY <2>1 DEF TableShape
  <2>3. tables[i].rows[r] \in Seq(Nat)
    BY <2>2, LenProperties, ElementOfSeq
  <2> QED BY <2>3, LenProperties, ElementOfSeq
<1>6. ~Ragged /\ ~Bad <=> Fits(tables)
  <2>1. ASSUME ~Ragged, ~Bad, NEW i \in 1..Len(tables)
        PROVE  /\ tables[i].columns \in 1..Limits.columns
               /\ \A r \in DOMAIN tables[i].rows : RowFits(tables[i], r)
    <3>1. tables[i].columns \in 1..Limits.columns
      BY <1>4, <2>1
    <3>2. ASSUME NEW r \in DOMAIN tables[i].rows PROVE RowFits(tables[i], r)
      <4>1. tables[i].rows[r] \in Range(tables[i].rows)
        BY DEF Range
      <4>2. Len(tables[i].rows[r]) = tables[i].columns
        BY <1>4, <2>1, <4>1
      <4>3. ASSUME NEW size \in Range(tables[i].rows[r])
            PROVE  size # Control /\ size <= Limits.cell
        <5>1. size \in AllCells(tables)
          BY <1>4, <4>1 DEF AllCells, AllRows
        <5>2. size # Control /\ ~(size > Limits.cell) /\ size \in Nat
          BY <1>5, <2>1, <5>1
        <5> QED BY <1>2, <5>2
      <4> QED BY <4>2, <4>3 DEF RowFits
    <3> QED BY <3>1, <3>2
  <2>2. ASSUME Fits(tables) PROVE ~Ragged
    BY <1>4, <2>2 DEF Fits, RowFits, Range
  <2>3. ASSUME Fits(tables), NEW size \in AllCells(tables)
        PROVE  size # Control /\ ~(size > Limits.cell)
    <3>1. PICK i \in DOMAIN tables : \E r \in DOMAIN tables[i].rows :
                                        size \in Range(tables[i].rows[r])
      BY DEF AllCells, AllRows, Range
    <3>2. PICK r \in DOMAIN tables[i].rows : size \in Range(tables[i].rows[r])
      BY <3>1
    <3>3. size # Control /\ size <= Limits.cell /\ size \in Nat
      BY <1>4, <1>5, <2>3, <3>2 DEF Fits, RowFits
    <3> QED BY <1>2, <3>3
  <2> HIDE DEF Ragged
  <2>4. ~Ragged /\ ~Bad => Fits(tables)
    BY <2>1 DEF Fits
  <2> QED BY <2>2, <2>3, <2>4
<1> HIDE DEF Ragged, Bad
<1>7. TablesRefused(tables) <=>
          \/ Ragged \/ Bad
          \/ Tally(RowCounts(tables)) > Limits.rows
          \/ Tally(CellCounts(tables)) > Limits.cells
          \/ Tally(TextCounts(tables)) > Limits.text
          \/ Tally(SheetCounts(tables)) > Limits.sheets
  BY <1>3, Zenon DEF TablesRefused, Ragged, Bad
<1> QED BY SMTT(30), <1>1, <1>2, <1>6, <1>7

\* What is written of a workbook that preflight admits is within the limits.
LEMMA WrittenIsWithin ==
    ASSUME NEW tables \in Seq(TableShape), ~TablesRefused(tables),
           NEW w \in WriterRecord, w.table # 0, Written(w, tables)
    PROVE  Within(w)
<1> DEFINE t == w.table  n == w.row
<1>1. t \in 1..Len(tables) /\ n \in 0..Len(tables[t].rows) /\ Counted(w, tables)
  BY Tallies DEF Written, WriterRecord
<1>2. /\ Limits.rows \in Nat /\ Limits.cells \in Nat /\ Limits.text \in Nat
      /\ Limits.sheets \in Nat
  BY LimitsAssumption
<1>3. /\ Tally(RowCounts(tables)) \in Nat /\ Tally(CellCounts(tables)) \in Nat
      /\ Tally(TextCounts(tables)) \in Nat /\ Tally(SheetCounts(tables)) \in Nat
  BY Tallies, Counters
<1>4. /\ Tally(RowCounts(tables)) <= Limits.rows
      /\ Tally(CellCounts(tables)) <= Limits.cells
      /\ Tally(TextCounts(tables)) <= Limits.text
      /\ Tally(SheetCounts(tables)) <= Limits.sheets
  BY PreflightPasses
<1>5. /\ w.rows <= Tally(RowCounts(tables)) /\ w.cells <= Tally(CellCounts(tables))
      /\ w.text <= Tally(TextCounts(tables)) /\ Len(w.sheets) <= Tally(SheetCounts(tables))
  BY <1>1, PartOfTheWhole, Zenon DEF Counted
<1>6. w.rows \in Nat /\ w.cells \in Nat /\ w.text \in Nat /\ Len(w.sheets) \in Nat
  BY LenProperties DEF WriterRecord
<1>7. \A x, y, z \in Nat : x <= y /\ y <= z => x <= z
  OBVIOUS
<1>8. w.rows <= Limits.rows /\ w.cells <= Limits.cells
  BY <1>2, <1>3, <1>4, <1>5, <1>6, <1>7, Zenon
<1>9. w.text <= Limits.text /\ Len(w.sheets) <= Limits.sheets
  BY <1>2, <1>3, <1>4, <1>5, <1>6, <1>7, Zenon
<1> QED BY <1>8, <1>9, Zenon DEF Within

\* The counters after the tables there are no rows left of.
LEMMA BetweenTables ==
    ASSUME NEW tables \in Seq(TableShape), NEW w \in WriterRecord, Written(w, tables),
           w.table # 0 => w.row = Len(tables[w.table].rows)
    PROVE  /\ w.rows = Running(RowCounts(tables))[w.table]
           /\ w.cells = Running(CellCounts(tables))[w.table]
           /\ w.text = Running(TextCounts(tables))[w.table]
           /\ Len(w.sheets) = Running(SheetCounts(tables))[w.table]
           /\ Tally(w.sheets) = w.rows
           /\ \A i \in 1..w.table :
                 /\ tables[i].columns \in 1..Limits.columns
                 /\ \A r \in DOMAIN tables[i].rows : RowFits(tables[i], r)
<1> DEFINE t == w.table
<1>1. CASE t = 0
  <2>1. w.rows = 0 /\ w.cells = 0 /\ w.text = 0 /\ w.sheets = <<>>
    BY <1>1 DEF Written, Nothing
  <2>2. <<>> \in Seq(Nat) /\ Len(<<>>) = 0
    BY EmptySeq
  <2>3. Tally(w.sheets) = 0
    BY <2>1, <2>2, Counters
  <2>4. /\ Running(RowCounts(tables))[0] = 0 /\ Running(CellCounts(tables))[0] = 0
        /\ Running(TextCounts(tables))[0] = 0 /\ Running(SheetCounts(tables))[0] = 0
    BY Tallies, Counters
  <2> QED BY <1>1, <2>1, <2>2, <2>3, <2>4
<1>2. CASE t # 0
  <2>1. t \in 1..Len(tables) /\ w.row = Len(tables[t].rows) /\ t \in Nat
    BY <1>2, Tallies DEF Written, WriterRecord
  <2>2. Counted(w, tables) /\ Partitioned(w) /\ Checked(w, tables)
    BY <1>2 DEF Written
  <2>3. /\ w.rows = Running(RowCounts(tables))[t]
        /\ w.cells = Running(CellCounts(tables))[t]
        /\ w.text = Running(TextCounts(tables))[t]
        /\ Len(w.sheets) = Running(SheetCounts(tables))[t]
    BY <2>1, <2>2, WholeTables, Zenon DEF Counted
  <2>4. ASSUME NEW i \in 1..t, NEW r \in DOMAIN tables[i].rows
        PROVE  RowFits(tables[i], r)
    <3>1. CASE i = t
      <4>1. tables[t] \in TableShape
        BY <2>1, Tallies
      <4>2. r \in 1..w.row
        BY <2>1, <3>1, <4>1, LenProperties DEF TableShape
      <4> QED BY <2>2, <3>1, <4>2 DEF Checked
    <3>2. CASE i # t
      <4>1. i \in 1..(t - 1)
        BY <2>1, <3>2
      <4> QED BY <2>2, <4>1 DEF Checked
    <3> QED BY <3>1, <3>2
  <2> QED BY <2>2, <2>3, <2>4 DEF Checked, Partitioned
<1> QED BY <1>1, <1>2

-----------------------------------------------------------------------------
(* One sheet or row more *)

\* The first sheet of a table keeps the invariant of what is written.
LEMMA OpeningATable ==
    ASSUME NEW tables \in Seq(TableShape), NEW w \in WriterRecord, Written(w, tables),
           w.table # 0 => w.row = Len(tables[w.table].rows),
           NEW t \in 1..Len(tables), t = w.table + 1,
           NEW table, table = tables[t], table.columns \in 1..Limits.columns,
           NEW o,
           o = Opened([w EXCEPT !.table = @ + 1, !.row = 0, !.at = "row"], table)
    PROVE  o \in WriterRecord /\ Written(o, tables)
<1>0. w.table \in Nat /\ Len(tables) \in Nat
  BY Tallies DEF WriterRecord
<1>1. /\ t \in Nat /\ t # 0 /\ t - 1 = w.table
      /\ table \in TableShape /\ table.columns \in Nat /\ Len(table.rows) \in Nat
  <2>1. table \in TableShape
    BY Tallies
  <2>2. table.columns \in Nat /\ Len(table.rows) \in Nat
    BY <2>1, RowTextsAreCounts
  <2>3. t \in Nat /\ t # 0 /\ t - 1 = w.table
    BY <1>0
  <2> QED BY <2>1, <2>2, <2>3
<1>2. /\ w.sheets \in Seq(Nat) /\ w.rows \in Nat /\ w.cells \in Nat /\ w.text \in Nat
  BY DEF WriterRecord
<1>3. /\ Append(w.sheets, 0) \in Seq(Nat) /\ Len(Append(w.sheets, 0)) = Len(w.sheets) + 1
      /\ Append(w.sheets, 0)[Len(w.sheets) + 1] = 0
      /\ \A i \in 1..Len(w.sheets) : Append(w.sheets, 0)[i] = w.sheets[i]
      /\ Tally(Append(w.sheets, 0)) = Tally(w.sheets)
      /\ Len(w.sheets) \in Nat /\ Tally(w.sheets) \in Nat
  <2>1. /\ Append(w.sheets, 0) \in Seq(Nat) /\ Len(Append(w.sheets, 0)) = Len(w.sheets) + 1
        /\ Append(w.sheets, 0)[Len(w.sheets) + 1] = 0
        /\ \A i \in 1..Len(w.sheets) : Append(w.sheets, 0)[i] = w.sheets[i]
        /\ Len(w.sheets) \in Nat
    BY <1>2, AppendProperties, LenProperties
  <2>2. Tally(Append(w.sheets, 0)) = Tally(w.sheets) + 0 /\ Tally(w.sheets) \in Nat
    BY <1>2, TallyOfAppend, Counters
  <2> QED BY <2>1, <2>2
<1>4. /\ o.at = "row" /\ o.table = t /\ o.row = 0 /\ o.onSheet = 0
      /\ o.sheets = Append(w.sheets, 0) /\ o.rows = w.rows
      /\ o.cells = w.cells + table.columns /\ o.text = w.text + table.columns
      /\ o.outcome = w.outcome
  BY DEF Opened, WriterRecord
<1>5. o \in WriterRecord
  <2>1. w.cells + table.columns \in Nat /\ w.text + table.columns \in Nat
    BY SMTT(30), <1>1, <1>2
  <2>2. o = [w EXCEPT !.table = t, !.row = 0, !.at = "row", !.sheets = Append(w.sheets, 0),
                      !.onSheet = 0, !.cells = w.cells + table.columns,
                      !.text = w.text + table.columns]
    BY DEF Opened, WriterRecord
  <2>3. Append(w.sheets, 0) \in Seq(Nat) /\ 0 \in Nat /\ t \in Nat
    BY <1>1, <1>3
  <2> QED BY ZenonT(30), <2>1, <2>2, <2>3 DEF WriterRecord
<1>6. Sheets(0) = 1 /\ PerSheet \in Nat \ {0}
  BY LimitsAssumption DEF Sheets, PerSheet
<1>7. /\ w.rows = Running(RowCounts(tables))[t - 1]
      /\ w.cells = Running(CellCounts(tables))[t - 1]
      /\ w.text = Running(TextCounts(tables))[t - 1]
      /\ Len(w.sheets) = Running(SheetCounts(tables))[t - 1]
      /\ Tally(w.sheets) = w.rows
      /\ \A i \in 1..(t - 1) :
            /\ tables[i].columns \in 1..Limits.columns
            /\ \A r \in DOMAIN tables[i].rows : RowFits(tables[i], r)
  BY <1>1, BetweenTables
<1>8. Counted(o, tables)
  <2>1. Running(RowTexts(table))[0] = 0
    BY <1>1, RowTextsAreCounts, Counters
  <2>2. table.columns * (Sheets(0) + 0) = table.columns
          /\ table.columns * Sheets(0) = table.columns
    BY <1>1, <1>6
  <2>3. Len(o.sheets) = Running(SheetCounts(tables))[t - 1] + Sheets(0)
    BY <1>3, <1>4, <1>6, <1>7
  <2>4. o.rows = Running(RowCounts(tables))[t - 1] + 0
    BY <1>2, <1>4, <1>7
  <2>5. o.cells = Running(CellCounts(tables))[t - 1] + table.columns * (Sheets(0) + 0)
    BY <1>4, <1>7, <2>2
  <2>6. o.text = Running(TextCounts(tables))[t - 1] + table.columns * Sheets(0)
                   + Running(RowTexts(table))[0]
    <3>1. (w.text + table.columns) + 0 = w.text + table.columns
      BY <1>1, <1>2
    <3> QED BY <1>4, <1>7, <2>1, <2>2, <3>1
  <2> QED BY <1>4, <2>3, <2>4, <2>5, <2>6 DEF Counted
<1>9. Partitioned(o)
  <2>1. \A i \in 1..Len(w.sheets) : w.sheets[i] <= PerSheet
    <3>1. CASE w.table = 0
      <4>1. w.sheets = <<>>
        BY <3>1 DEF Written, Nothing
      <4>2. 1..Len(w.sheets) = {}
        BY <4>1
      <4> QED BY <4>2
    <3>2. CASE w.table # 0
      <4>1. DOMAIN w.sheets = 1..Len(w.sheets)
        BY <1>2, LenProperties
      <4> QED BY <3>2, <4>1 DEF Written, Partitioned
    <3> QED BY <3>1, <3>2
  <2>2. DOMAIN o.sheets = 1..(Len(w.sheets) + 1) /\ Len(o.sheets) = Len(w.sheets) + 1
    BY <1>3, <1>4, LenProperties
  <2>3. \A i \in DOMAIN o.sheets : o.sheets[i] <= PerSheet
    <3> SUFFICES ASSUME NEW i \in 1..(Len(w.sheets) + 1) PROVE Append(w.sheets, 0)[i] <= PerSheet
      BY <1>4, <2>2
    <3>1. i \in 1..Len(w.sheets) \/ i = Len(w.sheets) + 1
      BY <1>3
    <3>2. 0 <= PerSheet
      BY <1>6
    <3> QED BY <1>3, <2>1, <3>1, <3>2
  <2>4. o.sheets # <<>>
    <3>1. Len(o.sheets) # 0
      BY <1>3, <2>2
    <3> QED BY <3>1
  <2>5. Tally(o.sheets) = o.rows
    BY <1>2, <1>3, <1>4, <1>7
  <2>6. o.row = (Sheets(o.row) - 1) * PerSheet + o.onSheet
    <3>1. (1 - 1) * PerSheet + 0 = 0
      BY <1>6
    <3> QED BY <1>4, <1>6, <3>1
  <2>7. o.onSheet \in 0..PerSheet /\ o.sheets[Len(o.sheets)] = o.onSheet
    BY <1>3, <1>4, <1>6, <2>2
  <2> QED BY <1>4, <2>3, <2>4, <2>5, <2>6, <2>7 DEF Partitioned
<1>10. Checked(o, tables)
  <2>1. \A i \in 1..t : i \in 1..(t - 1) \/ i = t
    BY <1>1
  <2>2. 1..0 = {}
    OBVIOUS
  <2>3. \A i \in 1..t : tables[i].columns \in 1..Limits.columns
    BY <1>7, <2>1
  <2> QED BY <1>4, <1>7, <2>2, <2>3 DEF Checked
<1>11. o.table # 0 /\ o.table \in 0..Len(tables) /\ o.row \in 0..Len(tables[o.table].rows)
  BY <1>0, <1>1, <1>4
<1> QED BY <1>5, <1>8, <1>9, <1>10, <1>11 DEF Written

\* Arithmetic that the larger steps cite: sums and products are numbers.
LEMMA Sums == \A x, y \in Nat : x + y \in Nat /\ x * y \in Nat
OBVIOUS

\* Arithmetic that the larger steps cite: the next row is one of the table's.
LEMMA OneFurther ==
    \A n, l \in Nat : n < l => n + 1 \in 1..l /\ (n + 1) - 1 = n /\ n \in 0..l
OBVIOUS

\* The cells of one more row, and of d more sheets.
SpreadAt(c, k, n, d) ==
    /\ c * ((k + d) + (n + 1)) = c * (k + n) + c * d + c
    /\ c * (k + d) = c * k + c * d

\* Arithmetic that the larger steps cite: cells of one row or sheet more.
LEMMA Spread == \A c, k, n, d \in Nat : SpreadAt(c, k, n, d)
BY DEF SpreadAt

\* Arithmetic that the larger steps cite: the text of a sheet and of a row.
\* The text of a sheet and of a row, in the order they are written.
InOrderAt(a, b, c, d, e) == ((a + b + c) + d) + e = a + (b + d) + (c + e)

\* Arithmetic that the larger steps cite: the order does not matter.
LEMMA InOrder == \A a, b, c, d, e \in Nat : InOrderAt(a, b, c, d, e)
BY DEF InOrderAt

\* A sequence with a length has an element.
LEMMA NotEmpty == ASSUME NEW s, Len(s) # 0 PROVE s # <<>>
OBVIOUS

\* One row more on a sheet, or the first on the next.
LEMMA OnTheSheet ==
    ASSUME NEW per \in Nat \ {0}, NEW on \in 0..per
    PROVE  (IF on = per THEN 0 ELSE on) + 1 = (IF on = per THEN 1 ELSE on + 1)
             /\ (IF on = per THEN 1 ELSE on + 1) \in 1..per
OBVIOUS

\* The row count of a sheet, and the sheet a row is on.
LEMMA OneRowMore ==
    ASSUME NEW n \in Nat, NEW on \in 0..PerSheet,
           n = (Sheets(n) - 1) * PerSheet + on
    PROVE  IF on = PerSheet
           THEN /\ Sheets(n + 1) = Sheets(n) + 1
                /\ n + 1 = (Sheets(n + 1) - 1) * PerSheet + 1
           ELSE /\ Sheets(n + 1) = Sheets(n)
                /\ n + 1 = (Sheets(n + 1) - 1) * PerSheet + (on + 1)
<1> DEFINE k == Sheets(n)
<1>1. PerSheet \in Nat \ {0} /\ k \in Nat \ {0} /\ n = (k - 1) * PerSheet + on
  BY LimitsAssumption, SheetsAreCounted DEF PerSheet
<1> HIDE DEF k
<1>2. CASE on = PerSheet
  <2>1. (k + 1) - 1 = k /\ k + 1 \in Nat \ {0} /\ 1 \in 1..PerSheet /\ n + 1 \in Nat
    BY <1>1
  <2>2. (k - 1) * PerSheet + PerSheet = k * PerSheet
    BY <1>1
  <2>3. n + 1 = ((k + 1) - 1) * PerSheet + 1
    BY <1>1, <1>2, <2>1, <2>2
  <2>4. Sheets(n + 1) = k + 1
    BY <2>1, <2>3, SheetsByLast
  <2> QED BY <1>2, <2>3, <2>4 DEF k
<1>3. CASE on # PerSheet
  <2>1. on + 1 \in 1..PerSheet /\ n + 1 \in Nat
    BY <1>1, <1>3
  <2>2. (k - 1) * PerSheet \in Nat
    BY <1>1
  <2>3. n + 1 = (k - 1) * PerSheet + (on + 1)
    BY <1>1, <2>2
  <2>4. Sheets(n + 1) = k
    BY <1>1, <2>1, <2>3, SheetsByLast
  <2> QED BY <1>3, <2>3, <2>4 DEF k
<1> QED BY <1>2, <1>3

\* The sheets a row opens, and the writer that has opened them.
More(w) == IF w.onSheet = PerSheet THEN 1 ELSE 0

OnItsSheet(w, table) == IF w.onSheet = PerSheet THEN Opened(w, table) ELSE w

\* p is w with so many sheets more.
PlacedFrom(p, more, w, table) ==
           /\ p \in WriterRecord /\ p.sheets # <<>> /\ p.table = w.table /\ p.row = w.row
           /\ p.rows = w.rows
           /\ p.cells = w.cells + table.columns * more
           /\ p.text = w.text + table.columns * more
           /\ Len(p.sheets) = Len(w.sheets) + more
           /\ p.sheets[Len(p.sheets)] = p.onSheet
           /\ p.onSheet = (IF w.onSheet = PerSheet THEN 0 ELSE w.onSheet)
           /\ Tally(p.sheets) = w.rows
           /\ \A i \in 1..Len(p.sheets) : p.sheets[i] <= PerSheet

\* A row that finds its sheet full is placed on a new one, and on it otherwise:
\* either way the sheets hold the rows written before it.
LEMMA PlacingARow ==
    ASSUME NEW w \in WriterRecord, Partitioned(w), NEW table, table.columns \in Nat
    PROVE  PlacedFrom(OnItsSheet(w, table), More(w), w, table)
<1> DEFINE p == OnItsSheet(w, table)  more == More(w)
<1> SUFFICES PlacedFrom(p, more, w, table)
  OBVIOUS
<1>0. /\ more = (IF w.onSheet = PerSheet THEN 1 ELSE 0)
      /\ p = (IF w.onSheet = PerSheet THEN Opened(w, table) ELSE w)
  BY DEF More, OnItsSheet
<1> HIDE DEF p, more
<1>1. /\ w.sheets \in Seq(Nat) /\ w.rows \in Nat /\ w.cells \in Nat /\ w.text \in Nat
      /\ w.onSheet \in Nat
  BY DEF WriterRecord
<1>2. PerSheet \in Nat \ {0}
  BY LimitsAssumption DEF PerSheet
<1>3. Len(w.sheets) \in Nat /\ DOMAIN w.sheets = 1..Len(w.sheets)
  BY <1>1, LenProperties
<1>4. CASE w.onSheet # PerSheet
  <2>1. table.columns * more = 0 /\ more = 0 /\ p = w
    BY <1>0, <1>4
  <2>2. w.cells + 0 = w.cells /\ w.text + 0 = w.text /\ Len(w.sheets) + 0 = Len(w.sheets)
    BY <1>1, <1>3
  <2> QED BY <1>3, <1>4, <2>1, <2>2 DEF Partitioned, PlacedFrom
<1>5. CASE w.onSheet = PerSheet
  <2>1. table.columns * more = table.columns /\ more = 1 /\ p = Opened(w, table)
    BY <1>0, <1>5
  <2>2. /\ Append(w.sheets, 0) \in Seq(Nat) /\ Len(Append(w.sheets, 0)) = Len(w.sheets) + 1
        /\ Append(w.sheets, 0)[Len(w.sheets) + 1] = 0
        /\ \A i \in 1..Len(w.sheets) : Append(w.sheets, 0)[i] = w.sheets[i]
    BY <1>1, AppendProperties
  <2>3. Tally(Append(w.sheets, 0)) = w.rows
    <3>1. Tally(Append(w.sheets, 0)) = Tally(w.sheets) + 0 /\ Tally(w.sheets) = w.rows
      BY <1>1, TallyOfAppend DEF Partitioned
    <3> QED BY <1>1, <3>1
  <2>4. /\ p.table = w.table /\ p.row = w.row /\ p.onSheet = 0
        /\ p.sheets = Append(w.sheets, 0) /\ p.rows = w.rows
        /\ p.cells = w.cells + table.columns
        /\ p.text = w.text + table.columns
    BY <2>1 DEF Opened, WriterRecord
  <2>5. w.cells + table.columns \in Nat /\ w.text + table.columns \in Nat
    BY <1>1
  <2>6. p \in WriterRecord
    <3>1. p = [w EXCEPT !.sheets = Append(w.sheets, 0), !.onSheet = 0,
                        !.cells = w.cells + table.columns, !.text = w.text + table.columns]
      BY <2>1 DEF Opened, WriterRecord
    <3>2. 0 \in Nat
      OBVIOUS
    <3> QED BY <2>2, <2>5, <3>1, <3>2 DEF WriterRecord
  <2>7. Append(w.sheets, 0) # <<>>
    <3>1. Len(Append(w.sheets, 0)) # 0
      BY <1>3, <2>2
    <3> QED BY <3>1, NotEmpty
  <2>8. \A i \in 1..(Len(w.sheets) + 1) : Append(w.sheets, 0)[i] <= PerSheet
    <3> SUFFICES ASSUME NEW i \in 1..(Len(w.sheets) + 1) PROVE Append(w.sheets, 0)[i] <= PerSheet
      OBVIOUS
    <3>1. i \in 1..Len(w.sheets) \/ i = Len(w.sheets) + 1
      BY <1>3
    <3>2. 0 <= PerSheet
      BY <1>2
    <3>3. \A h \in 1..Len(w.sheets) : w.sheets[h] <= PerSheet
      BY <1>3 DEF Partitioned
    <3> QED BY <2>2, <3>1, <3>2, <3>3
  <2> QED BY <1>5, <2>1, <2>2, <2>3, <2>4, <2>6, <2>7, <2>8 DEF PlacedFrom
<1> QED BY <1>4, <1>5

\* The record of a writer that wrote one more row.
OneRowOn(w, table) ==
    LET row == table.rows[w.row + 1]
        placed == OnItsSheet(w, table)
    IN  [placed EXCEPT !.row = @ + 1, !.rows = @ + 1, !.onSheet = @ + 1,
                       !.cells = @ + Len(row), !.text = @ + RowText(row),
                       !.sheets[Len(placed.sheets)] = @ + 1]

\* One more row keeps the invariant of what is written.
LEMMA WritingARow ==
    ASSUME NEW tables \in Seq(TableShape), NEW w \in WriterRecord, Written(w, tables),
           NEW t \in 1..Len(tables), t = w.table, NEW table, table = tables[t],
           NEW n, n = w.row, n < Len(table.rows), RowFits(table, n + 1),
           NEW row, row = table.rows[n + 1],
           NEW o, o = OneRowOn(w, table)
    PROVE  o \in WriterRecord /\ Written(o, tables)
<1>0. Len(tables) \in Nat /\ n \in Nat /\ w.table # 0 /\ table \in TableShape
  <2>1. Len(tables) \in Nat /\ table \in TableShape
    BY Tallies
  <2> QED BY <2>1 DEF WriterRecord
<1>1. /\ t \in Nat /\ table.columns \in Nat /\ Len(table.rows) \in Nat
      /\ RowTexts(table) \in Seq(Nat) /\ Len(RowTexts(table)) = Len(table.rows)
      /\ \A r \in 1..Len(table.rows) :
            table.rows[r] \in Seq(Nat) /\ RowTexts(table)[r] = RowText(table.rows[r])
  <2>1. t \in Nat
    BY <1>0
  <2> QED BY <1>0, <2>1, RowTextsAreCounts, Zenon
<1> DEFINE m == n + 1
<1>2. m \in 1..Len(table.rows) /\ m - 1 = n
  BY <1>0, <1>1, OneFurther, Zenon
<1>3. row \in Seq(Nat) /\ RowText(row) \in Nat /\ RowTexts(table)[m] = RowText(row)
      /\ Len(row) = table.columns
  BY <1>1, <1>2, Counters DEF RowText, RowFits
<1>4. /\ w.sheets \in Seq(Nat) /\ w.rows \in Nat /\ w.cells \in Nat /\ w.text \in Nat
      /\ w.onSheet \in Nat
  BY DEF WriterRecord
<1>5. Counted(w, tables) /\ Partitioned(w) /\ Checked(w, tables)
  BY <1>0 DEF Written
<1> DEFINE k == Sheets(n)
           full == w.onSheet = PerSheet
           more == More(w)
           placed == OnItsSheet(w, table)
<1>6. PerSheet \in Nat \ {0} /\ k \in Nat \ {0}
  BY <1>0, LimitsAssumption, SheetsAreCounted DEF PerSheet
<1>7. /\ Sheets(m) = k + more
      /\ m = (Sheets(m) - 1) * PerSheet + (IF full THEN 1 ELSE w.onSheet + 1)
  <2>1. n = (k - 1) * PerSheet + w.onSheet /\ w.onSheet \in 0..PerSheet
    BY <1>5 DEF Partitioned
  <2>2. k + 0 = k
    BY <1>6
  <2> QED BY <1>0, <2>1, <2>2, OneRowMore DEF More
<1>8. more \in Nat
  BY DEF More
<1>9. /\ placed \in WriterRecord /\ placed.sheets # <<>> /\ placed.table = t /\ placed.row = n
      /\ placed.rows = w.rows
      /\ placed.cells = w.cells + table.columns * more
      /\ placed.text = w.text + table.columns * more
      /\ Len(placed.sheets) = Len(w.sheets) + more
      /\ placed.sheets[Len(placed.sheets)] = placed.onSheet
      /\ placed.onSheet = (IF full THEN 0 ELSE w.onSheet)
      /\ Tally(placed.sheets) = w.rows
      /\ \A i \in 1..Len(placed.sheets) : placed.sheets[i] <= PerSheet
  <2>1. table.columns \in Nat
    BY <1>1
  <2>2. PlacedFrom(placed, more, w, table)
    BY <1>5, <2>1, PlacingARow, Zenon
  <2> HIDE DEF placed, more
  <2> QED BY <2>2, Zenon DEF PlacedFrom
<1> DEFINE s == [placed.sheets EXCEPT ![Len(placed.sheets)] = @ + 1]
<1>10. o = [placed EXCEPT !.row = @ + 1, !.rows = @ + 1, !.onSheet = @ + 1,
                          !.cells = @ + Len(row), !.text = @ + RowText(row), !.sheets = s]
  BY DEF OneRowOn
<1> HIDE DEF placed, more, s, k, m
<1>11. /\ placed.sheets \in Seq(Nat) /\ placed.cells \in Nat /\ placed.text \in Nat
       /\ placed.rows \in Nat /\ placed.onSheet \in Nat /\ placed.row \in Nat
  BY <1>9 DEF WriterRecord
<1>12. /\ o.table = t /\ o.row = m /\ o.rows = w.rows + 1 /\ o.onSheet = placed.onSheet + 1
       /\ o.cells = placed.cells + table.columns /\ o.text = placed.text + RowText(row)
       /\ o.sheets = s
  <2>1. /\ o.table = placed.table /\ o.row = placed.row + 1 /\ o.rows = placed.rows + 1
        /\ o.onSheet = placed.onSheet + 1 /\ o.cells = placed.cells + Len(row)
        /\ o.text = placed.text + RowText(row) /\ o.sheets = s
    BY <1>9, <1>10 DEF WriterRecord
  <2> QED BY <1>3, <1>9, <2>1 DEF m
<1>13. /\ s \in Seq(Nat) /\ Len(s) = Len(placed.sheets) /\ Tally(s) = Tally(placed.sheets) + 1
  BY <1>9, <1>11, TallyOfOneMore DEF s
<1>14. /\ Len(placed.sheets) \in Nat \ {0} /\ DOMAIN s = 1..Len(placed.sheets)
       /\ s[Len(placed.sheets)] = placed.onSheet + 1
       /\ \A i \in 1..Len(placed.sheets) : i # Len(placed.sheets) => s[i] = placed.sheets[i]
  <2>1. Len(placed.sheets) \in Nat /\ DOMAIN placed.sheets = 1..Len(placed.sheets)
    BY <1>11, LenProperties
  <2>2. Len(placed.sheets) # 0
    BY <1>9, <1>11, EmptySeq
  <2>3. Len(placed.sheets) \in DOMAIN placed.sheets
    BY <2>1, <2>2
  <2> QED BY <1>9, <2>1, <2>2, <2>3 DEF s
<1>15. o \in WriterRecord
  <2>1. /\ placed.row + 1 \in Nat /\ placed.rows + 1 \in Nat /\ placed.onSheet + 1 \in Nat
        /\ placed.cells + Len(row) \in Nat /\ placed.text + RowText(row) \in Nat
    <3>1. Len(row) \in Nat /\ 1 \in Nat
      BY <1>1, <1>3
    <3> QED BY <1>3, <1>11, <3>1, Sums, Zenon
  <2> QED BY ZenonT(30), <1>9, <1>10, <1>13, <2>1 DEF WriterRecord
<1>16. Partitioned(o)
  <2>1. w.onSheet \in 0..PerSheet
    BY <1>5 DEF Partitioned
  <2>2. o.onSheet = (IF full THEN 1 ELSE w.onSheet + 1) /\ o.onSheet \in 1..PerSheet
    BY <1>6, <1>9, <1>12, <2>1, OnTheSheet, Zenon
  <2>3. o.row = (Sheets(o.row) - 1) * PerSheet + o.onSheet
    BY <1>7, <1>12, <2>2
  <2>4. Tally(o.sheets) = o.rows
    BY <1>9, <1>12, <1>13
  <2>5. \A i \in DOMAIN o.sheets : o.sheets[i] <= PerSheet
    <3> SUFFICES ASSUME NEW i \in 1..Len(placed.sheets) PROVE s[i] <= PerSheet
      BY <1>12, <1>14
    <3>1. CASE i = Len(placed.sheets)
      BY <1>6, <1>12, <1>14, <2>2, <3>1
    <3>2. CASE i # Len(placed.sheets)
      BY <1>9, <1>14, <3>2
    <3> QED BY <3>1, <3>2
  <2>6. o.sheets # <<>> /\ o.sheets[Len(o.sheets)] = o.onSheet
    <3>1. Len(o.sheets) # 0
      BY <1>12, <1>13, <1>14
    <3> QED BY <1>12, <1>13, <1>14, <3>1
  <2>7. o.onSheet \in 0..PerSheet /\ o.onSheet # 0
    BY <1>6, <2>2
  <2> QED BY <2>3, <2>4, <2>5, <2>6, <2>7 DEF Partitioned
<1>17. Counted(o, tables)
  <2> DEFINE a == Running(RowCounts(tables))[t - 1]
             b == Running(CellCounts(tables))[t - 1]
             c == Running(TextCounts(tables))[t - 1]
             d == Running(SheetCounts(tables))[t - 1]
             e == Running(RowTexts(table))[n]
             f == Running(RowTexts(table))[m]
  <2>1. a \in Nat /\ b \in Nat /\ c \in Nat /\ d \in Nat
    BY WholeTables
  <2>2. f = e + RowText(row) /\ e \in Nat
    <3>1. n \in 0..Len(RowTexts(table)) /\ m \in 1..Len(RowTexts(table))
      BY <1>0, <1>1, <1>2, OneFurther, Zenon
    <3>2. Running(RowTexts(table))[m]
             = Running(RowTexts(table))[m - 1] + RowTexts(table)[m]
      BY <1>1, <3>1, Counters, Zenon
    <3>3. Running(RowTexts(table))[n] \in Nat
      BY <1>1, <3>1, Counters, Zenon
    <3> QED BY <1>2, <1>3, <3>2, <3>3, Zenon
  <2>3. /\ w.rows = a + n /\ w.cells = b + table.columns * (k + n)
        /\ w.text = c + table.columns * k + e /\ Len(w.sheets) = d + k
    BY <1>5 DEF Counted, k
  <2> DEFINE cols == table.columns  y == RowText(row)
  <2>4. cols \in Nat /\ y \in Nat /\ k \in Nat /\ m = n + 1
    BY <1>1, <1>3, <1>6 DEF m
  <2>5. /\ o.rows = w.rows + 1 /\ o.cells = (w.cells + cols * more) + cols
        /\ o.text = (w.text + cols * more) + y /\ Len(o.sheets) = Len(w.sheets) + more
    BY <1>9, <1>12, <1>13
  <2> HIDE DEF a, b, c, d, e, f, cols, y
  <2>6. /\ cols * ((k + more) + (n + 1)) = cols * (k + n) + cols * more + cols
        /\ cols * (k + more) = cols * k + cols * more
        /\ cols * (k + n) \in Nat /\ cols * k \in Nat /\ cols * more \in Nat
    <3>1. k + n \in Nat
      BY <1>0, <2>4, Sums, Zenon
    <3>2. cols * (k + n) \in Nat /\ cols * k \in Nat /\ cols * more \in Nat
      BY <1>8, <2>4, <3>1, Sums, Zenon
    <3>3. SpreadAt(cols, k, n, more)
      BY <1>0, <1>8, <2>4, Spread, Zenon
    <3> QED BY <3>2, <3>3, Zenon DEF SpreadAt
  <2>7. o.rows = a + m
    BY <1>0, <2>1, <2>3, <2>4, <2>5
  <2>8. o.cells = b + cols * (Sheets(m) + m)
    <3>1. o.cells = b + cols * (k + n) + cols * more + cols
      BY <2>3, <2>5 DEF cols
    <3> QED BY <1>7, <2>1, <2>4, <2>6, <3>1
  <2>9. o.text = c + cols * Sheets(m) + f
    <3>1. o.text = ((c + cols * k + e) + cols * more) + y /\ f = e + y
      BY <2>2, <2>3, <2>5 DEF cols, y
    <3>2. cols * Sheets(m) = cols * k + cols * more
      BY <1>7, <2>6
    <3>3. ((c + cols * k + e) + cols * more) + y = c + (cols * k + cols * more) + (e + y)
      <4>1. c \in Nat /\ cols * k \in Nat /\ e \in Nat /\ cols * more \in Nat /\ y \in Nat
        BY <2>1, <2>2, <2>4, <2>6, Zenon
      <4>2. InOrderAt(c, cols * k, e, cols * more, y)
        BY <4>1, InOrder, Zenon
      <4> QED BY <4>2, Zenon DEF InOrderAt
    <3> QED BY <3>1, <3>2, <3>3, Zenon
  <2>10. Len(o.sheets) = d + Sheets(m)
    BY <1>7, <1>8, <2>1, <2>3, <2>4, <2>5
  <2> QED BY <1>12, <2>7, <2>8, <2>9, <2>10 DEF Counted, a, b, c, d, f, cols
<1>18. Checked(o, tables)
  <2>1. \A r \in 1..m : r \in 1..n \/ r = m
    BY <1>0 DEF m
  <2>2. RowFits(table, m)
    BY DEF m
  <2> QED BY <1>5, <1>12, <2>1, <2>2 DEF Checked
<1>19. o.table # 0 /\ o.table \in 0..Len(tables) /\ o.row \in 0..Len(tables[o.table].rows)
  BY <1>0, <1>1, <1>2, <1>12
<1> QED BY <1>15, <1>16, <1>17, <1>18, <1>19 DEF Written

-----------------------------------------------------------------------------
(* The engine *)

\* How a render ends, and "none" before it does.
Outcomes == {"none", "rendered", "refused", "timeout",
             "template_render_failed", "package_validation_failed"}

\* What is rendered has tables, each with a number of rows.
LEMMA BooksHaveTables ==
    ASSUME RenderInv
    PROVE  book.tables \in Seq(TableShape) /\ Len(book.tables) \in Nat
             /\ \A i \in 1..Len(book.tables) : Len(book.tables[i].rows) \in Nat
<1>1. book.tables \in Seq(TableShape)
  BY BooksAssumption DEF RenderInv, TableShape
<1>2. Len(book.tables) \in Nat
  BY <1>1, LenProperties
<1>3. ASSUME NEW i \in 1..Len(book.tables) PROVE Len(book.tables[i].rows) \in Nat
  BY <1>1, Tallies, RowTextsAreCounts
<1> QED BY <1>1, <1>2, <1>3

\* Nothing is written when a package is received.
LEMMA RenderStarts == RenderInit => RenderInv
<1> SUFFICES ASSUME RenderInit PROVE RenderInv
  OBVIOUS
<1>1. book.tables \in Seq(TableShape) /\ book \in Books
  BY BooksAssumption DEF RenderInit, TableShape
<1>2. Len(book.tables) \in Nat
  BY <1>1, LenProperties
<1>3. writer = Nothing /\ temporary = FALSE
  BY DEF RenderInit
<1>4. writer \in WriterRecord /\ writer.table = 0 /\ writer.at = "received"
        /\ writer.outcome = "none" /\ writer.sheets = <<>>
        /\ writer.rows = 0 /\ writer.cells = 0 /\ writer.text = 0
  <2>1. <<>> \in Seq(Nat)
    OBVIOUS
  <2> QED BY <1>3, <2>1 DEF Nothing, WriterRecord
<1>5. Written(writer, book.tables)
  <2>1. writer = [Nothing EXCEPT !.at = writer.at, !.outcome = writer.outcome]
    BY <1>3 DEF Nothing
  <2>2. writer.table \in 0..Len(book.tables)
    BY <1>2, <1>4
  <2> QED BY <1>4, <2>1, <2>2 DEF Written
<1>6. Within(writer)
  <2>1. Len(<<>>) = 0
    OBVIOUS
  <2> QED BY <1>4, <2>1, LimitsAssumption DEF Within
<1> QED BY <1>1, <1>3, <1>4, <1>5, <1>6 DEF RenderInv

\* A render ends: what was written stays, and its files are gone.
LEMMA EndingKeepsInv ==
    ASSUME RenderInv, writer.at # "done", NEW x \in Outcomes, Done(x), UNCHANGED book,
           x = "rendered" => AtTheEnd,
           x = "refused" /\ book.version \in Preflighted /\ writer.sheets # <<>> => AtTheEnd
    PROVE  RenderInv'
<1>1. /\ writer' \in WriterRecord /\ writer'.at = "done" /\ writer'.outcome = x
      /\ writer'.table = writer.table /\ writer'.row = writer.row
      /\ writer'.onSheet = writer.onSheet
      /\ writer'.sheets = writer.sheets /\ writer'.rows = writer.rows
      /\ writer'.cells = writer.cells /\ writer'.text = writer.text
      /\ temporary' = FALSE /\ book' = book
  BY DEF RenderInv, Done, WriterRecord, Outcomes
<1>2. Written(writer, book.tables) /\ Within(writer)
  BY DEF RenderInv
<1>3. Within(writer')
  BY <1>1, <1>2 DEF Within
<1>4. Written(writer', book.tables)
  <2>1. CASE writer.table = 0
    <3>1. writer = [Nothing EXCEPT !.at = writer.at, !.outcome = writer.outcome]
      BY <1>2, <2>1 DEF Written
    <3>2. writer' = [writer EXCEPT !.at = "done", !.outcome = x]
      BY DEF Done
    <3>3. writer' = [Nothing EXCEPT !.at = writer'.at, !.outcome = writer'.outcome]
      BY <1>1, <3>1, <3>2 DEF Nothing
    <3> QED BY <1>1, <1>2, <2>1, <3>3 DEF Written
  <2>2. CASE writer.table # 0
    <3>1. Counted(writer', book.tables) /\ Partitioned(writer') /\ Checked(writer', book.tables)
      BY <1>1, <1>2, <2>2 DEF Written, Counted, Partitioned, Checked
    <3> QED BY <1>1, <1>2, <2>2, <3>1 DEF Written
  <2> QED BY <2>1, <2>2
<1>5. AtTheEnd <=> AtTheEnd'
  BY <1>1 DEF AtTheEnd, Table
<1>6. x = "rendered" /\ book.version \in Preflighted => ~PreflightRefuses(book)
  <2>1. AtTheEnd => writer.at \in {"table", "row"}
    BY DEF AtTheEnd, RenderInv, WriterRecord
  <2> QED BY <2>1 DEF RenderInv
<1> QED BY <1>1, <1>3, <1>4, <1>5, <1>6 DEF RenderInv

\* A table whose columns are within their limit can be opened, and one that
\* preflight admitted is, within every limit.
LEMMA AdmittedTablesOpen ==
    ASSUME RenderInv, writer.at = "table", writer.table < Len(book.tables),
           NEW table, table = book.tables[writer.table + 1],
           NEW o, o = Opened([writer EXCEPT !.table = @ + 1, !.row = 0, !.at = "row"], table)
    PROVE  /\ table.columns \in 1..Limits.columns =>
                o \in WriterRecord /\ Written(o, book.tables)
                  /\ o.table # 0 /\ o.at = "row" /\ o.outcome = "none"
           /\ book.version \in Preflighted =>
                table.columns \in 1..Limits.columns /\ Within(o)
<1> DEFINE t == writer.table + 1
<1>1. /\ book.tables \in Seq(TableShape) /\ writer \in WriterRecord
      /\ Written(writer, book.tables) /\ writer.outcome = "none"
      /\ writer.table # 0 => writer.row = Len(book.tables[writer.table].rows)
  BY BooksHaveTables DEF RenderInv, Table
<1>2. t \in 1..Len(book.tables)
  BY <1>1, BooksHaveTables DEF WriterRecord
<1> HIDE DEF t
<1>3. t = writer.table + 1 /\ table = book.tables[t]
  BY DEF t
<1>4. ASSUME table.columns \in 1..Limits.columns
      PROVE  /\ o \in WriterRecord /\ Written(o, book.tables)
             /\ o.table # 0 /\ o.at = "row" /\ o.outcome = "none"
  <2>1. o \in WriterRecord /\ Written(o, book.tables)
    BY <1>1, <1>2, <1>3, <1>4, OpeningATable
  <2>2. o.table = writer.table + 1 /\ o.at = "row" /\ o.outcome = "none"
    BY <1>1 DEF Opened, WriterRecord
  <2>3. o.table # 0
    BY <1>1, <2>2 DEF WriterRecord
  <2> QED BY <2>1, <2>2, <2>3
<1>5. ASSUME book.version \in Preflighted
      PROVE  table.columns \in 1..Limits.columns /\ Within(o)
  <2>1. ~TablesRefused(book.tables)
    BY <1>5 DEF RenderInv, PreflightRefuses
  <2>2. table.columns \in 1..Limits.columns
    BY <1>1, <1>2, <1>3, <2>1, PreflightPasses DEF Fits
  <2> QED BY <1>1, <1>4, <2>1, <2>2, WrittenIsWithin
<1> QED BY <1>4, <1>5

\* A row that fits keeps the invariant, and a row preflight admitted fits and
\* stays within every limit.
LEMMA AdmittedRowsAreWritten ==
    ASSUME RenderInv, writer.at = "row", writer.row < Len(Table.rows),
           NEW row, row = Table.rows[writer.row + 1],
           NEW o, o = OneRowOn(writer, Table)
    PROVE  /\ RowFits(Table, writer.row + 1) =>
                o \in WriterRecord /\ Written(o, book.tables)
                  /\ o.table # 0 /\ o.at = "row" /\ o.outcome = "none"
           /\ book.version \in Preflighted =>
                RowFits(Table, writer.row + 1) /\ Within(o)
<1> DEFINE t == writer.table  n == writer.row  table == book.tables[t]
<1>1. /\ book.tables \in Seq(TableShape) /\ writer \in WriterRecord
      /\ Written(writer, book.tables) /\ writer.outcome = "none" /\ t # 0
      /\ n \in Nat /\ t \in Nat
  BY BooksHaveTables DEF RenderInv, WriterRecord
<1>2. t \in 1..Len(book.tables)
  BY <1>1, BooksHaveTables DEF Written
<1>3. /\ t = writer.table /\ n = writer.row /\ table = book.tables[t] /\ Table = table
      /\ n < Len(table.rows)
  BY DEF Table
<1>4. ASSUME RowFits(table, n + 1)
      PROVE  /\ o \in WriterRecord /\ Written(o, book.tables)
             /\ o.table # 0 /\ o.at = "row" /\ o.outcome = "none"
  <2>1. o \in WriterRecord /\ Written(o, book.tables)
    <3>1. o = OneRowOn(writer, table)
      BY <1>3
    <3>2. row = table.rows[n + 1]
      BY <1>3
    <3> HIDE DEF t, n, table
    <3> QED BY <1>1, <1>2, <1>3, <1>4, <3>1, <3>2, WritingARow
  <2>2. o.table = writer.table /\ o.at = "row" /\ o.outcome = "none"
    BY <1>1 DEF OneRowOn, OnItsSheet, Opened, WriterRecord
  <2> QED BY <1>1, <2>1, <2>2
<1>5. ASSUME book.version \in Preflighted
      PROVE  RowFits(table, n + 1) /\ Within(o)
  <2>1. ~TablesRefused(book.tables)
    BY <1>5 DEF RenderInv, PreflightRefuses
  <2>2. RowFits(table, n + 1)
    <3>1. Fits(book.tables)
      BY <1>1, <2>1, PreflightPasses
    <3>2. DOMAIN table.rows = 1..Len(table.rows) /\ Len(table.rows) \in Nat
      <4>1. table \in TableShape
        BY <1>1, <1>2, Tallies
      <4>2. table.rows \in Seq(Seq(Nat))
        BY <4>1 DEF TableShape
      <4> QED BY <4>2, LenProperties
    <3>3. n + 1 \in DOMAIN table.rows
      BY <1>1, <1>3, <3>2, OneFurther, Zenon
    <3> QED BY <1>2, <3>1, <3>3 DEF Fits
  <2> QED BY <1>1, <1>4, <2>1, <2>2, WrittenIsWithin
<1> QED BY <1>3, <1>4, <1>5

\* What preflight admits of a row is what the writer checks of it.
LEMMA FittingRows ==
    ASSUME NEW table, NEW r, NEW row \in Seq(Nat), row = table.rows[r]
    PROVE  RowFits(table, r) <=>
              /\ Len(row) = table.columns
              /\ ~\E size \in Range(row) : size = Control \/ size > Limits.cell
<1>1. \A size \in Range(row) : size \in Nat
  BY ElementOfSeq, LenProperties DEF Range
<1>2. Limits.cell \in Nat
  BY LimitsAssumption
<1>3. \A size \in Range(row) : size <= Limits.cell <=> ~(size > Limits.cell)
  BY <1>1, <1>2
<1> QED BY <1>3 DEF RowFits

\* Every step of the engine keeps the invariant.
LEMMA RenderStep ==
    ASSUME RenderInv, WorkbookNext
    PROVE  RenderInv'
<1>0. /\ book \in Books /\ temporary \in BOOLEAN /\ writer \in WriterRecord
      /\ Written(writer, book.tables) /\ Within(writer)
  BY DEF RenderInv
<1>1. CASE Admit
  <2>1. CASE \E x \in Outcomes : x \notin {"none", "rendered", "refused"} /\ Done(x)
    BY <1>1, <2>1, EndingKeepsInv DEF Admit
  <2>2. CASE Done("refused")
    <3>1. writer.sheets = <<>>
      BY <1>0, <1>1 DEF RenderInv, Admit, Written, Nothing
    <3> QED BY <1>1, <2>2, <3>1, EndingKeepsInv DEF Admit, Outcomes
  <2>3. CASE /\ writer' = [writer EXCEPT !.at = "table"] /\ temporary' = TRUE
             /\ book.version \in Preflighted => ~PreflightRefuses(book)
    <3>1. /\ book' = book /\ writer.at = "received" /\ writer.table = 0
          /\ writer.outcome = "none"
      BY <1>1 DEF Admit, RenderInv
    <3>2. /\ writer' \in WriterRecord /\ writer'.table = 0 /\ writer'.at = "table"
          /\ writer'.outcome = "none" /\ Within(writer')
      BY <1>0, <2>3, <3>1 DEF WriterRecord, Within
    <3>3. writer' = [Nothing EXCEPT !.at = writer'.at, !.outcome = writer'.outcome]
      <4>1. writer = [Nothing EXCEPT !.at = writer.at, !.outcome = writer.outcome]
        BY <1>0, <3>1 DEF Written
      <4> QED BY <2>3, <3>1, <3>2, <4>1 DEF Nothing
    <3>4. Written(writer', book'.tables)
      BY <1>0, <3>1, <3>2, <3>3 DEF Written
    <3> QED BY <1>0, <2>3, <3>1, <3>2, <3>4 DEF RenderInv
  <2>4. Verdict(book) \in {"admitted", "template_render_failed", "package_validation_failed"}
    BY DEF Verdict
  <2> QED BY <1>1, <2>1, <2>2, <2>3, <2>4 DEF Admit, Outcomes
<1>2. CASE NextTable
  <2> DEFINE table == book.tables[writer.table + 1]
             o == Opened([writer EXCEPT !.table = @ + 1, !.row = 0, !.at = "row"], table)
  <2>1. /\ writer.at = "table" /\ writer.table < Len(book.tables) /\ book' = book
        /\ IF table.columns \notin 1..Limits.columns \/ ~Within(o)
           THEN Done("refused") ELSE writer' = o /\ UNCHANGED temporary
    BY <1>2 DEF NextTable
  <2> HIDE DEF table, o
  <2>2. /\ table.columns \in 1..Limits.columns =>
             o \in WriterRecord /\ Written(o, book.tables)
               /\ o.table # 0 /\ o.at = "row" /\ o.outcome = "none"
        /\ book.version \in Preflighted =>
             table.columns \in 1..Limits.columns /\ Within(o)
    BY <2>1, AdmittedTablesOpen DEF table, o
  <2>3. CASE table.columns \notin 1..Limits.columns \/ ~Within(o)
    BY <2>1, <2>2, <2>3, EndingKeepsInv DEF Outcomes
  <2>4. CASE table.columns \in 1..Limits.columns /\ Within(o)
    <3>1. writer' = o /\ temporary' = temporary
      BY <2>1, <2>4
    <3>2. book.version \in Preflighted => ~PreflightRefuses(book)
      BY <2>1 DEF RenderInv
    <3> HIDE DEF o
    <3> QED BY <1>0, <2>1, <2>2, <2>4, <3>1, <3>2 DEF RenderInv
  <2> QED BY <2>3, <2>4
<1>3. CASE WriteRow
  <2> DEFINE row == Table.rows[writer.row + 1]  o == OneRowOn(writer, Table)
             bad == \E size \in Range(row) : size = Control \/ size > Limits.cell
  <2>1. /\ writer.at = "row" /\ writer.row < Len(Table.rows) /\ book' = book
        /\ IF Len(row) # Table.columns \/ ~Within(o) \/ bad
           THEN Done("refused") ELSE writer' = o /\ UNCHANGED temporary
    BY <1>3 DEF WriteRow, OneRowOn, OnItsSheet, SheetFull, PerSheet
  <2> HIDE DEF o
  <2>2. /\ RowFits(Table, writer.row + 1) =>
             o \in WriterRecord /\ Written(o, book.tables)
               /\ o.table # 0 /\ o.at = "row" /\ o.outcome = "none"
        /\ book.version \in Preflighted =>
             RowFits(Table, writer.row + 1) /\ Within(o)
    BY <2>1, AdmittedRowsAreWritten DEF o
  <2>3. RowFits(Table, writer.row + 1) <=> Len(row) = Table.columns /\ ~bad
    <3>1. /\ writer.table \in 1..Len(book.tables)
          /\ writer.row \in Nat /\ book.tables \in Seq(TableShape)
      BY <1>0, <2>1, BooksHaveTables DEF RenderInv, Written, WriterRecord
    <3>2. Table \in TableShape
      BY <3>1, Tallies DEF Table
    <3>3. Len(Table.rows) \in Nat
      BY <3>2, RowTextsAreCounts
    <3>4. writer.row + 1 \in 1..Len(Table.rows)
      BY <2>1, <3>1, <3>3, OneFurther, Zenon
    <3>5. row \in Seq(Nat)
      BY <3>2, <3>4, RowTextsAreCounts
    <3> QED BY <3>5, FittingRows, Zenon
  <2> HIDE DEF row, bad
  <2>4. CASE Len(row) # Table.columns \/ ~Within(o) \/ bad
    BY <2>1, <2>2, <2>3, <2>4, EndingKeepsInv DEF Outcomes
  <2>5. CASE Len(row) = Table.columns /\ Within(o) /\ ~bad
    <3>1. writer' = o /\ temporary' = temporary
      BY <2>1, <2>5
    <3>2. book.version \in Preflighted => ~PreflightRefuses(book)
      BY <2>1 DEF RenderInv
    <3> QED BY <1>0, <2>1, <2>2, <2>3, <2>5, <3>1, <3>2 DEF RenderInv
  <2> QED BY <2>4, <2>5
<1>4. CASE CloseTable
  <2>1. /\ writer.at = "row" /\ writer.row = Len(Table.rows)
        /\ writer' = [writer EXCEPT !.at = "table"]
        /\ book' = book /\ temporary' = temporary
    BY <1>4 DEF CloseTable
  <2>2. /\ writer' \in WriterRecord /\ writer'.at = "table" /\ writer'.outcome = writer.outcome
        /\ writer'.table = writer.table /\ writer'.row = writer.row
        /\ writer'.onSheet = writer.onSheet
        /\ writer'.sheets = writer.sheets /\ writer'.rows = writer.rows
        /\ writer'.cells = writer.cells /\ writer'.text = writer.text
    BY <1>0, <2>1 DEF WriterRecord
  <2>3. Within(writer')
    BY <1>0, <2>2 DEF Within
  <2>4. writer.table # 0 /\ writer.outcome = "none"
    BY <2>1 DEF RenderInv
  <2>5. Written(writer', book.tables)
    <3>1. Counted(writer', book.tables) /\ Partitioned(writer') /\ Checked(writer', book.tables)
      BY <1>0, <2>2, <2>4 DEF Written, Counted, Partitioned, Checked
    <3> QED BY <1>0, <2>2, <2>4, <3>1 DEF Written
  <2>6. writer'.row = Len(Table'.rows)
    BY <2>1, <2>2 DEF Table
  <2>7. book.version \in Preflighted => ~PreflightRefuses(book)
    BY <2>1 DEF RenderInv
  <2> QED BY <1>0, <2>1, <2>2, <2>3, <2>4, <2>5, <2>6, <2>7 DEF RenderInv
<1>5. CASE Expire
  BY <1>5, EndingKeepsInv DEF Expire, Outcomes
<1>6. CASE Close
  <2>1. writer.at = "table" /\ writer.table = Len(book.tables) /\ book' = book
    BY <1>6 DEF Close
  <2>2. CASE writer.sheets = <<>>
    BY <1>6, <2>1, <2>2, EndingKeepsInv DEF Close, Outcomes
  <2>3. CASE writer.sheets # <<>>
    <3>1. writer.table # 0
      BY <1>0, <2>3 DEF Written, Nothing
    <3>2. AtTheEnd
      BY <2>1, <3>1 DEF AtTheEnd, RenderInv
    <3> QED BY <1>6, <2>1, <2>3, <3>2, EndingKeepsInv DEF Close, Outcomes
  <2> QED BY <2>2, <2>3
<1> QED BY <1>1, <1>2, <1>3, <1>4, <1>5, <1>6 DEF WorkbookNext

\* A workbook written to its end holds every row, and preflight admits it.
LEMMA WrittenToTheEnd ==
    ASSUME RenderInv, AtTheEnd
    PROVE  /\ ~TablesRefused(book.tables)
           /\ Tally(writer.sheets) = SumOver(book.tables, RowsOf)
           /\ Len(writer.sheets) = SumOver(book.tables, SheetsOf)
<1> DEFINE tables == book.tables  n == Len(tables)
<1>1. /\ tables \in Seq(TableShape) /\ writer \in WriterRecord
      /\ Written(writer, tables) /\ Within(writer)
  BY BooksHaveTables DEF RenderInv
<1>2. writer.table = n /\ (writer.table # 0 => writer.row = Len(tables[writer.table].rows))
  BY DEF AtTheEnd, Table
<1> HIDE DEF tables
<1>3. /\ writer.rows = Running(RowCounts(tables))[n]
      /\ writer.cells = Running(CellCounts(tables))[n]
      /\ writer.text = Running(TextCounts(tables))[n]
      /\ Len(writer.sheets) = Running(SheetCounts(tables))[n]
      /\ Tally(writer.sheets) = writer.rows
      /\ Fits(tables)
  BY <1>1, <1>2, BetweenTables DEF Fits
<1>4. /\ Running(RowCounts(tables))[n] = Tally(RowCounts(tables))
      /\ Running(CellCounts(tables))[n] = Tally(CellCounts(tables))
      /\ Running(TextCounts(tables))[n] = Tally(TextCounts(tables))
      /\ Running(SheetCounts(tables))[n] = Tally(SheetCounts(tables))
  BY <1>1, Tallies DEF Tally
<1>5. ~TablesRefused(tables)
  BY <1>1, <1>3, <1>4, PreflightPasses DEF Within
<1>6. /\ SumOver(tables, RowsOf) = Tally(RowCounts(tables))
      /\ SumOver(tables, SheetsOf) = Tally(SheetCounts(tables))
  BY DEF SumOver, RowCounts, SheetCounts
<1> QED BY <1>3, <1>4, <1>5, <1>6 DEF tables

\* The invariant gives the four properties of a workbook.
LEMMA WorkbookParts ==
    ASSUME RenderInv
    PROVE  RenderTypeOK /\ CountingsAgree /\ SheetsHoldEveryRow /\ NothingIsLeftBehind
<1>1. /\ book \in Books /\ temporary \in BOOLEAN /\ writer \in WriterRecord
      /\ Written(writer, book.tables) /\ Within(writer)
  BY DEF RenderInv
<1>2. RenderTypeOK
  BY <1>1 DEF RenderTypeOK, WriterRecord, Written
<1>3. writer.outcome = "rendered" => AtTheEnd
  BY DEF RenderInv
<1>4. CountingsAgree
  BY <1>3, WrittenToTheEnd DEF CountingsAgree, RenderInv, AtTheEnd
<1>5. SheetsHoldEveryRow
  <2>1. ASSUME NEW i \in DOMAIN writer.sheets PROVE writer.sheets[i] <= Limits.rowsPerSheet
    <3>1. CASE writer.table = 0
      <4>1. writer.sheets = <<>>
        BY <1>1, <3>1 DEF Written, Nothing
      <4>2. DOMAIN writer.sheets = {}
        BY <4>1
      <4> QED BY <4>2
    <3>2. CASE writer.table # 0
      BY <1>1, <3>2 DEF Written, Partitioned, PerSheet
    <3> QED BY <3>1, <3>2
  <2> QED BY <1>1, <1>3, <2>1, WrittenToTheEnd DEF SheetsHoldEveryRow
<1>6. NothingIsLeftBehind
  BY DEF RenderInv, NothingIsLeftBehind
<1> QED BY <1>2, <1>4, <1>5, <1>6

-----------------------------------------------------------------------------
(* Sequences of sequences *)

\* f is what is flattened up to each of the sequences.
IsFlattening(f, ss, n) ==
    /\ f[1] = ss[1]
    /\ \A i \in 2..n : f[i] = f[i - 1] \o ss[i]

\* Flattening goes from one sequence to the next.
LEMMA FlatteningIs ==
    ASSUME NEW S, NEW ss \in Seq(Seq(S)), ss # <<>>
    PROVE  \E f \in [1..Len(ss) -> Seq(S)] :
              IsFlattening(f, ss, Len(ss)) /\ FlattenSeq(ss) = f[Len(ss)]
<1> DEFINE N == Len(ss)
<1>1. N \in Nat /\ N >= 1 /\ N \in 1..N /\ \A i \in 1..N : ss[i] \in Seq(S)
  BY LenProperties, EmptySeq, ElementOfSeq
<1> HIDE DEF N
<1> DEFINE T == {n \in Nat : n + 1 <= N
               => \E f \in [1..(n + 1) -> Seq(S)] : IsFlattening(f, ss, n + 1)}
<1>2. 0 \in T
  <2>1. IsFlattening([i \in 1..1 |-> ss[1]], ss, 1)
    BY DEF IsFlattening
  <2>2. [i \in 1..1 |-> ss[1]] \in [1..1 -> Seq(S)]
    BY <1>1
  <2> QED BY <2>1, <2>2
<1>3. ASSUME NEW k \in 0..(N - 1), NEW m \in 0..(N - 1), k \in T, m = k + 1
      PROVE  m \in T
  <2>1. k \in Nat /\ m \in Nat /\ k + 1 <= N /\ m + 1 \in 2..N
    BY <1>1, <1>3
  <2>2. PICK f \in [1..m -> Seq(S)] : IsFlattening(f, ss, m)
    BY <1>3, <2>1
  <2>3. ss[m + 1] \in Seq(S) /\ f[m] \in Seq(S) /\ f[m] \o ss[m + 1] \in Seq(S)
    BY <1>1, <2>1, <2>2, <1>3, ConcatProperties
  <2> DEFINE g == [i \in 1..(m + 1) |-> IF i = m + 1 THEN f[m] \o ss[m + 1] ELSE f[i]]
  <2>4. g \in [1..(m + 1) -> Seq(S)] /\ g[1] = ss[1]
    BY <1>3, <2>1, <2>2, <2>3 DEF IsFlattening
  <2>5. ASSUME NEW i \in 2..(m + 1) PROVE g[i] = g[i - 1] \o ss[i]
    <3>1. /\ i \in 1..(m + 1) /\ i - 1 \in 1..m /\ i - 1 \in 1..(m + 1) /\ i - 1 # m + 1
          /\ (i # m + 1 => i \in 2..m) /\ (m + 1) - 1 = m
      BY <2>1
    <3>2. CASE i = m + 1
      BY <3>1, <3>2
    <3>3. CASE i # m + 1
      <4>1. f[i] = f[i - 1] \o ss[i]
        BY <2>2, <3>1, <3>3 DEF IsFlattening
      <4> QED BY <3>1, <3>3, <4>1
    <3> QED BY <3>2, <3>3
  <2> HIDE DEF g
  <2>6. IsFlattening(g, ss, m + 1)
    BY <2>4, <2>5 DEF IsFlattening
  <2> QED BY <2>1, <2>4, <2>6
<1>4. N - 1 \in T
  <2> HIDE DEF T
  <2> QED BY <1>1, <1>2, <1>3, Climb
<1>5. PICK f \in [1..N -> Seq(S)] : IsFlattening(f, ss, N)
  BY <1>1, <1>4
<1>6. f = [i \in 1..N |-> IF i = 1 THEN ss[i] ELSE f[i - 1] \o ss[i]]
  <2>1. ASSUME NEW i \in 1..N PROVE f[i] = IF i = 1 THEN ss[i] ELSE f[i - 1] \o ss[i]
    <3>1. i # 1 => i \in 2..N
      BY <1>1
    <3> QED BY <1>5, <3>1, Zenon DEF IsFlattening
  <2> QED BY <1>5, <2>1
<1> DEFINE F == CHOOSE g : g = [i \in 1..N |-> IF i = 1 THEN ss[i] ELSE g[i - 1] \o ss[i]]
<1>7. F = [i \in 1..N |-> IF i = 1 THEN ss[i] ELSE F[i - 1] \o ss[i]]
  BY <1>6
<1>8. FlattenSeq(ss) = F[N]
  BY <1>1 DEF FlattenSeq, N
<1> HIDE DEF F
<1>9. IsFlattening(F, ss, N)
  <2>1. ASSUME NEW i \in 2..N PROVE F[i] = F[i - 1] \o ss[i]
    <3>1. i \in 1..N /\ i # 1
      BY <1>1
    <3>2. F[i] = IF i = 1 THEN ss[i] ELSE F[i - 1] \o ss[i]
      BY <1>7, <3>1, Zenon
    <3> QED BY <3>1, <3>2, Zenon
  <2>2. F[1] = ss[1]
    <3>1. 1 \in 1..N
      BY <1>1
    <3> QED BY <1>7, <3>1, Zenon
  <2> QED BY <2>1, <2>2 DEF IsFlattening
<1>10. F \in [1..N -> Seq(S)]
  <2> DEFINE V == {n \in Nat : n + 1 <= N => F[n + 1] \in Seq(S)}
  <2>1. 0 \in V
    BY <1>1, <1>9 DEF IsFlattening
  <2>2. ASSUME NEW k \in 0..(N - 1), NEW m \in 0..(N - 1), k \in V, m = k + 1
        PROVE  m \in V
    <3>1. m \in Nat /\ m + 1 \in 2..N /\ F[m] \in Seq(S) /\ (m + 1) - 1 = m
      BY <1>1, <2>2
    <3>2. F[m + 1] = F[m] \o ss[m + 1] /\ ss[m + 1] \in Seq(S)
      <4>1. F[m + 1] = F[(m + 1) - 1] \o ss[m + 1]
        BY <1>9, <3>1, Zenon DEF IsFlattening
      <4>2. m + 1 \in 1..N
        BY <1>1, <3>1
      <4> QED BY <1>1, <3>1, <4>1, <4>2, Zenon
    <3>3. F[m + 1] \in Seq(S)
      BY <3>1, <3>2, ConcatProperties
    <3> QED BY <3>1, <3>3
  <2>3. ASSUME NEW i \in 1..N PROVE F[i] \in Seq(S)
    <3>1. i - 1 \in Nat /\ 0..(i - 1) \subseteq 0..(N - 1) /\ (i - 1) + 1 = i
      BY <1>1
    <3>2. \A k, m \in 0..(i - 1) : k \in V /\ m = k + 1 => m \in V
      BY <3>1, <2>2
    <3> HIDE DEF V
    <3>3. i - 1 \in V
      BY <2>1, <3>1, <3>2, Climb
    <3> QED BY <3>1, <3>3, <1>1 DEF V
  <2> QED BY <1>7, <2>3
<1> QED BY <1>8, <1>9, <1>10 DEF N

\* What is shown by a flattening is what the sequences show.
LEMMA FlattenedRange ==
    ASSUME NEW S, NEW ss \in Seq(Seq(S))
    PROVE  /\ FlattenSeq(ss) \in Seq(S)
           /\ Range(FlattenSeq(ss)) = UNION {Range(ss[i]) : i \in DOMAIN ss}
<1>1. CASE ss = <<>>
  BY <1>1 DEF FlattenSeq, Range
<1>2. CASE ss # <<>>
  <2> DEFINE N == Len(ss)
  <2>1. N \in Nat /\ N >= 1 /\ DOMAIN ss = 1..N /\ \A i \in 1..N : ss[i] \in Seq(S)
    BY <1>2, LenProperties, EmptySeq, ElementOfSeq
  <2>2. PICK f \in [1..N -> Seq(S)] : IsFlattening(f, ss, N) /\ FlattenSeq(ss) = f[N]
    BY <1>2, FlatteningIs
  <2> HIDE DEF N
  <2> DEFINE V == {n \in Nat : n + 1 <= N =>
                      Range(f[n + 1]) = UNION {Range(ss[i]) : i \in 1..(n + 1)}}
  <2>3. 0 \in V
    BY <2>1, <2>2 DEF IsFlattening
  <2>4. ASSUME NEW k \in 0..(N - 1), NEW m \in 0..(N - 1), k \in V, m = k + 1
        PROVE  m \in V
    <3>1. m \in Nat /\ m \in 1..N /\ m + 1 \in 2..N /\ (m + 1) - 1 = m /\ m + 1 \in 1..N
      BY <2>1, <2>4
    <3>2. f[m + 1] = f[m] \o ss[m + 1] /\ f[m] \in Seq(S) /\ ss[m + 1] \in Seq(S)
      BY <2>1, <2>2, <3>1 DEF IsFlattening
    <3>3. Range(f[m + 1]) = Range(f[m]) \cup Range(ss[m + 1])
      BY <3>2, RangeConcatenation
    <3>4. Range(f[m]) = UNION {Range(ss[i]) : i \in 1..m}
      BY <2>1, <2>4, <3>1, SMTT(30)
    <3>5. 1..(m + 1) = 1..m \cup {m + 1}
      BY <3>1
    <3> QED BY ZenonT(30), <3>1, <3>3, <3>4, <3>5
  <2> HIDE DEF V
  <2>5. N - 1 \in V
    BY <2>1, <2>3, <2>4, Climb
  <2>6. Range(f[N]) = UNION {Range(ss[i]) : i \in 1..N}
    <3>1. (N - 1) + 1 = N /\ N <= N
      BY <2>1
    <3> QED BY <2>5, <3>1 DEF V
  <2> QED BY <2>1, <2>2, <2>6
<1> QED BY <1>1, <1>2

\* Two sequences that show different things, one after the other.
LEMMA OnceInConcat ==
    ASSUME NEW S, NEW s \in Seq(S), NEW t \in Seq(S), OnlyOnce(s), OnlyOnce(t),
           Range(s) \cap Range(t) = {}
    PROVE  OnlyOnce(s \o t)
<1> DEFINE u == s \o t
<1>1. /\ u \in Seq(S) /\ Len(u) = Len(s) + Len(t) /\ Len(s) \in Nat /\ Len(t) \in Nat
      /\ DOMAIN u = 1..Len(u) /\ DOMAIN s = 1..Len(s) /\ DOMAIN t = 1..Len(t)
      /\ \A i \in 1..Len(u) : u[i] = IF i <= Len(s) THEN s[i] ELSE t[i - Len(s)]
  BY ConcatProperties, LenProperties
<1> HIDE DEF u
<1>2. ASSUME NEW k \in 1..Len(u), NEW l \in 1..Len(u), u[k] = u[l] PROVE k = l
  <2>1. /\ k \in Nat /\ l \in Nat
        /\ (k <= Len(s) => k \in DOMAIN s) /\ (l <= Len(s) => l \in DOMAIN s)
        /\ (~(k <= Len(s)) => k - Len(s) \in DOMAIN t)
        /\ (~(l <= Len(s)) => l - Len(s) \in DOMAIN t)
    BY <1>1
  <2>2. \A i \in DOMAIN s, j \in DOMAIN t : s[i] # t[j]
    BY DEF Range
  <2>3. CASE k <= Len(s) /\ l <= Len(s)
    BY <1>1, <1>2, <2>1, <2>3 DEF OnlyOnce
  <2>4. CASE ~(k <= Len(s)) /\ ~(l <= Len(s))
    <3>1. t[k - Len(s)] = t[l - Len(s)]
      BY <1>1, <1>2, <2>4
    <3>2. k - Len(s) = l - Len(s)
      BY <2>1, <2>4, <3>1 DEF OnlyOnce
    <3> QED BY <1>1, <2>1, <3>2
  <2>5. CASE (k <= Len(s)) /\ ~(l <= Len(s))
    BY <1>1, <1>2, <2>1, <2>2, <2>5
  <2>6. CASE ~(k <= Len(s)) /\ (l <= Len(s))
    BY <1>1, <1>2, <2>1, <2>2, <2>6
  <2> QED BY <2>3, <2>4, <2>5, <2>6
<1> QED BY <1>1, <1>2 DEF OnlyOnce, u

\* A flattening shows nothing twice that no sequence shows twice and no two
\* sequences share.
LEMMA FlattenedOnce ==
    ASSUME NEW S, NEW ss \in Seq(Seq(S)),
           \A i \in DOMAIN ss : OnlyOnce(ss[i]),
           \A i, j \in DOMAIN ss : i # j => Range(ss[i]) \cap Range(ss[j]) = {}
    PROVE  OnlyOnce(FlattenSeq(ss))
<1>1. CASE ss = <<>>
  BY <1>1 DEF FlattenSeq, OnlyOnce
<1>2. CASE ss # <<>>
  <2> DEFINE N == Len(ss)
  <2>1. N \in Nat /\ N >= 1 /\ DOMAIN ss = 1..N /\ \A i \in 1..N : ss[i] \in Seq(S)
    BY <1>2, LenProperties, EmptySeq, ElementOfSeq
  <2>2. PICK f \in [1..N -> Seq(S)] : IsFlattening(f, ss, N) /\ FlattenSeq(ss) = f[N]
    BY <1>2, FlatteningIs
  <2> HIDE DEF N
  <2> DEFINE V == {n \in Nat : n + 1 <= N =>
                      /\ OnlyOnce(f[n + 1])
                      /\ Range(f[n + 1]) = UNION {Range(ss[i]) : i \in 1..(n + 1)}}
  <2>3. 0 \in V
    <3>1. f[1] = ss[1] /\ 1 \in DOMAIN ss /\ 0 + 1 = 1 /\ 1..1 = {1}
      BY <2>1, <2>2 DEF IsFlattening
    <3>2. OnlyOnce(f[1]) /\ Range(f[1]) = UNION {Range(ss[i]) : i \in 1..1}
      BY <3>1
    <3> QED BY <3>1, <3>2, Zenon
  <2>4. ASSUME NEW k \in 0..(N - 1), NEW m \in 0..(N - 1), k \in V, m = k + 1
        PROVE  m \in V
    <3>1. m \in Nat /\ m \in 1..N /\ m + 1 \in 2..N /\ (m + 1) - 1 = m /\ m + 1 \in 1..N
      BY <2>1, <2>4
    <3>2. f[m + 1] = f[m] \o ss[m + 1] /\ f[m] \in Seq(S) /\ ss[m + 1] \in Seq(S)
      BY <2>1, <2>2, <3>1 DEF IsFlattening
    <3>3. Range(f[m + 1]) = Range(f[m]) \cup Range(ss[m + 1])
      BY <3>2, RangeConcatenation
    <3>4. OnlyOnce(f[m]) /\ Range(f[m]) = UNION {Range(ss[i]) : i \in 1..m}
      BY SMTT(30), <2>1, <2>4, <3>1
    <3>5. 1..(m + 1) = 1..m \cup {m + 1}
      BY <3>1
    <3>6. Range(f[m + 1]) = UNION {Range(ss[i]) : i \in 1..(m + 1)}
      BY <3>3, <3>4, <3>5
    <3>7. \A i \in 1..m : i \in DOMAIN ss /\ i # m + 1
      BY <2>1, <3>1
    <3>8. Range(f[m]) \cap Range(ss[m + 1]) = {}
      BY <2>1, <3>1, <3>4, <3>7
    <3>9. OnlyOnce(ss[m + 1])
      BY <2>1, <3>1
    <3>10. OnlyOnce(f[m] \o ss[m + 1])
      BY <3>2, <3>4, <3>8, <3>9, OnceInConcat
    <3>11. OnlyOnce(f[m + 1])
      BY <3>10, <3>2
    <3> HIDE DEF V
    <3> QED BY <3>1, <3>6, <3>11 DEF V
  <2> HIDE DEF V
  <2>5. N - 1 \in V
    BY <2>1, <2>3, <2>4, Climb
  <2> QED BY <2>1, <2>2, <2>5 DEF V
<1> QED BY <1>1, <1>2

\* One sequence after another has the entries of both.
LEMMA Appended ==
    ASSUME NEW S, NEW s \in Seq(S), NEW t \in Seq(S)
    PROVE  /\ s \o t \in Seq(S) /\ Len(s \o t) = Len(s) + Len(t)
           /\ \A i \in 1..Len(s) : (s \o t)[i] = s[i]
           /\ \A i \in 1..Len(t) : (s \o t)[Len(s) + i] = t[i]
<1> DEFINE u == s \o t
           n == Len(s)
           m == Len(t)
<1>0. n \in Nat /\ m \in Nat
  BY LenProperties
<1>1. /\ u \in Seq(S) /\ Len(u) = n + m
      /\ \A i \in 1..(n + m) : u[i] = IF i <= n THEN s[i] ELSE t[i - n]
  BY ConcatProperties
<1> HIDE DEF u, n, m
<1>2. ASSUME NEW i \in 1..n PROVE u[i] = s[i]
  <2>1. i \in 1..(n + m) /\ i <= n
    BY <1>0
  <2> QED BY <1>1, <2>1
<1>3. ASSUME NEW i \in 1..m PROVE u[n + i] = t[i]
  <2>1. n + i \in 1..(n + m) /\ ~(n + i <= n) /\ (n + i) - n = i
    BY <1>0
  <2> QED BY <1>1, <2>1
<1> QED BY <1>1, <1>2, <1>3 DEF u, n, m

\* A flattening has, after so many places, each of the sequences in one piece,
\* and nothing else.
ArePlaces(at, ss, flat) ==
    /\ \A i \in DOMAIN ss : \A j \in 1..Len(ss[i]) :
          at[i] + j \in 1..Len(flat) /\ flat[at[i] + j] = ss[i][j]
    /\ \A k \in 1..Len(flat) : \E i \in DOMAIN ss : \E j \in 1..Len(ss[i]) : k = at[i] + j

\* A flattening has such places.
LEMMA FlattenedPlaces ==
    ASSUME NEW S, NEW ss \in Seq(Seq(S))
    PROVE  \E at \in [DOMAIN ss -> Nat] : ArePlaces(at, ss, FlattenSeq(ss))
<1>1. CASE ss = <<>>
  <2>1. FlattenSeq(ss) = <<>> /\ DOMAIN ss = {} /\ Len(<<>>) = 0
    BY <1>1 DEF FlattenSeq
  <2> DEFINE at == [i \in DOMAIN ss |-> 0]
  <2>2. at \in [DOMAIN ss -> Nat]
    OBVIOUS
  <2>3. ArePlaces(at, ss, FlattenSeq(ss))
    BY <2>1 DEF ArePlaces
  <2> QED BY <2>2, <2>3
<1>2. CASE ss # <<>>
  <2> DEFINE N == Len(ss)
  <2>1. N \in Nat /\ N >= 1 /\ DOMAIN ss = 1..N /\ \A i \in 1..N : ss[i] \in Seq(S)
    BY <1>2, LenProperties, EmptySeq, ElementOfSeq
  <2>2. PICK f \in [1..N -> Seq(S)] : IsFlattening(f, ss, N) /\ FlattenSeq(ss) = f[N]
    BY <1>2, FlatteningIs
  <2> HIDE DEF N
  <2> DEFINE at == [i \in 1..N |-> IF i = 1 THEN 0 ELSE Len(f[i - 1])]
             Placed(n) ==
                /\ \A i \in 1..n : \A j \in 1..Len(ss[i]) :
                      at[i] + j \in 1..Len(f[n]) /\ f[n][at[i] + j] = ss[i][j]
                /\ \A k \in 1..Len(f[n]) : \E i \in 1..n : \E j \in 1..Len(ss[i]) :
                      k = at[i] + j
             V == {n \in Nat : n + 1 <= N => Placed(n + 1)}
  <2>3. ASSUME NEW i \in 1..N
        PROVE  /\ f[i] \in Seq(S) /\ Len(f[i]) \in Nat /\ Len(ss[i]) \in Nat
               /\ i # 1 => i - 1 \in 1..N /\ f[i] = f[i - 1] \o ss[i]
    <3>1. i # 1 => i \in 2..N /\ i - 1 \in 1..N
      BY <2>1
    <3> QED BY <2>1, <2>2, <3>1, LenProperties DEF IsFlattening
  <2>4. at \in [1..N -> Nat] /\ at[1] = 0 /\ \A i \in 1..N : i # 1 => at[i] = Len(f[i - 1])
    BY <2>1, <2>3
  <2> HIDE DEF at
  <2>5. 0 \in V
    <3>1. f[1] = ss[1] /\ 0 + 1 = 1 /\ 1 \in 1..N /\ 1..1 = {1} /\ Len(ss[1]) \in Nat
      BY <2>1, <2>2, <2>3 DEF IsFlattening
    <3>2. Placed(1)
      BY <2>4, <3>1
    <3> HIDE DEF Placed
    <3> QED BY <3>1, <3>2
  <2>6. ASSUME NEW k \in 0..(N - 1), NEW m \in 0..(N - 1), k \in V, m = k + 1
        PROVE  m \in V
    <3>1. m \in Nat /\ m \in 1..N /\ (m + 1) - 1 = m /\ m + 1 \in 1..N /\ m + 1 # 1
            /\ 1..(m + 1) = 1..m \cup {m + 1}
      BY <2>1, <2>6
    <3> DEFINE s == f[m]
               t == ss[m + 1]
               u == f[m + 1]
    <3>2. s \in Seq(S) /\ t \in Seq(S) /\ u = s \o t /\ at[m + 1] = Len(s)
      BY <2>1, <2>2, <2>3, <2>4, <3>1
    <3>3. Placed(m)
      BY <2>1, <2>6, <3>1
    <3> HIDE DEF s, t, u, Placed, V
    <3>4. /\ Len(u) = Len(s) + Len(t) /\ Len(s) \in Nat /\ Len(t) \in Nat
          /\ \A i \in 1..Len(s) : u[i] = s[i]
          /\ \A i \in 1..Len(t) : u[Len(s) + i] = t[i]
      BY <3>2, Appended, LenProperties
    <3>5. ASSUME NEW i \in 1..(m + 1), NEW j \in 1..Len(ss[i])
          PROVE  at[i] + j \in 1..Len(u) /\ u[at[i] + j] = ss[i][j]
      <4>1. CASE i = m + 1
        <5>1. j \in 1..Len(t) /\ at[i] = Len(s)
          BY <3>2, <4>1 DEF t
        <5>2. Len(s) + j \in 1..Len(u) /\ u[Len(s) + j] = t[j]
          BY <3>4, <5>1
        <5> QED BY <4>1, <5>1, <5>2 DEF t
      <4>2. CASE i \in 1..m
        <5>1. at[i] + j \in 1..Len(s) /\ s[at[i] + j] = ss[i][j]
          BY <3>3, <4>2 DEF Placed, s
        <5>2. 1..Len(s) \subseteq 1..Len(u)
          BY <3>4
        <5> QED BY <3>4, <5>1, <5>2
      <4> QED BY <3>1, <4>1, <4>2
    <3>6. ASSUME NEW l \in 1..Len(u)
          PROVE  \E i \in 1..(m + 1) : \E j \in 1..Len(ss[i]) : l = at[i] + j
      <4>1. CASE l <= Len(s)
        <5>1. l \in 1..Len(s)
          BY <3>4, <4>1
        <5>2. PICK i \in 1..m : \E j \in 1..Len(ss[i]) : l = at[i] + j
          BY <3>3, <5>1 DEF Placed, s
        <5> QED BY <3>1, <5>2
      <4>2. CASE ~(l <= Len(s))
        <5>1. l - Len(s) \in 1..Len(t) /\ l = Len(s) + (l - Len(s))
          BY <3>4, <4>2
        <5>2. m + 1 \in 1..(m + 1) /\ at[m + 1] = Len(s)
          BY <3>1, <3>2
        <5> QED BY <5>1, <5>2 DEF t
      <4> QED BY <4>1, <4>2
    <3>7. Placed(m + 1)
      BY <3>5, <3>6 DEF Placed, u
    <3> QED BY <3>1, <3>7 DEF V
  <2> HIDE DEF Placed, V
  <2>7. N - 1 \in V
    BY <2>1, <2>5, <2>6, Climb
  <2>8. Placed(N)
    <3>1. (N - 1) + 1 = N /\ N <= N
      BY <2>1
    <3> QED BY <2>7, <3>1 DEF V
  <2>9. ArePlaces(at, ss, FlattenSeq(ss))
    <3> DEFINE flat == f[N]
               D == DOMAIN ss
    <3>1. /\ \A i \in D : \A j \in 1..Len(ss[i]) :
                at[i] + j \in 1..Len(flat) /\ flat[at[i] + j] = ss[i][j]
          /\ \A k \in 1..Len(flat) : \E i \in D : \E j \in 1..Len(ss[i]) : k = at[i] + j
      <4>1. D = 1..N
        BY <2>1
      <4> HIDE DEF D
      <4> QED BY <2>8, <4>1 DEF Placed
    <3> HIDE DEF flat
    <3>2. ArePlaces(at, ss, flat)
      BY <3>1 DEF ArePlaces
    <3> QED BY <2>2, <3>2 DEF flat
  <2> QED BY <2>1, <2>4, <2>9
<1> QED BY <1>1, <1>2

-----------------------------------------------------------------------------
(* Powers of ten *)

\* f is the powers of ten up to n.
ArePowers(f, n) ==
    f = [k \in 0..n |-> IF k = 0 THEN 1 ELSE 10 * f[k - 1]]

\* There is a function of the powers of ten.
LEMMA PowersExist ==
    ASSUME NEW n \in Nat
    PROVE  \E f \in [0..n -> Nat] : ArePowers(f, n)
<1> DEFINE T == {m \in Nat : \E f \in [0..m -> Nat] : ArePowers(f, m)}
<1>1. 0 \in T
  <2> DEFINE f == [k \in 0..0 |-> 1]
  <2>1. f \in [0..0 -> Nat] /\ ArePowers(f, 0)
    BY DEF ArePowers
  <2> HIDE DEF f
  <2> QED BY <2>1
<1>2. ASSUME NEW k \in 0..n, NEW m \in 0..n, k \in T, m = k + 1 PROVE m \in T
  <2>1. PICK f \in [0..k -> Nat] : ArePowers(f, k)
    BY <1>2
  <2> DEFINE g == [i \in 0..m |-> IF i = m THEN 10 * f[k] ELSE f[i]]
  <2>2. k \in Nat /\ m \in Nat /\ k \in 0..k /\ f[k] \in Nat
    BY <1>2
  <2>3. g \in [0..m -> Nat]
    BY <1>2, <2>2
  <2>4. ASSUME NEW i \in 0..m PROVE g[i] = IF i = 0 THEN 1 ELSE 10 * g[i - 1]
    <3>1. CASE i = m
      <4>1. i # 0 /\ i - 1 = k /\ k # m /\ k \in 0..m
        BY <1>2, <2>2, <3>1
      <4> QED BY <3>1, <4>1
    <3>2. CASE i # m
      <4>1. i \in 0..k /\ (i # 0 => i - 1 \in 0..m /\ i - 1 # m)
        BY <1>2, <2>2, <3>2
      <4>2. f[i] = IF i = 0 THEN 1 ELSE 10 * f[i - 1]
        BY <2>1, <4>1 DEF ArePowers
      <4> QED BY <3>2, <4>1, <4>2
    <3> QED BY <3>1, <3>2
  <2> HIDE DEF g
  <2>5. ArePowers(g, m)
    BY <2>3, <2>4 DEF ArePowers
  <2> QED BY <2>2, <2>3, <2>5
<1> HIDE DEF T
<1>3. n \in T
  BY <1>1, <1>2, Climb
<1> QED BY <1>3 DEF T

\* There is one such function.
LEMMA PowersAreOne ==
    ASSUME NEW n \in Nat, NEW m \in Nat, NEW k \in 0..n, k \in 0..m,
           NEW f, ArePowers(f, n), NEW g, ArePowers(g, m)
    PROVE  f[k] = g[k]
<1> DEFINE T == {i \in Nat : i <= k => f[i] = g[i]}
<1>1. 0 \in T
  BY DEF ArePowers
<1>2. ASSUME NEW i \in 0..k, NEW j \in 0..k, i \in T, j = i + 1 PROVE j \in T
  <2>1. j \in 0..n /\ j \in 0..m /\ j # 0 /\ j - 1 = i /\ f[i] = g[i]
    BY <1>2
  <2>2. f[j] = 10 * f[j - 1] /\ g[j] = 10 * g[j - 1]
    BY <2>1 DEF ArePowers
  <2> QED BY <2>1, <2>2
<1> HIDE DEF T
<1>3. k \in T
  BY <1>1, <1>2, Climb
<1> QED BY <1>3 DEF T

\* What a power of ten is.
LEMMA TenToIs ==
    /\ TenTo(0) = 1
    /\ \A n \in Nat : TenTo(n) \in Nat \ {0} /\ TenTo(n + 1) = 10 * TenTo(n)
<1>1. ASSUME NEW n \in Nat
      PROVE  \E f \in [0..n -> Nat] : ArePowers(f, n) /\ TenTo(n) = f[n]
  <2> DEFINE P == CHOOSE f : f = [k \in 0..n |-> IF k = 0 THEN 1 ELSE 10 * f[k - 1]]
  <2>1. TenTo(n) = P[n]
    BY DEF TenTo
  <2>2. PICK g \in [0..n -> Nat] : ArePowers(g, n)
    BY PowersExist
  <2>3. g = [k \in 0..n |-> IF k = 0 THEN 1 ELSE 10 * g[k - 1]]
    BY <2>2 DEF ArePowers
  <2>4. P = [k \in 0..n |-> IF k = 0 THEN 1 ELSE 10 * P[k - 1]]
    BY <2>3
  <2> HIDE DEF P
  <2>5. ArePowers(P, n)
    BY <2>4 DEF ArePowers
  <2>6. P[n] = g[n]
    BY <2>2, <2>5, PowersAreOne
  <2> QED BY <2>1, <2>2, <2>6
<1>2. TenTo(0) = 1
  <2>1. PICK f \in [0..0 -> Nat] : ArePowers(f, 0) /\ TenTo(0) = f[0]
    BY <1>1
  <2> QED BY <2>1 DEF ArePowers
<1>3. ASSUME NEW n \in Nat PROVE TenTo(n) \in Nat /\ TenTo(n + 1) = 10 * TenTo(n)
  <2>1. PICK f \in [0..n -> Nat] : ArePowers(f, n) /\ TenTo(n) = f[n]
    BY <1>1
  <2>2. n + 1 \in Nat
    OBVIOUS
  <2>3. PICK g \in [0..(n + 1) -> Nat] : ArePowers(g, n + 1) /\ TenTo(n + 1) = g[n + 1]
    BY <1>1, <2>2
  <2>4. f[n] = g[n]
    BY <2>1, <2>2, <2>3, PowersAreOne, SMTT(30)
  <2>5. n + 1 \in 0..(n + 1) /\ n + 1 # 0 /\ (n + 1) - 1 = n
    OBVIOUS
  <2>6. g[n + 1] = 10 * g[n]
    BY <2>3, <2>5 DEF ArePowers
  <2> QED BY <2>1, <2>3, <2>4, <2>6
<1> DEFINE T == {n \in Nat : TenTo(n) # 0}
<1>4. ASSUME NEW n \in Nat PROVE n \in T
  <2>1. 0 \in T
    BY <1>2
  <2>2. \A k, m \in 0..n : k \in T /\ m = k + 1 => m \in T
    BY <1>3
  <2> HIDE DEF T
  <2> QED BY <2>1, <2>2, Climb
<1> QED BY <1>2, <1>3, <1>4

\* Powers multiply by the sum of what they are to.
LEMMA TenToSum == \A a, b \in Nat : TenTo(a + b) = TenTo(a) * TenTo(b)
<1> SUFFICES ASSUME NEW a \in Nat, NEW b \in Nat PROVE TenTo(a + b) = TenTo(a) * TenTo(b)
  OBVIOUS
<1> DEFINE T == {n \in Nat : TenTo(a + n) = TenTo(a) * TenTo(n)}
<1>1. 0 \in T
  BY TenToIs
<1>2. ASSUME NEW k \in 0..b, NEW m \in 0..b, k \in T, m = k + 1 PROVE m \in T
  <2>1. k \in Nat /\ m \in Nat /\ a + k \in Nat /\ a + m = (a + k) + 1
    BY <1>2
  <2> DEFINE x == TenTo(a)
             y == TenTo(k)
  <2>2. /\ x \in Nat /\ y \in Nat
        /\ TenTo(a + m) = 10 * TenTo(a + k) /\ TenTo(m) = 10 * y
    BY <1>2, <2>1, TenToIs
  <2>3. TenTo(a + k) = x * y
    BY <1>2
  <2> HIDE DEF x, y
  <2>4. 10 * (x * y) = x * (10 * y)
    BY <2>2
  <2>5. TenTo(a + m) = x * TenTo(m)
    BY <2>2, <2>3, <2>4
  <2> QED BY <2>1, <2>5 DEF x
<1> HIDE DEF T
<1>3. b \in T
  BY <1>1, <1>2, Climb
<1> QED BY <1>3 DEF T

\* A percentage is shown a hundred times as large.
LEMMA AHundred == TenTo(2) = 100
<1>1. TenTo(0 + 1) = 10 * TenTo(0) /\ TenTo(1 + 1) = 10 * TenTo(1)
  BY TenToIs
<1> QED BY <1>1, TenToIs

-----------------------------------------------------------------------------
(* Rounding *)

\* A half more than a quotient rounds it to the nearest, up from the middle.
LEMMA HalvesRound ==
    ASSUME NEW a \in Nat, NEW d \in Nat \ {0}
    PROVE  LET q == (2 * a + d) \div (2 * d)
           IN  /\ q \in Nat
               /\ 2 * Abs(q * d - a) <= d
               /\ 2 * Abs(q * d - a) = d => q * d > a
<1> DEFINE q == (2 * a + d) \div (2 * d)
<1>1. /\ q \in Int
      /\ q * (2 * d) <= 2 * a + d /\ 2 * a + d < q * (2 * d) + 2 * d
  OBVIOUS
<1> HIDE DEF q
<1> DEFINE p == q * d
<1>2. q * (2 * d) = 2 * p
  BY <1>1
<1>3. p \in Int
  BY <1>1
<1>4. q >= 0
  <2>1. SUFFICES ASSUME q <= -1 PROVE FALSE
    BY <1>1
  <2>2. p <= -d
    BY <1>1, <2>1
  <2> HIDE DEF p
  <2> QED BY <1>1, <1>2, <1>3, <2>2
<1> HIDE DEF p
<1>5. 2 * p <= 2 * a + d /\ 2 * a + d < 2 * p + 2 * d
  BY <1>1, <1>2
<1>6. 2 * Abs(p - a) <= d /\ (2 * Abs(p - a) = d => p > a)
  BY <1>3, <1>5 DEF Abs
<1> QED BY <1>1, <1>4, <1>6 DEF p, q

\* The nearest to a number of either sign is that of its size, with its sign.
LEMMA HalfUpIs ==
    ASSUME NEW n \in Int, NEW d \in Nat \ {0}
    PROVE  /\ HalfUp(n, d) \in Int
           /\ 2 * Abs(HalfUp(n, d) * d - n) <= d
           /\ 2 * Abs(HalfUp(n, d) * d - n) = d => Abs(HalfUp(n, d) * d) > Abs(n)
           /\ HalfUp(-n, d) = -HalfUp(n, d)
<1> DEFINE a == Abs(n)
           q == (2 * a + d) \div (2 * d)
           h == HalfUp(n, d)
<1>1. a \in Nat /\ Abs(-n) = a /\ -n \in Int
  BY DEF Abs
<1>2. q \in Nat /\ 2 * Abs(q * d - a) <= d /\ (2 * Abs(q * d - a) = d => q * d > a)
  <2> HIDE DEF a
  <2> QED BY <1>1, HalvesRound
<1>3. h = Sign(n) * q
  BY DEF HalfUp
<1>4. HalfUp(-n, d) = Sign(-n) * q
  <2>1. HalfUp(-n, d) = Sign(-n) * ((2 * Abs(-n) + d) \div (2 * d))
    BY DEF HalfUp
  <2> QED BY <1>1, <2>1
<1>5. n = 0 => q = 0
  <2>1. n = 0 => a = 0
    BY DEF Abs
  <2> HIDE DEF q
  <2>2. ASSUME n = 0, q >= 1 PROVE FALSE
    <3> DEFINE p == q * d
    <3>1. p >= d /\ p \in Int
      BY <1>2, <2>2
    <3> HIDE DEF p
    <3>2. 2 * Abs(p - 0) <= d
      BY <1>2, <2>1, <2>2 DEF p
    <3> QED BY <3>1, <3>2 DEF Abs
  <2> QED BY <1>2, <2>2
<1> HIDE DEF q, h
<1>6. CASE n < 0
  <2>1. Sign(n) = -1 /\ Sign(-n) = 1 /\ a = -n
    BY <1>6 DEF Sign, Abs
  <2>2. h = -q /\ HalfUp(-n, d) = q
    BY <1>2, <1>3, <1>4, <2>1
  <2> DEFINE p == q * d
  <2>3. h * d = -p /\ p \in Nat
    BY <1>2, <2>2
  <2>4. 2 * Abs(p + n) <= d /\ (2 * Abs(p + n) = d => p > -n)
    BY <1>2, <2>1
  <2> HIDE DEF p
  <2>5. 2 * Abs((-p) - n) <= d /\ (2 * Abs((-p) - n) = d => Abs(-p) > Abs(n))
    BY <1>6, <2>3, <2>4 DEF Abs
  <2>6. 2 * Abs(h * d - n) <= d /\ (2 * Abs(h * d - n) = d => Abs(h * d) > Abs(n))
    BY <2>3, <2>5
  <2>7. h \in Int /\ HalfUp(-n, d) = -h
    BY <1>2, <2>2
  <2> QED BY <2>6, <2>7 DEF h
<1>7. CASE n >= 0
  <2>1. Sign(n) = 1 /\ a = n /\ (n # 0 => Sign(-n) = -1)
    BY <1>7 DEF Sign, Abs
  <2>2. h = q /\ HalfUp(-n, d) = -q
    <3>1. CASE n # 0
      BY <1>2, <1>3, <1>4, <2>1, <3>1
    <3>2. CASE n = 0
      <4>1. Sign(-n) \in Int
        BY DEF Sign
      <4> QED BY <1>2, <1>3, <1>4, <1>5, <2>1, <3>2, <4>1
    <3> QED BY <3>1, <3>2
  <2> DEFINE p == q * d
  <2>3. h * d = p /\ p \in Nat
    BY <1>2, <2>2
  <2>4. 2 * Abs(p - n) <= d /\ (2 * Abs(p - n) = d => p > n)
    BY <1>2, <2>1
  <2> HIDE DEF p
  <2>5. 2 * Abs(p - n) = d => Abs(p) > Abs(n)
    BY <1>7, <2>3, <2>4 DEF Abs
  <2>6. 2 * Abs(h * d - n) <= d /\ (2 * Abs(h * d - n) = d => Abs(h * d) > Abs(n))
    BY <2>3, <2>4, <2>5
  <2>7. h \in Int /\ HalfUp(-n, d) = -h
    BY <1>2, <2>2
  <2> QED BY <2>6, <2>7 DEF h
<1> QED BY <1>6, <1>7

\* The places of a display, and what it is a display of, on the finer of the
\* two scales.
Shift(percent) == IF percent THEN 2 ELSE 0
Finest(decimal, places) == IF decimal.exponent > places THEN decimal.exponent ELSE places

\* What is shown of a decimal is the nearest of the places it is shown with.
LEMMA DisplayIs ==
    ASSUME NEW decimal, IsDecimal(decimal), NEW places \in Int, NEW percent
    PROVE  LET p == places + Shift(percent)
               fine == Finest(decimal, p)
               unit == TenTo(fine - p)
               exact == decimal.digits * TenTo(fine - decimal.exponent)
               shown == Displayed(decimal, places, percent)
           IN  /\ shown \in Int /\ unit \in Nat \ {0} /\ exact \in Int
               /\ 2 * Abs(shown * unit - exact) <= unit
               /\ 2 * Abs(shown * unit - exact) = unit => Abs(shown * unit) > Abs(exact)
<1> DEFINE d == decimal.digits
           e == decimal.exponent
           p == places + Shift(percent)
           fine == Finest(decimal, p)
           unit == TenTo(fine - p)
           exact == d * TenTo(fine - e)
           shown == Displayed(decimal, places, percent)
<1>1. d \in Int /\ e \in Int /\ p \in Int
  BY DEF IsDecimal, Shift
<1>2. shown = IF p - e >= 0 THEN d * TenTo(p - e) ELSE HalfUp(d, TenTo(-(p - e)))
  <2> DEFINE shift == Shift(percent)
  <2>1. shown = IF places + shift - e >= 0 THEN d * TenTo(places + shift - e)
                ELSE HalfUp(d, TenTo(-(places + shift - e)))
    BY DEF Displayed, Shift
  <2>2. shift \in Int
    BY DEF Shift
  <2> HIDE DEF shift, d, e, shown
  <2>3. places + shift - e = (places + shift) - e
    BY <1>1, <2>2
  <2> QED BY <2>1, <2>3 DEF shift
<1>3. fine = IF e > p THEN e ELSE p
  BY DEF Finest
<1> HIDE DEF d, e, p, fine, shown
<1>4. CASE p - e >= 0
  <2>1. fine = p /\ p - e \in Nat /\ fine - p = 0
    BY <1>1, <1>3, <1>4
  <2>2. unit = 1 /\ TenTo(p - e) \in Nat
    BY <2>1, TenToIs
  <2>3. shown = exact
    BY <1>2, <1>4, <2>1
  <2>4. exact \in Int
    BY <1>1, <2>1, <2>2
  <2> HIDE DEF unit, exact
  <2>5. shown * unit - exact = 0
    BY <2>2, <2>3, <2>4
  <2>6. 2 * Abs(0) = 0
    BY DEF Abs
  <2> QED BY <2>2, <2>3, <2>4, <2>5, <2>6 DEF unit, exact, shown, fine, p, d, e
<1>5. CASE ~(p - e >= 0)
  <2>1. fine = e /\ fine - p \in Nat /\ fine - p = -(p - e) /\ fine - e = 0
    BY <1>1, <1>3, <1>5
  <2>2. unit \in Nat \ {0} /\ exact = d
    BY <1>1, <2>1, TenToIs
  <2>3. shown = HalfUp(d, unit)
    BY <1>2, <1>5, <2>1
  <2> HIDE DEF unit, exact
  <2>4. /\ shown \in Int
        /\ 2 * Abs(shown * unit - d) <= unit
        /\ 2 * Abs(shown * unit - d) = unit => Abs(shown * unit) > Abs(d)
    BY <1>1, <2>2, <2>3, HalfUpIs
  <2> QED BY <1>1, <2>2, <2>4 DEF unit, exact, shown, fine, p, d, e
<1> QED BY <1>4, <1>5

\* A loss is shown exactly as its gain but for the sign.
LEMMA DisplayIsEven ==
    ASSUME NEW decimal, IsDecimal(decimal), NEW places \in Int, NEW percent
    PROVE  Displayed([decimal EXCEPT !.digits = -@], places, percent)
               = -Displayed(decimal, places, percent)
<1> DEFINE other == [decimal EXCEPT !.digits = -@]
           d == decimal.digits
           p == places + Shift(percent)
           up == p - decimal.exponent
<1>1. d \in Int /\ decimal.exponent \in Int /\ p \in Int
  BY DEF IsDecimal, Shift
<1>2. other.digits = -d /\ other.exponent = decimal.exponent
  BY DEF IsDecimal
<1> HIDE DEF other
<1>3. /\ Displayed(decimal, places, percent)
             = IF up >= 0 THEN d * TenTo(up) ELSE HalfUp(d, TenTo(-up))
      /\ Displayed(other, places, percent)
             = IF up >= 0 THEN (-d) * TenTo(up) ELSE HalfUp(-d, TenTo(-up))
  <2> DEFINE shift == Shift(percent)
             e == decimal.exponent
             over == places + shift - e
  <2>1. /\ Displayed(decimal, places, percent)
               = IF over >= 0 THEN d * TenTo(over) ELSE HalfUp(d, TenTo(-over))
        /\ Displayed(other, places, percent)
               = IF over >= 0 THEN (-d) * TenTo(over) ELSE HalfUp(-d, TenTo(-over))
    BY <1>2 DEF Displayed, Shift
  <2>2. shift \in Int
    BY DEF Shift
  <2>3. over = up
    <3> HIDE DEF shift, e
    <3>1. places + shift - e = (places + shift) - e
      BY <1>1, <2>2 DEF e
    <3> QED BY <3>1 DEF shift, e
  <2> HIDE DEF over, up
  <2> QED BY <2>1, <2>3
<1>4. up \in Int
  BY <1>1
<1> HIDE DEF up, d
<1>5. CASE up >= 0
  <2>1. TenTo(up) \in Nat
    BY <1>4, <1>5, TenToIs
  <2>2. (-d) * TenTo(up) = -(d * TenTo(up))
    BY <1>1, <2>1
  <2> QED BY <1>3, <1>5, <2>2 DEF other
<1>6. CASE ~(up >= 0)
  <2>1. TenTo(-up) \in Nat \ {0}
    BY <1>4, <1>6, TenToIs
  <2> QED BY <1>1, <1>3, <1>6, <2>1, HalfUpIs DEF other
<1> QED BY <1>5, <1>6

\* A number is shown within half a unit of its last place, a tie away from
\* zero, a loss as its gain (numeric_display.py:11-33).
LEMMA NumbersHold ==
    ASSUME NEW decimal, IsDecimal(decimal), NEW places \in Int, NEW percent
    PROVE  DisplayIsNearest(decimal, places, percent)
<1> DEFINE p == places + Shift(percent)
           fine == Finest(decimal, p)
           shown == Displayed(decimal, places, percent)
           unit == TenTo(fine - p)
           exact == decimal.digits * TenTo(fine - decimal.exponent)
<1>1. TenTo(fine - places - Shift(percent)) = unit
  <2>1. Shift(percent) \in Int /\ fine \in Int
    BY DEF IsDecimal, Shift, Finest
  <2> HIDE DEF fine
  <2>2. fine - places - Shift(percent) = fine - (places + Shift(percent))
    BY <2>1
  <2> QED BY <2>2
<1>2. /\ 2 * Abs(shown * unit - exact) <= unit
      /\ 2 * Abs(shown * unit - exact) = unit => Abs(shown * unit) > Abs(exact)
  BY DisplayIs
<1>3. Displayed([decimal EXCEPT !.digits = -@], places, percent) = -shown
  BY DisplayIsEven
<1>4. DisplayIsNearest(decimal, places, percent) =
        LET u == TenTo(fine - places - Shift(percent))
        IN  /\ 2 * Abs(shown * u - exact) <= u
            /\ 2 * Abs(shown * u - exact) = u => Abs(shown * u) > Abs(exact)
            /\ Displayed([decimal EXCEPT !.digits = -@], places, percent) = -shown
  BY DEF DisplayIsNearest, Shift, Finest
<1> HIDE DEF unit, exact, shown, fine
<1> QED BY <1>1, <1>2, <1>3, <1>4

\* Sizes multiply by a positive factor.
LEMMA AbsTimes ==
    ASSUME NEW x \in Int, NEW k \in Nat \ {0}
    PROVE  Abs(x * k) = Abs(x) * k
<1>1. CASE x < 0
  <2>1. x * k < 0
    BY <1>1
  <2>2. (-x) * k = -(x * k) /\ x * k \in Int
    OBVIOUS
  <2> QED BY <1>1, <2>1, <2>2 DEF Abs
<1>2. CASE x >= 0
  <2>1. x * k >= 0
    BY <1>2
  <2> QED BY <1>2, <2>1 DEF Abs
<1> QED BY <1>1, <1>2

\* What is shown as a percentage is the nearest to a hundred times the value.
LEMMA DisplayIsScaled ==
    ASSUME NEW decimal, IsDecimal(decimal), NEW places \in Int, NEW percent
    PROVE  LET fine == Finest(decimal, places)
               unit == TenTo(fine - places)
               exact == decimal.digits * TenTo(Shift(percent)) * TenTo(fine - decimal.exponent)
           IN  2 * Abs(Displayed(decimal, places, percent) * unit - exact) <= unit
<1> DEFINE d == decimal.digits
           e == decimal.exponent
           s == Shift(percent)
           p == places + s
           f == Finest(decimal, places)
           h == Finest(decimal, p)
           k == TenTo(s)
           unit == TenTo(f - places)
           exact == d * k * TenTo(f - e)
           shown == Displayed(decimal, places, percent)
<1>1. d \in Int /\ e \in Int /\ s \in {0, 2} /\ p \in Int /\ p = places + s
  BY DEF IsDecimal, Shift
<1>2. /\ f = IF e > places THEN e ELSE places
      /\ h = IF e > p THEN e ELSE p
  BY DEF Finest
<1>3. /\ shown \in Int
      /\ 2 * Abs(shown * TenTo(h - p) - d * TenTo(h - e)) <= TenTo(h - p)
  BY DisplayIs
<1> HIDE DEF d, e, s, p, f, h, shown
<1>4. k \in Nat \ {0}
  BY <1>1, TenToIs
<1> HIDE DEF k
<1>5. f - places \in Nat /\ f - e \in Nat
  BY <1>1, <1>2
<1>6. unit \in Nat \ {0} /\ TenTo(f - e) \in Nat \ {0}
  BY <1>5, TenToIs
<1>7. CASE p - e >= 0
  <2> DEFINE a == TenTo(p - e)
             b == TenTo(f - e)
  <2>1. h = p /\ h - p = 0 /\ p - e \in Nat
    BY <1>1, <1>2, <1>7
  <2>2. a \in Nat \ {0} /\ b \in Nat \ {0} /\ TenTo(h - p) = 1
    BY <1>6, <2>1, TenToIs
  <2>3. shown = d * a
    <3> DEFINE x == d * a
    <3>1. x \in Int
      BY <1>1, <2>2
    <3>2. 2 * Abs(shown * 1 - x) <= 1
      BY <1>3, <2>1, <2>2
    <3> HIDE DEF x
    <3>3. shown = x
      BY <1>3, <3>1, <3>2 DEF Abs
    <3> QED BY <3>3 DEF x
  <2>4. a * unit = k * b
    <3>1. (p - e) + (f - places) = s + (f - e) /\ s \in Nat
      BY <1>1, <1>2
    <3>2. TenTo((p - e) + (f - places)) = a * unit
      BY <1>5, <2>1, TenToSum
    <3>3. TenTo(s + (f - e)) = k * b
      BY <1>5, <3>1, TenToSum DEF k
    <3> QED BY <3>1, <3>2, <3>3
  <2> HIDE DEF a, b, unit
  <2>5. shown * unit = d * k * b
    <3>1. shown * unit = d * (a * unit)
      BY <1>1, <1>6, <2>2, <2>3
    <3>2. d * (k * b) = d * k * b
      BY <1>1, <1>4, <2>2
    <3> QED BY <2>4, <3>1, <3>2
  <2>6. exact \in Int /\ shown * unit - exact = 0
    <3>1. exact = d * k * b
      BY DEF b
    <3>2. exact \in Int
      BY <1>1, <1>4, <2>2, <3>1
    <3> HIDE DEF exact
    <3> QED BY <2>5, <3>1, <3>2
  <2> HIDE DEF exact
  <2>7. 2 * Abs(shown * unit - exact) <= unit
    BY <1>6, <2>6 DEF Abs
  <2> QED BY <2>7 DEF exact, unit, shown, f, e, d, s, k
<1>8. CASE ~(p - e >= 0)
  <2>1. h = e /\ f = e /\ h - p \in Nat /\ h - e = 0 /\ f - e = 0 /\ s \in Nat
          /\ f - places = (h - p) + s
    BY <1>1, <1>2, <1>8
  <2> DEFINE u == TenTo(h - p)
             x == shown * u - d
  <2>2. u \in Nat \ {0} /\ TenTo(f - e) = 1 /\ TenTo(h - e) = 1
    BY <2>1, TenToIs
  <2>3. unit = u * k
    BY <2>1, TenToSum DEF k
  <2>4. exact = d * k
    <3>1. d * k \in Int
      BY <1>1, <1>4
    <3> QED BY <2>2, <3>1
  <2>5. 2 * Abs(x) <= u
    BY <1>1, <1>3, <2>2
  <2> HIDE DEF unit, exact, u
  <2>6. x \in Int
    BY <1>1, <1>3, <2>2
  <2>7. shown * unit - exact = x * k
    BY <1>1, <1>3, <1>4, <2>2, <2>3, <2>4
  <2> HIDE DEF x
  <2>8. Abs(x * k) = Abs(x) * k /\ Abs(x) \in Int
    BY <1>4, <2>6, AbsTimes DEF Abs
  <2>9. 2 * (Abs(x) * k) <= u * k
    <3> DEFINE y == Abs(x)
    <3>1. y \in Int /\ 2 * y <= u
      BY <2>5, <2>8
    <3> HIDE DEF y
    <3>2. (2 * y) * k <= u * k
      BY <1>4, <2>2, <3>1
    <3>3. (2 * y) * k = 2 * (y * k)
      BY <1>4, <3>1
    <3> QED BY <3>2, <3>3 DEF y
  <2>10. 2 * Abs(shown * unit - exact) <= unit
    BY <2>3, <2>7, <2>8, <2>9
  <2> QED BY <2>10 DEF exact, unit, shown, f, e, d, s, k
<1> QED BY <1>7, <1>8

-----------------------------------------------------------------------------
(* Contents *)

\* A column that is right says with its sign whether it shows a hundred times
\* its values, and with its currency whether they are money.
LEMMA SuffixesSay ==
    ASSUME NEW content, content.currency \notin {"", "%", "pp"},
           NEW column, ColumnIsRight(content, column)
    PROVE  /\ (IF Suffix(column) \in {"%", "pp"} THEN 100 ELSE 1)
                  = TenTo(Shift(column.percent))
           /\ (Suffix(column) = content.currency) = (column.type = "MONEY")
           /\ Suffix(column) \in {"%", "pp"} =>
                 ArtifactIdentity(content).rounding = "ratio times 100 once"
<1> DEFINE family == Family(content.version)
           marked == Suffix(column) \in {"%", "pp"}
<1>1. family \in {"return", "linked", "eligibility", "pooled"}
  BY DEF Family
<1>2. column.currency = IF column.type = "MONEY" THEN content.currency ELSE NoCurrency
  BY DEF ColumnIsRight
<1>3. column.type = "MONEY" => Suffix(column) = content.currency
  <2> SUFFICES ASSUME column.type = "MONEY" PROVE Suffix(column) = content.currency
    OBVIOUS
  <2>1. column.display = "CURRENCY_UNITS"
    <3>1. CASE family = "return"
      BY <3>1 DEF ColumnIsRight, ReturnPolicy
    <3>2. CASE family = "linked"
      BY <3>2 DEF ColumnIsRight, LinkedPolicy
    <3>3. CASE family = "eligibility"
      BY <3>3 DEF ColumnIsRight, EligibilityPolicy
    <3>4. CASE family = "pooled"
      BY <3>4 DEF ColumnIsRight, PooledColumnPolicy
    <3> QED BY <1>1, <3>1, <3>2, <3>3, <3>4
  <2> QED BY <1>2, <2>1 DEF Suffix
<1>4. column.type # "MONEY" =>
        /\ Suffix(column) \in {"", "%", "pp"}
        /\ marked <=> column.display \in {"PERCENT", "PERCENTAGE_POINTS"}
  <2> SUFFICES ASSUME column.type # "MONEY"
               PROVE  /\ Suffix(column) \in {"", "%", "pp"}
                      /\ marked <=> column.display \in {"PERCENT", "PERCENTAGE_POINTS"}
    OBVIOUS
  <2>1. CASE column.display = "PERCENT"
    <3>1. Suffix(column) = "%"
      BY <2>1 DEF Suffix
    <3> QED BY <2>1, <3>1
  <2>2. CASE column.display = "PERCENTAGE_POINTS"
    <3>1. Suffix(column) = "pp"
      BY <2>2 DEF Suffix
    <3> QED BY <2>2, <3>1
  <2>3. CASE column.display \notin {"PERCENT", "PERCENTAGE_POINTS"}
    <3>1. Suffix(column) = ""
      BY <2>3 DEF Suffix
    <3> QED BY <2>3, <3>1
  <2> QED BY <2>1, <2>2, <2>3
<1> HIDE DEF marked
<1>5. marked <=> column.percent
  <2>1. CASE family = "return"
    <3>1. ReturnPolicy(column)
      BY <2>1 DEF ColumnIsRight
    <3> QED BY <1>3, <1>4, <3>1 DEF ReturnPolicy, marked
  <2>2. CASE family = "linked"
    <3>1. LinkedPolicy(column)
      BY <2>2 DEF ColumnIsRight
    <3> QED BY <1>3, <1>4, <3>1 DEF LinkedPolicy, marked
  <2>3. CASE family = "eligibility"
    <3>1. EligibilityPolicy(column)
      BY <2>3 DEF ColumnIsRight
    <3> QED BY <1>3, <1>4, <3>1 DEF EligibilityPolicy, marked
  <2>4. CASE family = "pooled"
    <3>1. PooledColumnPolicy(column)
      BY <2>4 DEF ColumnIsRight
    <3> QED BY <1>3, <1>4, <3>1 DEF PooledColumnPolicy, marked
  <2> QED BY <1>1, <2>1, <2>2, <2>3, <2>4
<1>6. family = "eligibility" => ~marked
  <2> SUFFICES ASSUME family = "eligibility" PROVE ~marked
    OBVIOUS
  <2>1. EligibilityPolicy(column)
    BY DEF ColumnIsRight
  <2> QED BY <1>3, <1>4, <2>1 DEF EligibilityPolicy, marked
<1>7. marked => ArtifactIdentity(content).rounding = "ratio times 100 once"
  <2>1. content.version \in {"v4", "v6", "v7"} => family = "eligibility"
    BY DEF Family
  <2> QED BY <1>6, <2>1 DEF ArtifactIdentity
<1>8. (IF marked THEN 100 ELSE 1) = TenTo(Shift(column.percent))
  BY <1>5, AHundred, TenToIs DEF Shift
<1>9. (Suffix(column) = content.currency) = (column.type = "MONEY")
  BY <1>3, <1>4
<1> QED BY <1>7, <1>8, <1>9 DEF marked

\* Where a shown cell is a number, its value is a decimal and the number that
\* decimal displayed, in as many places as the column has or else the decimal.
LEMMA NumbersAre ==
    ASSUME NEW family, NEW column, column.places \in Int, NEW cell,
           \/ cell.value = Null
           \/ DOMAIN cell.value = {"text"} /\ column.type \in AsText(family)
           \/ DOMAIN cell.value = {"digits", "exponent"} /\ IsDecimal(cell.value),
           "number" \in DOMAIN DisplayCell(family, column, cell)
    PROVE  LET shown == DisplayCell(family, column, cell)
           IN  /\ IsDecimal(cell.value) /\ shown.places \in Int
               /\ shown.number = Displayed(cell.value, shown.places, column.percent)
               /\ shown.suffix = Suffix(column)
<1> DEFINE shown == DisplayCell(family, column, cell)
           places == IF column.places = NoPlaces THEN cell.value.exponent ELSE column.places
<1>1. cell.value # Null
  <2>1. cell.value = Null => DOMAIN shown = {"says", "codes"}
    BY DEF DisplayCell
  <2> QED BY <2>1
<1>2. column.type \notin AsText(family)
  <2>1. column.type \in AsText(family) => shown = cell.value
    BY <1>1 DEF DisplayCell
  <2>2. "number" \notin DOMAIN cell.value
    BY <1>1
  <2> QED BY <2>1, <2>2
<1>3. IsDecimal(cell.value)
  BY <1>1, <1>2
<1>4. shown = [number |-> Displayed(cell.value, places, column.percent),
               places |-> places, suffix |-> Suffix(column)]
  BY <1>1, <1>2 DEF DisplayCell
<1>5. places \in Int
  BY <1>3 DEF IsDecimal
<1> HIDE DEF places, shown
<1> QED BY <1>3, <1>4, <1>5 DEF shown

\* What is identified has in every row a cell for every column, which is right.
LEMMA CellsAreThere ==
    ASSUME NEW content, IsContent(content), ContentIsIdentified(content),
           NEW t \in DOMAIN content.tables,
           NEW r \in DOMAIN content.tables[t].rows,
           NEW c \in DOMAIN content.tables[t].columns
    PROVE  LET column == content.tables[t].columns[c]
               cells == content.tables[t].rows[r].cells
               value == cells[column.id].value
           IN  /\ ColumnIsRight(content, column) /\ column.places \in Int
               /\ column.id \in DOMAIN cells
               /\ \/ value = Null
                  \/ DOMAIN value = {"text"}
                     /\ column.type \in AsText(Family(content.version))
                  \/ DOMAIN value = {"digits", "exponent"} /\ IsDecimal(value)
<1> DEFINE table == content.tables[t]
           column == table.columns[c]
           cells == table.rows[r].cells
<1>1. TableIsIdentified(table) /\ ColumnIsRight(content, column)
  BY DEF ContentIsIdentified
<1>2. column.id \in DOMAIN cells
  BY <1>1 DEF TableIsIdentified
<1> QED BY <1>1, <1>2 DEF IsContent

\* A figure is never shown a hundred times off, and money with its currency
\* (presentation.py:15-51, eligibility_display.py:7-15, projection.py:100-127).
LEMMA UnitsHold ==
    ASSUME NEW content, IsContent(content)
    PROVE  UnitsAreShown(content)
<1> SUFFICES ASSUME ContentIsIdentified(content),
                    NEW t \in DOMAIN content.tables,
                    NEW r \in DOMAIN content.tables[t].rows,
                    NEW c \in DOMAIN content.tables[t].columns,
                    "number" \in DOMAIN DisplayCell(Family(content.version),
                        content.tables[t].columns[c],
                        content.tables[t].rows[r].cells[content.tables[t].columns[c].id])
             PROVE  LET column == content.tables[t].columns[c]
                        cell == content.tables[t].rows[r].cells[column.id]
                        shown == DisplayCell(Family(content.version), column, cell)
                        scale == IF shown.suffix \in {"%", "pp"} THEN 100 ELSE 1
                        fine == Finest(cell.value, shown.places)
                        unit == TenTo(fine - shown.places)
                        exact == cell.value.digits * scale * TenTo(fine - cell.value.exponent)
                    IN  /\ 2 * Abs(shown.number * unit - exact) <= unit
                        /\ (shown.suffix = content.currency) = (column.type = "MONEY")
                        /\ (scale = 100) =>
                              ArtifactIdentity(content).rounding = "ratio times 100 once"
  BY DEF UnitsAreShown, Finest
<1> DEFINE column == content.tables[t].columns[c]
           cell == content.tables[t].rows[r].cells[column.id]
           shown == DisplayCell(Family(content.version), column, cell)
<1>1. /\ ColumnIsRight(content, column) /\ column.places \in Int
      /\ \/ cell.value = Null
         \/ DOMAIN cell.value = {"text"}
            /\ column.type \in AsText(Family(content.version))
         \/ DOMAIN cell.value = {"digits", "exponent"} /\ IsDecimal(cell.value)
  BY CellsAreThere
<1>2. content.currency \notin {"", "%", "pp"}
  BY DEF IsContent
<1>3. "number" \in DOMAIN DisplayCell(Family(content.version), column, cell)
  OBVIOUS
<1> HIDE DEF column, cell
<1>4. /\ IsDecimal(cell.value) /\ shown.places \in Int
      /\ shown.number = Displayed(cell.value, shown.places, column.percent)
      /\ shown.suffix = Suffix(column)
  BY <1>1, <1>3, NumbersAre
<1> HIDE DEF shown
<1> DEFINE scale == IF shown.suffix \in {"%", "pp"} THEN 100 ELSE 1
           fine == Finest(cell.value, shown.places)
           unit == TenTo(fine - shown.places)
           exact == cell.value.digits * scale * TenTo(fine - cell.value.exponent)
<1>5. /\ scale = TenTo(Shift(column.percent))
      /\ (shown.suffix = content.currency) = (column.type = "MONEY")
      /\ (scale = 100) => ArtifactIdentity(content).rounding = "ratio times 100 once"
  <2> DEFINE suffix == Suffix(column)
  <2>1. /\ (IF suffix \in {"%", "pp"} THEN 100 ELSE 1) = TenTo(Shift(column.percent))
        /\ (suffix = content.currency) = (column.type = "MONEY")
        /\ suffix \in {"%", "pp"} =>
              ArtifactIdentity(content).rounding = "ratio times 100 once"
    BY <1>1, <1>2, SuffixesSay
  <2>2. shown.suffix = suffix
    BY <1>4
  <2> HIDE DEF suffix
  <2>3. (shown.suffix = content.currency) = (column.type = "MONEY")
    BY <2>1, <2>2, Zenon
  <2>4. scale = 100 => suffix \in {"%", "pp"}
    <3>1. CASE suffix \in {"%", "pp"}
      BY <3>1
    <3>2. CASE suffix \notin {"%", "pp"}
      <4>1. scale = 1
        BY <2>2, <3>2
      <4> HIDE DEF scale
      <4> QED BY <4>1
    <3> QED BY <3>1, <3>2
  <2>5. scale = TenTo(Shift(column.percent))
    BY <2>1, <2>2
  <2> HIDE DEF scale
  <2> QED BY <2>1, <2>3, <2>4, <2>5
<1>6. 2 * Abs(shown.number * unit - exact) <= unit
  BY <1>4, <1>5, DisplayIsScaled
<1> HIDE DEF scale, fine, unit, exact
<1> QED BY <1>5, <1>6 DEF scale, fine, unit, exact, shown, cell, column

-----------------------------------------------------------------------------
(* Numerals *)

\* f is the numerals up to n.
AreNumerals(f, n) ==
    f = [k \in 0..n |-> IF k < 10 THEN <<Digits[k + 1]>>
                        ELSE Append(f[k \div 10], Digits[(k % 10) + 1])]

\* There is a function of the numerals.
LEMMA NumeralsExist ==
    ASSUME NEW n \in Nat
    PROVE  \E f : AreNumerals(f, n)
<1> DEFINE Next(k, f) == IF k < 10 THEN <<Digits[k + 1]>>
                         ELSE Append(f[k \div 10], Digits[(k % 10) + 1])
           Are(f, m) == f = [k \in 0..m |-> Next(k, f)]
           T == {m \in Nat : \E f : Are(f, m)}
<1>1. 0 \in T
  <2> DEFINE f == [k \in 0..0 |-> <<Digits[k + 1]>>]
  <2>1. Are(f, 0)
    OBVIOUS
  <2> HIDE DEF f, Are
  <2> QED BY <2>1
<1>2. ASSUME NEW k \in 0..n, NEW m \in 0..n, k \in T, m = k + 1 PROVE m \in T
  <2>1. PICK f : Are(f, k)
    BY <1>2
  <2> DEFINE g == [i \in 0..m |-> IF i = m THEN Next(m, f) ELSE f[i]]
  <2>2. k \in Nat /\ m \in Nat
    BY <1>2
  <2>3. ASSUME NEW i \in 0..m PROVE g[i] = Next(i, g)
    <3>1. Next(i, g) = Next(i, f)
      <4>1. i >= 10 => i \div 10 \in 0..m /\ i \div 10 # m
        BY <2>2
      <4>2. i >= 10 => g[i \div 10] = f[i \div 10]
        BY <4>1
      <4> HIDE DEF g
      <4> QED BY <2>2, <4>2
    <3>2. CASE i = m
      <4> HIDE DEF Next
      <4> QED BY <3>1, <3>2
    <3>3. CASE i # m
      <4>1. i \in 0..k
        BY <1>2, <2>2, <3>3
      <4> HIDE DEF Next
      <4>2. f[i] = Next(i, f)
        BY <2>1, <4>1
      <4> QED BY <3>1, <3>3, <4>2
    <3> QED BY <3>2, <3>3
  <2>4. g = [i \in 0..m |-> g[i]]
    OBVIOUS
  <2> HIDE DEF g, Next
  <2>5. Are(g, m)
    BY <2>3, <2>4
  <2> QED BY <2>2, <2>5
<1> HIDE DEF T
<1>3. n \in T
  BY <1>1, <1>2, Climb
<1> QED BY <1>3 DEF T, AreNumerals

\* There is one such function.
LEMMA NumeralsAreOne ==
    ASSUME NEW n \in Nat, NEW m \in Nat, NEW k \in 0..n, k \in 0..m,
           NEW f, AreNumerals(f, n), NEW g, AreNumerals(g, m)
    PROVE  f[k] = g[k]
<1> DEFINE T == {i \in Nat : \A j \in 0..i : j <= k => f[j] = g[j]}
<1>0. ASSUME NEW i \in 0..k
      PROVE  /\ f[i] = IF i < 10 THEN <<Digits[i + 1]>>
                       ELSE Append(f[i \div 10], Digits[(i % 10) + 1])
             /\ g[i] = IF i < 10 THEN <<Digits[i + 1]>>
                       ELSE Append(g[i \div 10], Digits[(i % 10) + 1])
  <2>1. i \in 0..n /\ i \in 0..m
    OBVIOUS
  <2>2. f[i] = IF i < 10 THEN <<Digits[i + 1]>>
               ELSE Append(f[i \div 10], Digits[(i % 10) + 1])
    BY <2>1 DEF AreNumerals
  <2>3. g[i] = IF i < 10 THEN <<Digits[i + 1]>>
               ELSE Append(g[i \div 10], Digits[(i % 10) + 1])
    BY <2>1 DEF AreNumerals
  <2> QED BY <2>2, <2>3
<1>1. 0 \in T
  <2>1. 0 \in 0..k /\ 0 < 10 /\ \A j \in 0..0 : j = 0
    OBVIOUS
  <2>2. f[0] = <<Digits[0 + 1]>> /\ g[0] = <<Digits[0 + 1]>>
    BY <1>0, <2>1
  <2> QED BY <2>1, <2>2
<1>2. ASSUME NEW i \in 0..k, NEW j \in 0..k, i \in T, j = i + 1 PROVE j \in T
  <2>1. j >= 10 => j \div 10 \in 0..i
    BY <1>2
  <2>2. f[j] = g[j]
    <3>1. j >= 10 => f[j \div 10] = g[j \div 10]
      BY <1>2, <2>1
    <3>2. CASE j < 10
      <4>1. f[j] = <<Digits[j + 1]>>
        BY <1>0, <3>2
      <4>2. g[j] = <<Digits[j + 1]>>
        BY <1>0, <3>2
      <4> QED BY <4>1, <4>2
    <3>3. CASE j >= 10
      <4>1. ~(j < 10)
        BY <3>3
      <4> QED BY <1>0, <3>1, <3>3, <4>1
    <3>4. j < 10 \/ j >= 10
      OBVIOUS
    <3> QED BY <3>2, <3>3, <3>4
  <2>3. \A l \in 0..j : l = j \/ l \in 0..i
    BY <1>2
  <2> QED BY <1>2, <2>2, <2>3
<1> HIDE DEF T
<1>3. k \in T
  BY <1>1, <1>2, Climb
<1> QED BY <1>3 DEF T

\* What a numeral is.
LEMMA NumeralIs ==
    \A n \in Nat : Numeral(n) = IF n < 10 THEN <<Digits[n + 1]>>
                                ELSE Append(Numeral(n \div 10), Digits[(n % 10) + 1])
<1> DEFINE Next(k, f) == IF k < 10 THEN <<Digits[k + 1]>>
                         ELSE Append(f[k \div 10], Digits[(k % 10) + 1])
           W(n) == CHOOSE f : f = [k \in 0..n |-> Next(k, f)]
<1>1. ASSUME NEW n \in Nat PROVE AreNumerals(W(n), n) /\ Numeral(n) = W(n)[n]
  <2>1. Numeral(n) = W(n)[n]
    BY DEF Numeral
  <2>2. PICK f : AreNumerals(f, n)
    BY NumeralsExist
  <2>3. f = [k \in 0..n |-> Next(k, f)]
    BY <2>2 DEF AreNumerals
  <2> HIDE DEF Next
  <2>4. W(n) = [k \in 0..n |-> Next(k, W(n))]
    BY <2>3
  <2> HIDE DEF W
  <2> QED BY <2>1, <2>4 DEF AreNumerals, Next
<1> HIDE DEF W
<1>2. ASSUME NEW n \in Nat
      PROVE  Numeral(n) = IF n < 10 THEN <<Digits[n + 1]>>
                          ELSE Append(Numeral(n \div 10), Digits[(n % 10) + 1])
  <2>1. n \in 0..n
    OBVIOUS
  <2>2. W(n)[n] = Next(n, W(n))
    BY <1>1, <2>1 DEF AreNumerals
  <2>3. n >= 10 => W(n)[n \div 10] = Numeral(n \div 10)
    <3> DEFINE q == n \div 10
    <3>1. n >= 10 => q \in Nat /\ q \in 0..n /\ q \in 0..q
      OBVIOUS
    <3> HIDE DEF q
    <3>2. n >= 10 => W(n)[q] = W(q)[q]
      BY <1>1, <3>1, NumeralsAreOne
    <3>3. n >= 10 => W(q)[q] = Numeral(q)
      BY <1>1, <3>1
    <3> QED BY <3>2, <3>3 DEF q
  <2>4. CASE n < 10
    BY <1>1, <2>2, <2>4
  <2>5. CASE ~(n < 10)
    <3>1. n >= 10
      BY <2>5
    <3> QED BY <1>1, <2>2, <2>3, <2>5, <3>1
  <2> QED BY <2>4, <2>5
<1> QED BY <1>2

\* The characters a numeral is made of.
DigitSet == {"0", "1", "2", "3", "4", "5", "6", "7", "8", "9"}

\* The ten digits are texts of their own.
LEMMA DigitsDiffer ==
    /\ \A i \in 0..9 : Digits[i + 1] \in DigitSet
    /\ \A i, j \in 0..9 : Digits[i + 1] = Digits[j + 1] => i = j
<1> DEFINE D == Digits
<1>1. /\ D[1] = "0" /\ D[2] = "1" /\ D[3] = "2" /\ D[4] = "3" /\ D[5] = "4"
      /\ D[6] = "5" /\ D[7] = "6" /\ D[8] = "7" /\ D[9] = "8" /\ D[10] = "9"
  BY DEF Digits
<1> HIDE DEF D
<1>2. \A i \in 0..9 : <<i, D[i + 1]>> \in
          {<<0, "0">>, <<1, "1">>, <<2, "2">>, <<3, "3">>, <<4, "4">>,
           <<5, "5">>, <<6, "6">>, <<7, "7">>, <<8, "8">>, <<9, "9">>}
  <2>1. \A i \in 0..9 : i \in {0, 1, 2, 3, 4, 5, 6, 7, 8, 9}
    OBVIOUS
  <2>2. /\ 0 + 1 = 1 /\ 1 + 1 = 2 /\ 2 + 1 = 3 /\ 3 + 1 = 4 /\ 4 + 1 = 5
        /\ 5 + 1 = 6 /\ 6 + 1 = 7 /\ 7 + 1 = 8 /\ 8 + 1 = 9 /\ 9 + 1 = 10
    OBVIOUS
  <2> QED BY <1>1, <2>1, <2>2
<1>3. \A i \in 0..9 : D[i + 1] \in DigitSet
  BY <1>2 DEF DigitSet
<1>4. \A i, j \in 0..9 : D[i + 1] = D[j + 1] => i = j
  BY <1>2
<1> QED BY <1>3, <1>4 DEF D

\* A numeral has digits, and no two numbers have the same.
LEMMA NumeralsDiffer ==
    /\ \A n \in Nat : Numeral(n) \in Seq(DigitSet) /\ Numeral(n) # <<>>
    /\ \A a, b \in Nat : Numeral(a) = Numeral(b) => a = b
<1> DEFINE D(n) == Digits[(n % 10) + 1]
           Good(n) == /\ Numeral(n) \in Seq(DigitSet) /\ Numeral(n) # <<>>
                      /\ n >= 10 => Len(Numeral(n)) > 1
                      /\ n < 10 => Len(Numeral(n)) = 1
<1>1. ASSUME NEW n \in Nat, n < 10
      PROVE  Numeral(n) = <<Digits[n + 1]>> /\ Digits[n + 1] \in DigitSet /\ n \in 0..9
  <2>1. n \in 0..9
    BY <1>1
  <2> QED BY <1>1, <2>1, NumeralIs, DigitsDiffer
<1>2. ASSUME NEW n \in Nat, n >= 10
      PROVE  /\ n \div 10 \in 0..(n - 1) /\ n \div 10 \in Nat /\ n % 10 \in 0..9
             /\ n = 10 * (n \div 10) + (n % 10)
             /\ Numeral(n) = Append(Numeral(n \div 10), D(n)) /\ D(n) \in DigitSet
  <2>1. /\ n \div 10 \in 0..(n - 1) /\ n \div 10 \in Nat /\ n % 10 \in 0..9
        /\ n = 10 * (n \div 10) + (n % 10)
    BY <1>2
  <2>2. Numeral(n) = Append(Numeral(n \div 10), D(n))
    <3>1. ~(n < 10)
      BY <1>2
    <3> QED BY <3>1, NumeralIs
  <2> QED BY <2>1, <2>2, DigitsDiffer
<1> HIDE DEF D
<1> DEFINE T == {n \in Nat : \A k \in 0..n : Good(k)}
<1>3. ASSUME NEW n \in Nat PROVE n \in T
  <2>1. 0 \in T
    <3>1. Numeral(0) = <<Digits[0 + 1]>> /\ Digits[0 + 1] \in DigitSet
      BY <1>1
    <3>2. Good(0)
      <4> DEFINE d == Digits[0 + 1]
      <4> HIDE DEF d
      <4>1. Numeral(0) = <<d>> /\ d \in DigitSet
        BY <3>1 DEF d
      <4>2. ~(0 >= 10) /\ <<d>> \in Seq(DigitSet) /\ <<d>> # <<>> /\ Len(<<d>>) = 1
        BY <4>1
      <4> QED BY <4>1, <4>2
    <3> HIDE DEF Good
    <3> QED BY <3>2
  <2>2. ASSUME NEW k \in 0..n, NEW m \in 0..n, k \in T, m = k + 1 PROVE m \in T
    <3>0. m \in Nat /\ \A l \in 0..m : l = m \/ l \in 0..k
      BY <2>2
    <3>1. Good(m)
      <4>1. CASE m < 10
        <5> DEFINE d == Digits[m + 1]
        <5>1. Numeral(m) = <<d>> /\ d \in DigitSet
          BY <1>1, <3>0, <4>1
        <5> HIDE DEF d
        <5> QED BY <3>0, <4>1, <5>1
      <4>2. CASE m >= 10
        <5> DEFINE q == m \div 10
                   s == Numeral(q)
        <5>1. q \in 0..k /\ Numeral(m) = Append(s, D(m)) /\ D(m) \in DigitSet
          BY <1>2, <2>2, <3>0, <4>2
        <5>2. s \in Seq(DigitSet) /\ s # <<>>
          BY <2>2, <5>1
        <5> HIDE DEF s, q
        <5>3. Len(s) \in Nat /\ Len(s) # 0
          BY <5>2, LenProperties, EmptySeq
        <5>4. /\ Append(s, D(m)) \in Seq(DigitSet) /\ Append(s, D(m)) # <<>>
              /\ Len(Append(s, D(m))) = Len(s) + 1
          BY <5>1, <5>2, AppendProperties
        <5> QED BY <3>0, <4>2, <5>1, <5>3, <5>4
      <4> QED BY <3>0, <4>1, <4>2
    <3> HIDE DEF Good
    <3> QED BY <2>2, <3>0, <3>1
  <2> HIDE DEF T
  <2> QED BY <2>1, <2>2, Climb
<1>4. \A n \in Nat : Good(n)
  <2> HIDE DEF Good
  <2>1. \A n \in Nat : n \in 0..n
    OBVIOUS
  <2> QED BY <1>3, <2>1
<1> HIDE DEF T
<1> DEFINE V == {n \in Nat : \A a \in 0..n : \A b \in Nat : Numeral(a) = Numeral(b) => a = b}
<1>5. ASSUME NEW a \in Nat, NEW b \in Nat, Numeral(a) = Numeral(b),
             \A c \in 0..(a - 1) : \A d \in Nat : Numeral(c) = Numeral(d) => c = d
      PROVE  a = b
  <2>0. (a < 10 /\ b < 10) \/ (a >= 10 /\ b >= 10)
    <3> DEFINE n == Len(Numeral(a))
    <3>1. Numeral(a) \in Seq(DigitSet)
      BY <1>4
    <3>2. n \in Nat /\ n = Len(Numeral(b))
      BY <1>5, <3>1, LenProperties
    <3>3. (a >= 10 => n > 1) /\ (a < 10 => n = 1) /\ (b >= 10 => n > 1) /\ (b < 10 => n = 1)
      BY <1>4, <3>2
    <3> HIDE DEF n
    <3>4. n \in Nat
      BY <3>2
    <3>5. a < 10 => ~(b >= 10)
      BY <3>3, <3>4
    <3>6. a >= 10 => ~(b < 10)
      BY <3>3, <3>4
    <3> QED BY <3>5, <3>6
  <2>1. CASE a < 10
    <3>1. <<Digits[a + 1]>> = <<Digits[b + 1]>> /\ a \in 0..9 /\ b \in 0..9
      BY <1>1, <1>5, <2>0, <2>1
    <3>2. Digits[a + 1] = Digits[b + 1]
      BY <3>1
    <3> QED BY <3>1, <3>2, DigitsDiffer
  <2>2. CASE a >= 10
    <3> DEFINE p == a \div 10
               q == b \div 10
    <3>1. /\ p \in 0..(a - 1) /\ p \in Nat /\ q \in Nat /\ a % 10 \in 0..9 /\ b % 10 \in 0..9
          /\ a = 10 * p + (a % 10) /\ b = 10 * q + (b % 10)
          /\ Append(Numeral(p), D(a)) = Append(Numeral(q), D(b))
          /\ D(a) \in DigitSet /\ D(b) \in DigitSet
      BY <1>2, <1>5, <2>0, <2>2, SMTT(30)
    <3> HIDE DEF p, q
    <3>2. Numeral(p) \in Seq(DigitSet) /\ Numeral(q) \in Seq(DigitSet)
      BY <1>4, <3>1
    <3>3. Numeral(p) = Numeral(q) /\ D(a) = D(b)
      BY <3>1, <3>2, AppendInjective
    <3>4. p = q
      BY <1>5, <3>1, <3>3
    <3>5. a % 10 = b % 10
      BY <3>1, <3>3, DigitsDiffer DEF D
    <3> QED BY <3>1, <3>4, <3>5
  <2> QED BY <2>1, <2>2
<1> HIDE DEF Good
<1>6. ASSUME NEW n \in Nat PROVE n \in V
  <2>1. 0 \in V
    <3>1. \A c \in 0..(0 - 1) : FALSE
      OBVIOUS
    <3> QED BY <1>5, <3>1
  <2>2. ASSUME NEW k \in 0..n, NEW m \in 0..n, k \in V, m = k + 1 PROVE m \in V
    <3>1. m \in Nat /\ 0..(m - 1) = 0..k /\ \A l \in 0..m : l = m \/ l \in 0..k
      BY <2>2
    <3>2. \A b \in Nat : Numeral(m) = Numeral(b) => m = b
      BY <1>5, <2>2, <3>1
    <3> QED BY <2>2, <3>1, <3>2
  <2> HIDE DEF V
  <2> QED BY <2>1, <2>2, Climb
<1>7. \A a, b \in Nat : Numeral(a) = Numeral(b) => a = b
  <2>1. \A a \in Nat : a \in 0..a
    OBVIOUS
  <2> QED BY <1>6, <2>1
<1> QED BY <1>4, <1>7 DEF Good

-----------------------------------------------------------------------------
(* Texts one character after the other *)

\* A set with the empty sequence, and with every sequence one longer than one
\* of its own, has them all.
LEMMA SeqGrows ==
    ASSUME NEW S, NEW T, <<>> \in T,
           \A s \in Seq(S) : s \in T => \A x \in S : Append(s, x) \in T
    PROVE  Seq(S) \subseteq T
<1> SUFFICES ASSUME NEW t \in Seq(S) PROVE t \in T
  OBVIOUS
<1> DEFINE V == {n \in Nat : \A s \in Seq(S) : Len(s) = n => s \in T}
<1>1. 0 \in V
  BY EmptySeq
<1>2. ASSUME NEW k \in 0..Len(t), NEW m \in 0..Len(t), k \in V, m = k + 1 PROVE m \in V
  <2>1. k \in Nat /\ m \in Nat /\ m # 0
    BY <1>2
  <2>2. ASSUME NEW s \in Seq(S), Len(s) = m PROVE s \in T
    <3>1. s # <<>>
      BY <2>1, <2>2, EmptySeq
    <3>2. PICK r \in Seq(S), x \in S : s = Append(r, x)
      BY <3>1, SequenceEmptyOrAppend
    <3>3. Len(s) = Len(r) + 1 /\ Len(r) \in Nat
      BY <3>2, AppendProperties, LenProperties
    <3>4. Len(r) = k
      BY <1>2, <2>1, <2>2, <3>3
    <3>5. r \in T
      BY <1>2, <3>4
    <3> QED BY <3>2, <3>5
  <2> QED BY <2>1, <2>2
<1> HIDE DEF V
<1>3. Len(t) \in V
  BY <1>1, <1>2, Climb, LenProperties
<1> QED BY <1>3 DEF V

\* One sequence more is flattened at the end.
LEMMA FlattenedAppend ==
    ASSUME NEW S, NEW ss \in Seq(Seq(S)), NEW s \in Seq(S)
    PROVE  FlattenSeq(Append(ss, s)) = FlattenSeq(ss) \o s
<1> DEFINE tt == Append(ss, s)
           n == Len(ss)
<1>1. /\ n \in Nat /\ tt \in Seq(Seq(S)) /\ tt # <<>> /\ Len(tt) = n + 1
      /\ \A i \in 1..n : tt[i] = ss[i]
      /\ tt[n + 1] = s
  BY AppendProperties, LenProperties
<1>2. PICK f \in [1..Len(tt) -> Seq(S)] :
          IsFlattening(f, tt, Len(tt)) /\ FlattenSeq(tt) = f[Len(tt)]
  BY <1>1, FlatteningIs
<1> HIDE DEF tt
<1>3. CASE ss = <<>>
  <2>1. n = 0 /\ FlattenSeq(ss) = <<>>
    BY <1>3 DEF FlattenSeq
  <2>2. f[1] = s
    BY <1>1, <1>2, <2>1 DEF IsFlattening
  <2> QED BY <1>1, <1>2, <2>1, <2>2, ConcatEmptySeq DEF tt
<1>4. CASE ss # <<>>
  <2>1. n >= 1
    BY <1>4, EmptySeq
  <2>2. PICK g \in [1..n -> Seq(S)] : IsFlattening(g, ss, n) /\ FlattenSeq(ss) = g[n]
    BY <1>4, FlatteningIs
  <2> HIDE DEF n
  <2> DEFINE V == {k \in Nat : k + 1 <= n => f[k + 1] = g[k + 1]}
  <2>3. 0 \in V
    BY <1>1, <1>2, <2>1, <2>2 DEF IsFlattening
  <2>4. ASSUME NEW k \in 0..(n - 1), NEW m \in 0..(n - 1), k \in V, m = k + 1 PROVE m \in V
    <3>1. /\ m \in Nat /\ m + 1 \in 2..n /\ m + 1 \in 2..(n + 1) /\ (m + 1) - 1 = m
          /\ f[m] = g[m] /\ tt[m + 1] = ss[m + 1]
      BY <1>1, <2>4
    <3>2. f[m + 1] = f[(m + 1) - 1] \o tt[m + 1]
      BY <1>1, <1>2, <3>1 DEF IsFlattening
    <3>3. g[m + 1] = g[(m + 1) - 1] \o ss[m + 1]
      BY <2>2, <3>1 DEF IsFlattening
    <3> QED BY <3>1, <3>2, <3>3
  <2> HIDE DEF V
  <2>5. n - 1 \in V
    BY <1>1, <2>1, <2>3, <2>4, Climb
  <2>6. f[n] = g[n]
    <3>1. (n - 1) + 1 = n /\ n <= n
      BY <1>1
    <3> QED BY <2>5, <3>1 DEF V
  <2>7. f[n + 1] = f[n] \o s
    <3>1. n + 1 \in 2..(n + 1) /\ (n + 1) - 1 = n
      BY <1>1, <2>1
    <3>2. f[n + 1] = f[(n + 1) - 1] \o tt[n + 1]
      BY <1>1, <1>2, <3>1 DEF IsFlattening
    <3> QED BY <1>1, <3>1, <3>2
  <2> QED BY <1>1, <1>2, <2>2, <2>6, <2>7 DEF tt
<1> QED BY <1>3, <1>4

\* What is appended to the second of two is appended to both.
LEMMA AppendedLast ==
    ASSUME NEW S, NEW s \in Seq(S), NEW t \in Seq(S), NEW x \in S
    PROVE  s \o Append(t, x) = Append(s \o t, x)
<1>1. <<x>> \in Seq(S) /\ s \o t \in Seq(S)
  OBVIOUS
<1>2. Append(t, x) = t \o <<x>>
  BY AppendIsConcat
<1>3. Append(s \o t, x) = (s \o t) \o <<x>>
  BY <1>1, AppendIsConcat
<1>4. (s \o t) \o <<x>> = s \o (t \o <<x>>)
  BY <1>1, ConcatAssociative
<1> QED BY <1>2, <1>3, <1>4

\* Flattening both is flattening one and the other.
LEMMA FlattenedConcat ==
    ASSUME NEW S, NEW ss \in Seq(Seq(S)), NEW tt \in Seq(Seq(S))
    PROVE  /\ FlattenSeq(ss \o tt) = FlattenSeq(ss) \o FlattenSeq(tt)
           /\ FlattenSeq(ss) \in Seq(S)
<1> DEFINE T == {t \in Seq(Seq(S)) : FlattenSeq(ss \o t) = FlattenSeq(ss) \o FlattenSeq(t)}
<1>0. \A t \in Seq(Seq(S)) : FlattenSeq(t) \in Seq(S)
  BY FlattenedRange
<1>1. <<>> \in T
  <2>1. FlattenSeq(<<>>) = <<>>
    BY DEF FlattenSeq
  <2>2. ss \o <<>> = ss /\ FlattenSeq(ss) \o <<>> = FlattenSeq(ss) /\ <<>> \in Seq(Seq(S))
    BY <1>0, ConcatEmptySeq, EmptySeq
  <2> QED BY <2>1, <2>2
<1>2. ASSUME NEW t \in Seq(Seq(S)), t \in T, NEW x \in Seq(S) PROVE Append(t, x) \in T
  <2>1. Append(t, x) \in Seq(Seq(S)) /\ ss \o t \in Seq(Seq(S))
    BY AppendProperties, ConcatProperties
  <2>2. ss \o Append(t, x) = Append(ss \o t, x)
    BY <1>2, AppendedLast
  <2>3. FlattenSeq(Append(ss \o t, x)) = FlattenSeq(ss \o t) \o x
    BY <2>1, FlattenedAppend
  <2>4. FlattenSeq(Append(t, x)) = FlattenSeq(t) \o x
    BY FlattenedAppend
  <2>5. FlattenSeq(ss \o t) = FlattenSeq(ss) \o FlattenSeq(t)
    BY <1>2
  <2>6. FlattenSeq(ss) \in Seq(S) /\ FlattenSeq(t) \in Seq(S)
    BY <1>0
  <2>7. (FlattenSeq(ss) \o FlattenSeq(t)) \o x = FlattenSeq(ss) \o (FlattenSeq(t) \o x)
    BY <2>6, ConcatAssociative
  <2> QED BY <2>1, <2>2, <2>3, <2>4, <2>5, <2>7
<1> HIDE DEF T
<1>3. Seq(Seq(S)) \subseteq T
  <2>1. \A t \in Seq(Seq(S)) : t \in T => \A x \in Seq(S) : Append(t, x) \in T
    BY <1>2
  <2> QED BY <1>1, <2>1, SeqGrows
<1> QED BY <1>0, <1>3 DEF T

\* One sequence flattened is that sequence.
LEMMA FlattenedSingle ==
    ASSUME NEW S, NEW s \in Seq(S)
    PROVE  FlattenSeq(<<s>>) = s
<1>1. <<s>> = Append(<<>>, s) /\ <<>> \in Seq(Seq(S)) /\ FlattenSeq(<<>>) = <<>>
  BY DEF FlattenSeq
<1>2. FlattenSeq(Append(<<>>, s)) = FlattenSeq(<<>>) \o s
  BY <1>1, FlattenedAppend
<1> QED BY <1>1, <1>2, ConcatEmptySeq

-----------------------------------------------------------------------------
(* Escaped texts *)

\* The characters of keys and of pointers, and of a pointer's tokens.
Char == STRING \cup {"~", "/"} \cup DigitSet
Plain == Char \ {"/"}

\* A digit and "~" are characters of a token, and a slash is none.
LEMMA Characters ==
    /\ {"~", "0", "1"} \subseteq Plain /\ DigitSet \subseteq Plain
    /\ Plain \subseteq Char /\ "/" \in Char /\ "~" \notin DigitSet
BY DEF Char, Plain, DigitSet

\* What takes the place of each character of a text.
Places(text, character, with) ==
    [i \in DOMAIN text |-> IF text[i] = character THEN with ELSE <<text[i]>>]

\* A function given on the places of both texts is one text after the other.
LEMMA PlacesOfBoth ==
    ASSUME NEW S, NEW s \in Seq(S), NEW t \in Seq(S), NEW u,
           u = [i \in 1..(Len(s) + Len(t)) |-> u[i]],
           \A i \in 1..Len(s) : u[i] = s[i],
           \A i \in 1..Len(t) : u[Len(s) + i] = t[i]
    PROVE  u = s \o t
<1> DEFINE n == Len(s)
           m == Len(t)
<1>1. n \in Nat /\ m \in Nat /\ n + m \in Nat
  BY LenProperties
<1>2. \A i \in 1..n : s[i] \in S
  BY ElementOfSeq
<1>3. \A i \in 1..m : t[i] \in S
  BY ElementOfSeq
<1>4. /\ s \o t \in Seq(S) /\ Len(s \o t) = n + m
      /\ \A i \in 1..n : (s \o t)[i] = s[i]
      /\ \A i \in 1..m : (s \o t)[n + i] = t[i]
  BY Appended
<1> DEFINE v == s \o t
<1> HIDE DEF n, m, v
<1>5. ASSUME NEW i \in 1..(n + m) PROVE u[i] = v[i] /\ u[i] \in S
  <2>1. CASE i <= n
    <3>1. i \in 1..n
      BY <1>1, <2>1
    <3> QED BY <1>2, <1>4, <3>1 DEF n, v
  <2>2. CASE ~(i <= n)
    <3>1. i - n \in 1..m /\ n + (i - n) = i
      BY <1>1, <2>2
    <3>2. u[n + (i - n)] = t[i - n] /\ v[n + (i - n)] = t[i - n]
      BY <1>4, <3>1 DEF n, m, v
    <3> QED BY <1>3, <3>1, <3>2
  <2> QED BY <2>1, <2>2
<1>6. u \in [1..(n + m) -> S]
  <2>1. u = [i \in 1..(n + m) |-> u[i]]
    BY DEF n, m
  <2> QED BY <1>5, <2>1
<1>7. u \in Seq(S) /\ DOMAIN u = 1..(n + m)
  BY <1>1, <1>6, FunctionIsSeq
<1>8. Len(u) = n + m
  <2> DEFINE k == n + m
  <2>1. Len(u) \in Nat /\ 1..Len(u) = 1..k /\ k \in Nat
    BY <1>1, <1>7, LenProperties
  <2> HIDE DEF k
  <2>2. Len(u) = k
    BY <2>1
  <2> QED BY <2>2 DEF k
<1>9. v \in Seq(S) /\ Len(v) = n + m
  BY <1>4 DEF v, n, m
<1>10. u = v
  BY <1>5, <1>7, <1>8, <1>9, SeqEqual
<1> QED BY <1>10 DEF v

\* One place for each character.
LEMMA PlacesAre ==
    ASSUME NEW text \in Seq(Char), NEW character, NEW with \in Seq(Char)
    PROVE  LET g == Places(text, character, with)
           IN  /\ g \in Seq(Seq(Char)) /\ Len(g) = Len(text)
               /\ g = [i \in 1..Len(text) |-> g[i]]
               /\ \A i \in 1..Len(text) :
                     g[i] = IF text[i] = character THEN with ELSE <<text[i]>>
<1> DEFINE g == Places(text, character, with)
           n == Len(text)
<1>1. n \in Nat /\ DOMAIN text = 1..n /\ \A i \in 1..n : text[i] \in Char
  BY LenProperties, ElementOfSeq
<1>2. /\ g = [i \in 1..n |-> g[i]]
      /\ \A i \in 1..n : g[i] = IF text[i] = character THEN with ELSE <<text[i]>>
  BY <1>1 DEF Places
<1>3. \A i \in 1..n : g[i] \in Seq(Char)
  <2>1. \A x \in Char : <<x>> \in Seq(Char)
    OBVIOUS
  <2> HIDE DEF g
  <2> QED BY <1>1, <1>2, <2>1
<1> HIDE DEF g, n
<1>4. g \in [1..n -> Seq(Char)]
  BY <1>2, <1>3
<1>5. g \in Seq(Seq(Char)) /\ DOMAIN g = 1..n
  BY <1>1, <1>4, FunctionIsSeq
<1>6. Len(g) = n
  BY <1>1, <1>5, LenProperties
<1> QED BY <1>2, <1>5, <1>6 DEF g, n

\* Replacing in a text gives a text.
LEMMA ReplaceIsText ==
    ASSUME NEW s \in Seq(Char), NEW character, NEW with \in Seq(Char)
    PROVE  Replace(s, character, with) \in Seq(Char)
<1> DEFINE g == Places(s, character, with)
<1>1. Replace(s, character, with) = FlattenSeq(g)
  BY DEF Replace, Places
<1>2. g \in Seq(Seq(Char))
  BY PlacesAre
<1> HIDE DEF g
<1> QED BY <1>1, <1>2, FlattenedRange

\* Replacing in both texts is replacing in one and in the other.
ReplacesBoth(character, with) ==
    \A s, t \in Seq(Char) :
        Replace(s \o t, character, with)
          = Replace(s, character, with) \o Replace(t, character, with)

\* It is so of any two texts.
LEMMA ReplaceConcat ==
    ASSUME NEW character, NEW with \in Seq(Char)
    PROVE  ReplacesBoth(character, with)
<1> SUFFICES ASSUME NEW s \in Seq(Char), NEW t \in Seq(Char)
             PROVE  Replace(s \o t, character, with)
                      = Replace(s, character, with) \o Replace(t, character, with)
  BY DEF ReplacesBoth
<1> DEFINE P(text) == Places(text, character, with)
<1>1. \A text : Replace(text, character, with) = FlattenSeq(P(text))
  BY DEF Replace, Places
<1>2. ASSUME NEW text \in Seq(Char)
      PROVE  /\ P(text) \in Seq(Seq(Char)) /\ Len(P(text)) = Len(text)
             /\ P(text) = [i \in 1..Len(text) |-> P(text)[i]]
             /\ \A i \in 1..Len(text) :
                   P(text)[i] = IF text[i] = character THEN with ELSE <<text[i]>>
  BY PlacesAre
<1> HIDE DEF P
<1>3. P(s \o t) = P(s) \o P(t)
  <2> DEFINE u == s \o t
             n == Len(s)
             m == Len(t)
  <2>1. /\ n \in Nat /\ m \in Nat /\ u \in Seq(Char) /\ Len(u) = n + m
        /\ \A i \in 1..n : u[i] = s[i]
        /\ \A i \in 1..m : u[n + i] = t[i]
    BY Appended, LenProperties
  <2> HIDE DEF u
  <2> DEFINE a == P(s)
             b == P(t)
             w == P(u)
  <2>2. /\ a \in Seq(Seq(Char)) /\ b \in Seq(Seq(Char)) /\ Len(a) = n /\ Len(b) = m
        /\ w = [i \in 1..(n + m) |-> w[i]]
    BY <1>2, <2>1
  <2>3. ASSUME NEW i \in 1..n PROVE w[i] = a[i]
    <3>1. i \in 1..Len(u) /\ u[i] = s[i]
      BY <2>1
    <3>2. w[i] = IF u[i] = character THEN with ELSE <<u[i]>>
      BY <1>2, <2>1, <3>1
    <3>3. a[i] = IF s[i] = character THEN with ELSE <<s[i]>>
      BY <1>2
    <3> QED BY <3>1, <3>2, <3>3
  <2>4. ASSUME NEW i \in 1..m PROVE w[n + i] = b[i]
    <3>1. n + i \in 1..Len(u) /\ u[n + i] = t[i]
      BY <2>1
    <3> DEFINE k == n + i
    <3> HIDE DEF k
    <3>2. w[k] = IF u[k] = character THEN with ELSE <<u[k]>>
      BY <1>2, <2>1, <3>1 DEF k
    <3>3. b[i] = IF t[i] = character THEN with ELSE <<t[i]>>
      BY <1>2
    <3> QED BY <3>1, <3>2, <3>3 DEF k
  <2> HIDE DEF a, b, w, n, m
  <2>5. /\ w = [i \in 1..(Len(a) + Len(b)) |-> w[i]]
        /\ \A i \in 1..Len(a) : w[i] = a[i]
        /\ \A i \in 1..Len(b) : w[Len(a) + i] = b[i]
    BY <2>2, <2>3, <2>4
  <2>6. w = a \o b
    BY <2>2, <2>5, PlacesOfBoth
  <2> QED BY <2>6 DEF a, b, w, u
<1>4. P(s) \in Seq(Seq(Char)) /\ P(t) \in Seq(Seq(Char))
  BY <1>2
<1>5. FlattenSeq(P(s) \o P(t)) = FlattenSeq(P(s)) \o FlattenSeq(P(t))
  BY <1>4, FlattenedConcat
<1>6. /\ Replace(s \o t, character, with) = FlattenSeq(P(s \o t))
      /\ Replace(s, character, with) = FlattenSeq(P(s))
      /\ Replace(t, character, with) = FlattenSeq(P(t))
  BY <1>1, Zenon
<1> QED BY <1>3, <1>5, <1>6, Zenon

\* Replacing in one character.
LEMMA ReplaceOne ==
    ASSUME NEW c \in Char, NEW character, NEW with \in Seq(Char)
    PROVE  Replace(<<c>>, character, with) = IF c = character THEN with ELSE <<c>>
<1> DEFINE piece == IF c = character THEN with ELSE <<c>>
           g == [i \in DOMAIN <<c>> |-> IF <<c>>[i] = character THEN with ELSE <<<<c>>[i]>>]
<1>1. g = <<piece>>
  OBVIOUS
<1>2. piece \in Seq(Char)
  OBVIOUS
<1>3. Replace(<<c>>, character, with) = FlattenSeq(g)
  BY DEF Replace
<1> HIDE DEF piece, g
<1>4. FlattenSeq(<<piece>>) = piece
  BY <1>2, FlattenedSingle
<1> QED BY <1>1, <1>3, <1>4 DEF piece

\* One character after another.
LEMMA TupleOfTwo ==
    ASSUME NEW S, NEW a \in S, NEW b \in S
    PROVE  /\ <<a>> \o <<b>> = <<a, b>> /\ <<a, b>> \in Seq(S) /\ <<a>> \in Seq(S)
           /\ Len(<<a, b>>) = 2 /\ <<a, b>>[1] = a /\ <<a, b>>[2] = b
<1>1. <<a>> \in Seq(S) /\ <<a, b>> \in Seq(S) /\ Len(<<a, b>>) = 2
  OBVIOUS
<1>2. Append(<<a>>, b) = <<a, b>>
  <2> DEFINE one == <<a>>
             two == <<a, b>>
             more == Append(one, b)
  <2>1. Len(one) = 1 /\ one[1] = a /\ two \in Seq(S) /\ Len(two) = 2 /\ two[1] = a /\ two[2] = b
    BY <1>1
  <2>2. one \in Seq(S)
    BY <1>1
  <2> HIDE DEF one, two
  <2>3. /\ more \in Seq(S) /\ Len(more) = Len(one) + 1 /\ more[Len(one) + 1] = b
        /\ \A i \in 1..Len(one) : more[i] = one[i]
    BY <2>2, AppendProperties
  <2> HIDE DEF more
  <2>4. \A i \in 1..Len(more) : more[i] = two[i]
    BY <2>1, <2>3
  <2>5. more = two
    BY <2>1, <2>3, <2>4, SeqEqual
  <2> QED BY <2>5 DEF more, one, two
<1>3. Append(<<a>>, b) = <<a>> \o <<b>>
  BY <1>1, AppendIsConcat
<1> QED BY <1>1, <1>2, <1>3

\* The place has the "~" of a pair.
Pairs(text, character, i) ==
    i \in 1..(Len(text) - 1) /\ text[i] = "~" /\ text[i + 1] = character

\* What takes its place.
Paired(text, character, with, i) ==
    IF Pairs(text, character, i) THEN <<with>>
    ELSE IF Pairs(text, character, i - 1) THEN <<>> ELSE <<text[i]>>

\* What takes the places of a text is a sequence of texts.
LEMMA PiecesAre ==
    ASSUME NEW text \in Seq(Char), NEW character, NEW with \in Char
    PROVE  \E g \in Seq(Seq(Char)) :
              /\ Len(g) = Len(text) /\ g = [i \in 1..Len(text) |-> g[i]]
              /\ \A i \in 1..Len(text) : g[i] = Paired(text, character, with, i)
              /\ ReplacePair(text, character, with) = FlattenSeq(g)
<1> DEFINE n == Len(text)
           P(i) == Paired(text, character, with, i)
           g == [i \in 1..n |-> P(i)]
<1>1. n \in Nat /\ DOMAIN text = 1..n /\ \A i \in 1..n : text[i] \in Char
  BY LenProperties, ElementOfSeq
<1>2. ReplacePair(text, character, with) = FlattenSeq(g)
  BY <1>1 DEF ReplacePair, Paired, Pairs
<1>3. \A i \in 1..n : P(i) \in Seq(Char)
  <2>1. <<with>> \in Seq(Char) /\ <<>> \in Seq(Char) /\ \A x \in Char : <<x>> \in Seq(Char)
    OBVIOUS
  <2> QED BY <1>1, <2>1 DEF Paired
<1> HIDE DEF P, n
<1>4. g \in [1..n -> Seq(Char)] /\ g = [i \in 1..n |-> g[i]] /\ \A i \in 1..n : g[i] = P(i)
  BY <1>3
<1> HIDE DEF g
<1>5. g \in Seq(Seq(Char)) /\ DOMAIN g = 1..n
  BY <1>1, <1>4, FunctionIsSeq
<1>6. Len(g) = n
  BY <1>1, <1>5, LenProperties
<1> QED BY <1>2, <1>4, <1>5, <1>6 DEF n, P

\* No pair is made of the end of one text and the beginning of another, when
\* the one does not end in "~".
LEMMA ReplacePairConcat ==
    ASSUME NEW s \in Seq(Char), NEW t \in Seq(Char), NEW character, NEW with \in Char,
           s # <<>> => s[Len(s)] # "~"
    PROVE  ReplacePair(s \o t, character, with)
             = ReplacePair(s, character, with) \o ReplacePair(t, character, with)
<1> DEFINE u == s \o t
           n == Len(s)
           m == Len(t)
           P(text, i) == Paired(text, character, with, i)
           R(text) == ReplacePair(text, character, with)
<1>1. /\ n \in Nat /\ m \in Nat /\ u \in Seq(Char) /\ Len(u) = n + m
      /\ \A i \in 1..n : u[i] = s[i]
      /\ \A i \in 1..m : u[n + i] = t[i]
      /\ n # 0 => s[n] # "~"
  BY Appended, LenProperties, EmptySeq
<1>0. ASSUME NEW text \in Seq(Char)
      PROVE  \E g \in Seq(Seq(Char)) :
                /\ Len(g) = Len(text) /\ g = [i \in 1..Len(text) |-> g[i]]
                /\ \A i \in 1..Len(text) : g[i] = P(text, i)
                /\ R(text) = FlattenSeq(g)
  BY PiecesAre
<1> HIDE DEF u, P, R
<1>2. PICK a \in Seq(Seq(Char)) : /\ Len(a) = n /\ \A i \in 1..n : a[i] = P(s, i)
                                  /\ R(s) = FlattenSeq(a)
  BY <1>0
<1>3. PICK b \in Seq(Seq(Char)) : /\ Len(b) = m /\ \A i \in 1..m : b[i] = P(t, i)
                                  /\ R(t) = FlattenSeq(b)
  BY <1>0
<1>4. PICK w \in Seq(Seq(Char)) : /\ w = [i \in 1..Len(u) |-> w[i]]
                                  /\ \A i \in 1..Len(u) : w[i] = P(u, i)
                                  /\ R(u) = FlattenSeq(w)
  BY <1>0, <1>1
<1> HIDE DEF n, m
<1>5. ASSUME NEW i \in 0..n PROVE Pairs(u, character, i) <=> Pairs(s, character, i)
  <2>1. CASE i \in 1..(n - 1)
    <3>1. /\ i \in 1..n /\ i + 1 \in 1..n /\ i \in 1..(Len(u) - 1) /\ i \in 1..(Len(s) - 1)
      BY <1>1, <2>1 DEF n
    <3> QED BY <1>1, <3>1 DEF Pairs
  <2>2. CASE i = n /\ n # 0
    <3>1. i \in 1..n /\ i \notin 1..(n - 1)
      BY <1>1, <2>2
    <3>2. u[i] # "~" /\ i \notin 1..(Len(s) - 1)
      BY <1>1, <2>2, <3>1 DEF n
    <3> QED BY <3>2 DEF Pairs
  <2>3. CASE i = 0
    <3>1. i \notin 1..(Len(s) - 1) /\ i \notin 1..(Len(u) - 1)
      BY <2>3
    <3> QED BY <3>1 DEF Pairs
  <2> QED BY <1>1, <2>1, <2>2, <2>3
<1>6. ASSUME NEW i \in 0..m PROVE Pairs(u, character, n + i) <=> Pairs(t, character, i)
  <2>1. CASE i \in 1..(m - 1)
    <3>1. /\ i \in 1..m /\ i + 1 \in 1..m /\ (n + i) + 1 = n + (i + 1)
          /\ n + i \in 1..(Len(u) - 1) /\ i \in 1..(Len(t) - 1)
      BY <1>1, <2>1 DEF m
    <3>2. u[n + i] = t[i] /\ u[(n + i) + 1] = t[i + 1]
      BY <1>1, <3>1
    <3> QED BY <3>1, <3>2 DEF Pairs
  <2>2. CASE i = m /\ m # 0
    <3>1. n + i \notin 1..(Len(u) - 1) /\ i \notin 1..(Len(t) - 1)
      BY <1>1, <2>2 DEF m
    <3> QED BY <3>1 DEF Pairs
  <2>3. CASE i = 0
    <3>1. i \notin 1..(Len(t) - 1) /\ n + i = n
      BY <1>1, <2>3
    <3>2. ~Pairs(u, character, n)
      <4>1. CASE n = 0
        BY <4>1 DEF Pairs
      <4>2. CASE n # 0
        <5>1. n \in 1..n
          BY <1>1, <4>2
        <5> QED BY <1>1, <4>2, <5>1 DEF Pairs
      <4> QED BY <4>1, <4>2
    <3> QED BY <3>1, <3>2 DEF Pairs
  <2> QED BY <1>1, <2>1, <2>2, <2>3
<1>7. ASSUME NEW i \in 1..n PROVE w[i] = a[i]
  <2>1. i \in 0..n /\ i - 1 \in 0..n /\ i \in 1..Len(u) /\ u[i] = s[i]
    BY <1>1
  <2>2. P(u, i) = P(s, i)
    BY <1>5, <2>1 DEF P, Paired
  <2> QED BY <1>2, <1>4, <2>1, <2>2
<1>8. ASSUME NEW i \in 1..m PROVE w[n + i] = b[i]
  <2>1. /\ i \in 0..m /\ i - 1 \in 0..m /\ n + i \in 1..Len(u) /\ u[n + i] = t[i]
        /\ (n + i) - 1 = n + (i - 1)
    BY <1>1, SMTT(30)
  <2>2. P(u, n + i) = P(t, i)
    <3>1. Pairs(u, character, n + i) <=> Pairs(t, character, i)
      BY <1>6, <2>1
    <3>2. Pairs(u, character, (n + i) - 1) <=> Pairs(t, character, i - 1)
      BY <1>6, <2>1
    <3> QED BY <2>1, <3>1, <3>2 DEF P, Paired
  <2> QED BY <1>3, <1>4, <2>1, <2>2
<1>9. w = a \o b
  <2>1. /\ w = [i \in 1..(Len(a) + Len(b)) |-> w[i]]
        /\ \A i \in 1..Len(a) : w[i] = a[i]
        /\ \A i \in 1..Len(b) : w[Len(a) + i] = b[i]
    BY <1>1, <1>2, <1>3, <1>4, <1>7, <1>8
  <2> QED BY <2>1, PlacesOfBoth, ZenonT(30)
<1>10. FlattenSeq(a \o b) = FlattenSeq(a) \o FlattenSeq(b)
  BY FlattenedConcat
<1>11. R(u) = R(s) \o R(t)
  BY <1>2, <1>3, <1>4, <1>9, <1>10
<1> QED BY <1>11 DEF R, u

\* No pair in one character, and the pair of two.
LEMMA ReplacePairFew ==
    ASSUME NEW c \in Char, NEW character, NEW with \in Char
    PROVE  /\ ReplacePair(<<>>, character, with) = <<>>
           /\ ReplacePair(<<c>>, character, with) = <<c>>
           /\ ReplacePair(<<"~", c>>, character, with)
                 = IF c = character THEN <<with>> ELSE <<"~", c>>
<1> DEFINE P(text, i) == Paired(text, character, with, i)
           R(text) == ReplacePair(text, character, with)
<1>1. ASSUME NEW text \in Seq(Char)
      PROVE  \E g \in Seq(Seq(Char)) :
                /\ Len(g) = Len(text) /\ g = [i \in 1..Len(text) |-> g[i]]
                /\ \A i \in 1..Len(text) : g[i] = P(text, i)
                /\ R(text) = FlattenSeq(g)
  BY PiecesAre
<1> HIDE DEF P, R
<1>2. R(<<>>) = <<>>
  <2>1. PICK g \in Seq(Seq(Char)) : Len(g) = Len(<<>>) /\ R(<<>>) = FlattenSeq(g)
    <3>1. <<>> \in Seq(Char)
      OBVIOUS
    <3> QED BY <1>1, <3>1
  <2>2. g = <<>>
    BY <2>1, EmptySeq
  <2> QED BY <2>1, <2>2 DEF FlattenSeq
<1>3. R(<<c>>) = <<c>>
  <2> DEFINE text == <<c>>
  <2>0. text \in Seq(Char) /\ Len(text) = 1 /\ text[1] = c
    OBVIOUS
  <2> HIDE DEF text
  <2>1. PICK g \in Seq(Seq(Char)) : Len(g) = 1 /\ g[1] = P(text, 1) /\ R(text) = FlattenSeq(g)
    <3>1. 1 \in 1..1
      OBVIOUS
    <3> QED BY <1>1, <2>0, <3>1
  <2>2. P(text, 1) = <<c>>
    <3>1. ~Pairs(text, character, 1) /\ ~Pairs(text, character, 1 - 1)
      BY <2>0 DEF Pairs
    <3> QED BY <2>0, <3>1 DEF P, Paired
  <2>3. g = <<<<c>>>> /\ <<c>> \in Seq(Char)
    <3>1. <<<<c>>>> \in Seq(Seq(Char)) /\ Len(<<<<c>>>>) = 1 /\ <<<<c>>>>[1] = <<c>>
      OBVIOUS
    <3>2. \A i \in 1..1 : g[i] = <<<<c>>>>[i]
      BY <2>1, <2>2, <3>1
    <3> QED BY <2>1, <3>1, <3>2, SeqEqual
  <2> QED BY <2>1, <2>3, FlattenedSingle DEF text
<1>4. R(<<"~", c>>) = IF c = character THEN <<with>> ELSE <<"~", c>>
  <2> DEFINE text == <<"~", c>>
  <2>0. text \in Seq(Char) /\ Len(text) = 2 /\ text[1] = "~" /\ text[2] = c
    BY Characters, TupleOfTwo
  <2> HIDE DEF text
  <2>1. PICK g \in Seq(Seq(Char)) : /\ Len(g) = 2 /\ g[1] = P(text, 1) /\ g[2] = P(text, 2)
                                    /\ R(text) = FlattenSeq(g)
    <3>1. 1 \in 1..2 /\ 2 \in 1..2
      OBVIOUS
    <3> QED BY <1>1, <2>0, <3>1
  <2> DEFINE x == P(text, 1)
             y == P(text, 2)
  <2>2. /\ (Pairs(text, character, 1) <=> c = character)
        /\ ~Pairs(text, character, 2) /\ ~Pairs(text, character, 1 - 1)
        /\ (Pairs(text, character, 2 - 1) <=> c = character)
    <3>1. 1 \in 1..(Len(text) - 1) /\ 2 \notin 1..(Len(text) - 1)
          /\ 1 - 1 \notin 1..(Len(text) - 1) /\ 1 + 1 = 2 /\ 2 - 1 = 1
      BY <2>0
    <3> QED BY <2>0, <3>1 DEF Pairs
  <2>3. /\ x = IF c = character THEN <<with>> ELSE <<"~">>
        /\ y = IF c = character THEN <<>> ELSE <<c>>
    BY <2>0, <2>2 DEF P, Paired
  <2> HIDE DEF x, y
  <2>4. x \in Seq(Char) /\ y \in Seq(Char)
    <3>1. <<with>> \in Seq(Char) /\ <<>> \in Seq(Char) /\ <<"~">> \in Seq(Char) /\ <<c>> \in Seq(Char)
      <4>1. "~" \in Char
        BY Characters
      <4> QED BY <4>1
    <3> QED BY <2>3, <3>1
  <2>5. g = Append(<<x>>, y)
    <3>1. /\ <<x, y>> \in Seq(Seq(Char)) /\ Len(<<x, y>>) = 2
          /\ <<x, y>>[1] = x /\ <<x, y>>[2] = y
      BY <2>4
    <3>2. \A i \in 1..2 : g[i] = <<x, y>>[i]
      <4>1. 1..2 = {1, 2}
        OBVIOUS
      <4> QED BY <2>1, <3>1, <4>1 DEF x, y
    <3>3. g = <<x, y>>
      BY <2>1, <3>1, <3>2, SeqEqual
    <3> QED BY <3>3
  <2>6. FlattenSeq(g) = x \o y
    <3>1. <<x>> \in Seq(Seq(Char))
      BY <2>4
    <3>2. FlattenSeq(Append(<<x>>, y)) = FlattenSeq(<<x>>) \o y
      BY <2>4, <3>1, FlattenedAppend
    <3>3. FlattenSeq(<<x>>) = x
      BY <2>4, FlattenedSingle
    <3> QED BY <2>5, <3>2, <3>3
  <2>7. x \o y = IF c = character THEN <<with>> ELSE <<"~", c>>
    <3>1. <<with>> \o <<>> = <<with>>
      <4>1. <<with>> \in Seq(Char)
        OBVIOUS
      <4> QED BY <4>1, ConcatEmptySeq
    <3>2. <<"~">> \o <<c>> = <<"~", c>>
      BY Characters, TupleOfTwo
    <3> QED BY <2>3, <3>1, <3>2
  <2> QED BY <2>1, <2>6, <2>7 DEF text
<1> QED BY <1>2, <1>3, <1>4 DEF R

\* What is written for a character.
EscapedAs(c) ==
    IF c = "~" THEN <<"~", "0">> ELSE IF c = "/" THEN <<"~", "1">> ELSE <<c>>

\* Escaping one character writes what is written for it.
LEMMA EscapeOne ==
    ASSUME NEW c \in Char
    PROVE  Escape(<<c>>) = EscapedAs(c)
<1> DEFINE zero == <<"~", "0">>
           one == <<"~", "1">>
           slash == "/"
           R(text) == Replace(text, slash, one)
<1>0. "~" \in Char /\ "0" \in Char /\ "1" \in Char
  BY Characters
<1>1. zero \in Seq(Char) /\ one \in Seq(Char)
  BY <1>0, TupleOfTwo
<1>2. EscapedAs(c) = IF c = "~" THEN zero ELSE IF c = "/" THEN one ELSE <<c>>
  BY DEF EscapedAs
<1>3. Escape(<<c>>) = R(Replace(<<c>>, "~", zero))
  BY DEF Escape
<1>4. <<"~">> \o <<"0">> = zero /\ <<"~">> \in Seq(Char) /\ <<"0">> \in Seq(Char)
  BY <1>0, TupleOfTwo
<1> HIDE DEF zero, one, slash
<1>5. \A x \in Char : R(<<x>>) = IF x = slash THEN one ELSE <<x>>
  BY <1>1, ReplaceOne
<1>6. Replace(<<c>>, "~", zero) = IF c = "~" THEN zero ELSE <<c>>
  BY <1>1, ReplaceOne
<1>7. R(zero) = zero
  <2>1. \A s, t \in Seq(Char) : R(s \o t) = R(s) \o R(t)
    <3>1. ReplacesBoth(slash, one)
      BY <1>1, ReplaceConcat
    <3> QED BY <3>1, Zenon DEF ReplacesBoth
  <2> HIDE DEF R
  <2>2. R(<<"~">> \o <<"0">>) = R(<<"~">>) \o R(<<"0">>)
    BY <1>4, <2>1
  <2>3. R(<<"~">>) = <<"~">> /\ R(<<"0">>) = <<"0">>
    BY <1>0, <1>5 DEF slash
  <2> QED BY <1>4, <2>2, <2>3
<1> HIDE DEF R
<1>8. CASE c = "~"
  BY <1>2, <1>3, <1>6, <1>7, <1>8
<1>9. CASE c # "~"
  BY <1>2, <1>3, <1>5, <1>6, <1>9 DEF slash
<1> QED BY <1>8, <1>9

\* Escaping one character more writes it after the others.
LEMMA EscapeAppend ==
    ASSUME NEW key \in Seq(Char), NEW c \in Char
    PROVE  /\ Escape(Append(key, c)) = Escape(key) \o EscapedAs(c)
           /\ Escape(key) \in Seq(Char)
<1> DEFINE zero == <<"~", "0">>
           one == <<"~", "1">>
           tilde == "~"
           slash == "/"
           R0(text) == Replace(text, tilde, zero)
           R1(text) == Replace(text, slash, one)
<1>0. zero \in Seq(Char) /\ one \in Seq(Char) /\ <<c>> \in Seq(Char)
  <2>1. "~" \in Char /\ "0" \in Char /\ "1" \in Char
    BY Characters
  <2> QED BY <2>1, TupleOfTwo
<1>3. \A text : Escape(text) = R1(R0(text))
  BY DEF Escape
<1> HIDE DEF zero, one, tilde, slash
<1>1. /\ \A s, t \in Seq(Char) : R0(s \o t) = R0(s) \o R0(t)
      /\ \A s, t \in Seq(Char) : R1(s \o t) = R1(s) \o R1(t)
  <2>1. ReplacesBoth(tilde, zero) /\ ReplacesBoth(slash, one)
    BY <1>0, ReplaceConcat
  <2> QED BY <2>1, Zenon DEF ReplacesBoth
<1>2. \A s \in Seq(Char) : R0(s) \in Seq(Char) /\ R1(s) \in Seq(Char)
  BY <1>0, ReplaceIsText
<1> HIDE DEF R0, R1
<1>4. Append(key, c) = key \o <<c>>
  BY AppendIsConcat
<1>5. R0(key \o <<c>>) = R0(key) \o R0(<<c>>) /\ R0(key) \in Seq(Char) /\ R0(<<c>>) \in Seq(Char)
  BY <1>0, <1>1, <1>2
<1>6. R1(R0(key) \o R0(<<c>>)) = R1(R0(key)) \o R1(R0(<<c>>)) /\ R1(R0(key)) \in Seq(Char)
  BY <1>1, <1>2, <1>5
<1>7. R1(R0(<<c>>)) = EscapedAs(c)
  BY <1>3, EscapeOne
<1> QED BY <1>3, <1>4, <1>5, <1>6, <1>7

\* Every "~" of a token is one of a pair.
IsEscaped(token) ==
    \A i \in 1..Len(token) :
        token[i] = "~" => i < Len(token) /\ token[i + 1] \in {"0", "1"}

\* What is written for a character is escaped, and is read back.
LEMMA EscapedAsIs ==
    ASSUME NEW c \in Char
    PROVE  LET w == EscapedAs(c)
               m == ReplacePair(w, "1", "/")
           IN  /\ w \in Seq(Plain) /\ w # <<>> /\ w[Len(w)] # "~" /\ IsEscaped(w)
               /\ m \in Seq(Char) /\ m # <<>> /\ m[Len(m)] # "~"
               /\ ReplacePair(m, "0", "~") = <<c>>
<1> DEFINE w == EscapedAs(c)
           R1(text) == ReplacePair(text, "1", "/")
           R0(text) == ReplacePair(text, "0", "~")
           Good(m) == m \in Seq(Char) /\ m # <<>> /\ m[Len(m)] # "~" /\ R0(m) = <<c>>
           Fit(t) == t \in Seq(Plain) /\ t # <<>> /\ t[Len(t)] # "~" /\ IsEscaped(t)
<1>0. /\ {"~", "/", "0", "1"} \subseteq Char /\ {"~", "0", "1"} \subseteq Plain
      /\ c \in Char
  BY Characters
<1>1. ASSUME NEW x \in Char
      PROVE  /\ R1(<<x>>) = <<x>> /\ R0(<<x>>) = <<x>>
             /\ R1(<<"~", x>>) = IF x = "1" THEN <<"/">> ELSE <<"~", x>>
             /\ R0(<<"~", x>>) = IF x = "0" THEN <<"~">> ELSE <<"~", x>>
  <2>1. "/" \in Char /\ "~" \in Char
    BY <1>0
  <2>2. \A ch : \A with \in Char :
           /\ ReplacePair(<<x>>, ch, with) = <<x>>
           /\ ReplacePair(<<"~", x>>, ch, with) = IF x = ch THEN <<with>> ELSE <<"~", x>>
    BY <2>1, ReplacePairFew
  <2> QED BY <2>1, <2>2
<1> HIDE DEF R0, R1
<1>2. \A x \in {"0", "1"} : Fit(<<"~", x>>)
  <2> SUFFICES ASSUME NEW x \in {"0", "1"} PROVE Fit(<<"~", x>>)
    OBVIOUS
  <2> DEFINE t == <<"~", x>>
  <2>1. t \in Seq(Plain) /\ t # <<>> /\ Len(t) = 2 /\ t[2] = x /\ t[1] = "~"
    BY <1>0
  <2> HIDE DEF t
  <2>2. \A i \in 1..2 : t[i] = "~" => i = 1
    BY <2>1
  <2>3. IsEscaped(t)
    BY <2>1, <2>2 DEF IsEscaped
  <2>4. t[Len(t)] # "~"
    BY <2>1
  <2> QED BY <2>1, <2>3, <2>4 DEF t
<1>3. CASE c = "~"
  <2>1. w = <<"~", "0">> /\ R1(w) = <<"~", "0">> /\ R0(<<"~", "0">>) = <<c>>
    BY <1>0, <1>1, <1>3 DEF EscapedAs
  <2> DEFINE m == <<"~", "0">>
  <2>2. m \in Seq(Char) /\ Len(m) = 2 /\ m[2] = "0"
    BY <1>0, TupleOfTwo
  <2>3. Fit(w)
    BY <1>2, <2>1
  <2>4. Good(R1(w))
    <3>1. R1(w) = m /\ R0(m) = <<c>>
      BY <2>1
    <3> HIDE DEF m
    <3>2. m # <<>> /\ m[Len(m)] # "~"
      BY <2>2
    <3> QED BY <2>2, <3>1, <3>2
  <2> QED BY <2>3, <2>4 DEF R0, R1
<1>4. CASE c = "/"
  <2>1. w = <<"~", "1">> /\ R1(w) = <<"/">> /\ R0(<<"/">>) = <<c>>
    BY <1>0, <1>1, <1>4 DEF EscapedAs
  <2> DEFINE m == <<"/">>
  <2>2. m \in Seq(Char) /\ Len(m) = 1 /\ m[1] = "/"
    BY <1>0
  <2>3. Fit(w)
    BY <1>2, <2>1
  <2>4. Good(R1(w))
    <3>1. R1(w) = m /\ R0(m) = <<c>>
      BY <2>1
    <3> HIDE DEF m
    <3>2. m # <<>> /\ m[Len(m)] # "~"
      BY <2>2
    <3> QED BY <2>2, <3>1, <3>2
  <2> QED BY <2>3, <2>4 DEF R0, R1
<1>5. CASE c # "~" /\ c # "/"
  <2>1. w = <<c>> /\ R1(w) = <<c>> /\ R0(<<c>>) = <<c>> /\ c \in Plain
    BY <1>0, <1>1, <1>5 DEF EscapedAs, Plain
  <2>2. <<c>> \in Seq(Char) /\ <<c>> \in Seq(Plain)
    BY <1>0, <2>1
  <2>3. Fit(w)
    <3>1. Len(w) = 1 /\ w[1] # "~" /\ w # <<>>
      BY <1>5, <2>1
    <3>2. IsEscaped(w)
      BY <3>1 DEF IsEscaped
    <3> QED BY <2>1, <2>2, <3>1, <3>2
  <2>4. Good(R1(w))
    BY <1>5, <2>1, <2>2
  <2> QED BY <2>3, <2>4 DEF R0, R1
<1> QED BY <1>3, <1>4, <1>5

\* An escaped key is a token without a slash, and is read back.
LEMMA EscapeIs ==
    ASSUME NEW key \in Seq(Char)
    PROVE  Escape(key) \in Seq(Plain) /\ IsEscaped(Escape(key)) /\ Unescape(Escape(key)) = key
<1> DEFINE R1(text) == ReplacePair(text, "1", "/")
           R0(text) == ReplacePair(text, "0", "~")
           Ends(t) == t # <<>> => t[Len(t)] # "~"
           Fit(t) == t \in Seq(Plain) /\ IsEscaped(t) /\ Ends(t)
           Back(t, k) == R1(t) \in Seq(Char) /\ Ends(R1(t)) /\ R0(R1(t)) = k
           Good(k) == Fit(Escape(k)) /\ Back(Escape(k), k)
           T == {k \in Seq(Char) : Good(k)}
<1>0. {"~", "/"} \subseteq Char /\ Plain \subseteq Char
  BY Characters
<1>1. <<>> \in T
  <2>1. Escape(<<>>) = <<>>
    <3>1. \A ch, with : Replace(<<>>, ch, with) = <<>>
      BY DEF Replace, FlattenSeq
    <3> QED BY <3>1 DEF Escape
  <2>2. R1(<<>>) = <<>> /\ R0(<<>>) = <<>>
    <3>1. "/" \in Char /\ "~" \in Char
      BY <1>0
    <3>2. \A ch : \A with \in Char : ReplacePair(<<>>, ch, with) = <<>>
      BY <3>1, ReplacePairFew
    <3> QED BY <3>1, <3>2
  <2>3. Fit(<<>>)
    <3>1. \A i \in 1..Len(<<>>) : FALSE
      OBVIOUS
    <3> QED BY <3>1 DEF IsEscaped
  <2>4. Back(<<>>, <<>>)
    <3> HIDE DEF R0, R1
    <3>1. R1(<<>>) \in Seq(Char)
      <4>1. <<>> \in Seq(Char)
        OBVIOUS
      <4> QED BY <2>2, <4>1
    <3>2. Ends(R1(<<>>))
      BY <2>2
    <3>3. R0(R1(<<>>)) = <<>>
      BY <2>2
    <3> QED BY <3>1, <3>2, <3>3
  <2> HIDE DEF Fit, Back
  <2>5. <<>> \in Seq(Char)
    OBVIOUS
  <2> QED BY <2>1, <2>3, <2>4, <2>5
<1>2. ASSUME NEW k \in Seq(Char), k \in T, NEW c \in Char PROVE Append(k, c) \in T
  <2> DEFINE e == Escape(k)
             w == EscapedAs(c)
             m == R1(e)
             r == R1(w)
  <2>1. Append(k, c) \in Seq(Char) /\ Escape(Append(k, c)) = e \o w
    BY EscapeAppend, AppendProperties
  <2>2. Fit(e) /\ Back(e, k)
    BY <1>2
  <2>3. /\ w \in Seq(Plain) /\ w # <<>> /\ w[Len(w)] # "~" /\ IsEscaped(w)
        /\ r \in Seq(Char) /\ r # <<>> /\ r[Len(r)] # "~" /\ R0(r) = <<c>>
    BY EscapedAsIs
  <2> HIDE DEF e, w
  <2>4. /\ e \in Seq(Plain) /\ w \in Seq(Plain) /\ e \in Seq(Char) /\ w \in Seq(Char)
        /\ Ends(e) /\ Ends(m) /\ m \in Seq(Char) /\ r \in Seq(Char)
    BY <1>0, <2>2, <2>3, SeqMonotonic
  <2>5. R1(e \o w) = m \o r
    <3>1. \A s, t \in Seq(Char) : Ends(s) => R1(s \o t) = R1(s) \o R1(t)
      BY <1>0, ReplacePairConcat
    <3> HIDE DEF R1, Ends
    <3> QED BY <2>4, <3>1
  <2>6. R0(m \o r) = R0(m) \o R0(r)
    <3>1. \A s, t \in Seq(Char) : Ends(s) => R0(s \o t) = R0(s) \o R0(t)
      BY <1>0, ReplacePairConcat
    <3> HIDE DEF R0, m, r, Ends
    <3> QED BY <2>4, <3>1
  <2> HIDE DEF R0, R1, m, r, Ends
  <2>7. \A S : \A s, t \in Seq(S) : t # <<>> /\ t[Len(t)] # "~" =>
            s \o t \in Seq(S) /\ Ends(s \o t)
    <3> SUFFICES ASSUME NEW S, NEW s \in Seq(S), NEW t \in Seq(S), t # <<>>, t[Len(t)] # "~"
                 PROVE  s \o t \in Seq(S) /\ Ends(s \o t)
      OBVIOUS
    <3>1. Len(t) \in 1..Len(t) /\ s \o t \in Seq(S) /\ Len(s \o t) = Len(s) + Len(t)
      BY EmptySeq, Appended, LenProperties
    <3>2. (s \o t)[Len(s) + Len(t)] = t[Len(t)]
      BY <3>1, Appended
    <3> QED BY <3>1, <3>2 DEF Ends
  <2>8. IsEscaped(e \o w)
    <3> DEFINE u == e \o w
    <3>1. /\ Len(u) = Len(e) + Len(w) /\ Len(e) \in Nat /\ Len(w) \in Nat /\ Len(w) # 0
          /\ \A i \in 1..Len(e) : u[i] = e[i]
          /\ \A i \in 1..Len(w) : u[Len(e) + i] = w[i]
      BY <2>3, <2>4, Appended, LenProperties, EmptySeq
    <3> HIDE DEF u
    <3>2. ASSUME NEW i \in 1..Len(u), u[i] = "~"
          PROVE  i < Len(u) /\ u[i + 1] \in {"0", "1"}
      <4>1. CASE i <= Len(e)
        <5>1. i \in 1..Len(e)
          BY <3>1, <4>1
        <5>2. i < Len(e) /\ e[i + 1] \in {"0", "1"}
          BY <2>2, <3>1, <3>2, <5>1 DEF IsEscaped
        <5>3. i + 1 \in 1..Len(e)
          BY <3>1, <5>1, <5>2
        <5> QED BY <3>1, <5>2, <5>3
      <4>2. CASE ~(i <= Len(e))
        <5> DEFINE j == i - Len(e)
        <5>1. j \in 1..Len(w) /\ i = Len(e) + j /\ i + 1 = Len(e) + (j + 1)
          BY <3>1, <4>2
        <5> HIDE DEF j
        <5>2. j < Len(w) /\ w[j + 1] \in {"0", "1"}
          <6>1. w[j] = "~"
            BY <3>1, <3>2, <5>1
          <6> QED BY <2>3, <5>1, <6>1 DEF IsEscaped
        <5>3. j + 1 \in 1..Len(w)
          BY <3>1, <5>1, <5>2
        <5>4. u[i + 1] = w[j + 1]
          BY <3>1, <5>1, <5>3
        <5> QED BY <3>1, <5>1, <5>2, <5>4
      <4> QED BY <4>1, <4>2
    <3>3. IsEscaped(u)
      BY <3>2 DEF IsEscaped
    <3> QED BY <3>3 DEF u
  <2>9. Fit(e \o w)
    BY <2>3, <2>4, <2>7, <2>8
  <2>10. Back(e \o w, Append(k, c))
    <3>1. R0(m \o r) = Append(k, c)
      <4>1. R0(m) = k /\ R0(r) = <<c>>
        BY <2>2, <2>3 DEF m
      <4> QED BY <2>6, <4>1, AppendIsConcat
    <3>2. m \o r \in Seq(Char) /\ Ends(m \o r)
      BY <2>3, <2>4, <2>7
    <3> QED BY <2>5, <3>1, <3>2
  <2> HIDE DEF Fit, Back
  <2> QED BY <2>1, <2>9, <2>10
<1> HIDE DEF T
<1>3. Seq(Char) \subseteq T
  <2>1. \A k \in Seq(Char) : k \in T => \A c \in Char : Append(k, c) \in T
    BY <1>2
  <2> QED BY <1>1, <2>1, SeqGrows
<1>4. Good(key)
  BY <1>3 DEF T
<1> QED BY <1>4 DEF Unescape

-----------------------------------------------------------------------------
(* Reading a pointer, following a path, opening a body: one step after the *)
(* other                                                                   *)

\* What a character makes of the tokens read before it.
Reads(before, character) ==
    IF character = "/" THEN Append(before, <<>>)
    ELSE IF before = <<>> THEN <<>>
    ELSE Append(Front(before), Append(Last(before), character))

\* What all the nodes of a level are made of.
OneDown(nodes) == FlattenSeq([i \in DOMAIN nodes |-> Members(nodes[i])])

\* The bodies with no object or array around a leaf.
Base == ({"leaf"} \X Scalars) \cup ({"object", "array"} \X {<<>>})

\* Those with such bodies for parts.
Deeper(bodies) ==
    ({"array"} \X Seq(bodies))
      \cup {tree \in {"object"} \X Seq(Seq(STRING) \X bodies) :
               \A i, j \in DOMAIN tree[2] : tree[2][i][1] = tree[2][j][1] => i = j}

\* What each of them does with what it has and with what comes next.
Pass(kind, x, y) ==
    IF kind = "tokens" THEN Reads(x, y)
    ELSE IF kind = "path" THEN Child(x, y)
    ELSE IF kind = "level" THEN OneDown(x)
    ELSE Base \cup Deeper(x)

\* f is what it has up to n.
ArePasses(f, kind, start, s, n) ==
    f = [k \in 0..n |-> IF k = 0 THEN start ELSE Pass(kind, f[k - 1], s[k])]

\* There is a function of what has been passed.
LEMMA PassesExist ==
    ASSUME NEW kind, NEW start, NEW s, NEW n \in Nat
    PROVE  \E f : ArePasses(f, kind, start, s, n)
<1> DEFINE Next(k, f) == IF k = 0 THEN start ELSE Pass(kind, f[k - 1], s[k])
           Are(f, m) == f = [k \in 0..m |-> Next(k, f)]
           T == {m \in Nat : \E f : Are(f, m)}
<1>1. 0 \in T
  <2> DEFINE f == [k \in 0..0 |-> start]
  <2>1. Are(f, 0)
    OBVIOUS
  <2> HIDE DEF f, Are
  <2> QED BY <2>1
<1>2. ASSUME NEW k \in 0..n, NEW m \in 0..n, k \in T, m = k + 1 PROVE m \in T
  <2>1. PICK f : Are(f, k)
    BY <1>2
  <2> DEFINE g == [i \in 0..m |-> IF i = m THEN Next(m, f) ELSE f[i]]
  <2>2. k \in Nat /\ m \in Nat
    BY <1>2
  <2>3. ASSUME NEW i \in 0..m PROVE g[i] = Next(i, g)
    <3>1. Next(i, g) = Next(i, f)
      <4>1. i # 0 => i - 1 \in 0..m /\ i - 1 # m
        BY <2>2
      <4>2. i # 0 => g[i - 1] = f[i - 1]
        BY <4>1
      <4> HIDE DEF g
      <4> QED BY <2>2, <4>2
    <3>2. CASE i = m
      <4> HIDE DEF Next
      <4> QED BY <3>1, <3>2
    <3>3. CASE i # m
      <4>1. i \in 0..k
        BY <1>2, <2>2, <3>3
      <4> HIDE DEF Next
      <4>2. f[i] = Next(i, f)
        BY <2>1, <4>1
      <4> QED BY <3>1, <3>3, <4>2
    <3> QED BY <3>2, <3>3
  <2>4. g = [i \in 0..m |-> g[i]]
    OBVIOUS
  <2> HIDE DEF g, Next
  <2>5. Are(g, m)
    BY <2>3, <2>4
  <2> QED BY <2>2, <2>5
<1> HIDE DEF T
<1>3. n \in T
  BY <1>1, <1>2, Climb
<1> QED BY <1>3 DEF T, ArePasses

\* What has the same start and the same to go through is the same.
LEMMA PassesAgree ==
    ASSUME NEW kind, NEW start, NEW n \in Nat, NEW m \in Nat, NEW k \in 0..n, k \in 0..m,
           NEW s, NEW t, \A i \in 1..k : s[i] = t[i],
           NEW f, ArePasses(f, kind, start, s, n), NEW g, ArePasses(g, kind, start, t, m)
    PROVE  f[k] = g[k]
<1> DEFINE T == {i \in Nat : i <= k => f[i] = g[i]}
<1>0. ASSUME NEW i \in 0..k
      PROVE  /\ f[i] = IF i = 0 THEN start ELSE Pass(kind, f[i - 1], s[i])
             /\ g[i] = IF i = 0 THEN start ELSE Pass(kind, g[i - 1], t[i])
  <2>1. i \in 0..n /\ i \in 0..m
    OBVIOUS
  <2>2. f[i] = IF i = 0 THEN start ELSE Pass(kind, f[i - 1], s[i])
    BY <2>1 DEF ArePasses
  <2>3. g[i] = IF i = 0 THEN start ELSE Pass(kind, g[i - 1], t[i])
    BY <2>1 DEF ArePasses
  <2> QED BY <2>2, <2>3
<1>1. 0 \in T
  BY <1>0
<1>2. ASSUME NEW i \in 0..k, NEW j \in 0..k, i \in T, j = i + 1 PROVE j \in T
  <2>1. j - 1 = i /\ j # 0 /\ j \in 1..k /\ f[i] = g[i] /\ s[j] = t[j]
    BY <1>2
  <2> QED BY <1>0, <2>1
<1> HIDE DEF T
<1>3. k \in T
  BY <1>1, <1>2, Climb
<1> QED BY <1>3 DEF T

\* What is read of a pointer, one character after the other.
LEMMA TokensAre ==
    ASSUME NEW pointer, Len(pointer) \in Nat
    PROVE  \E f : /\ ArePasses(f, "tokens", <<>>, pointer, Len(pointer))
                  /\ Tokens(pointer) = f[Len(pointer)]
<1> DEFINE n == Len(pointer)
           W == CHOOSE f : f = [k \in 0..n |-> IF k = 0 THEN <<>>
                                               ELSE Reads(f[k - 1], pointer[k])]
<1>1. Tokens(pointer) = W[n]
  BY DEF Tokens, Reads
<1> HIDE DEF n
<1>2. \A f : ArePasses(f, "tokens", <<>>, pointer, n)
               <=> f = [k \in 0..n |-> IF k = 0 THEN <<>> ELSE Reads(f[k - 1], pointer[k])]
  BY DEF ArePasses, Pass
<1>3. PICK f : ArePasses(f, "tokens", <<>>, pointer, n)
  BY PassesExist DEF n
<1>4. W = [k \in 0..n |-> IF k = 0 THEN <<>> ELSE Reads(W[k - 1], pointer[k])]
  BY <1>2, <1>3
<1> HIDE DEF W
<1> QED BY <1>1, <1>2, <1>4 DEF n

\* Where a path leads, one token after the other.
LEMMA FollowIs ==
    ASSUME NEW tree, NEW path, Len(path) \in Nat
    PROVE  \E f : /\ ArePasses(f, "path", tree, path, Len(path))
                  /\ Follow(tree, path) = f[Len(path)]
<1> DEFINE n == Len(path)
           W == CHOOSE f : f = [k \in 0..n |-> IF k = 0 THEN tree
                                               ELSE Child(f[k - 1], path[k])]
<1>1. Follow(tree, path) = W[n]
  BY DEF Follow
<1> HIDE DEF n
<1>2. \A f : ArePasses(f, "path", tree, path, n)
               <=> f = [k \in 0..n |-> IF k = 0 THEN tree ELSE Child(f[k - 1], path[k])]
  BY DEF ArePasses, Pass
<1>3. PICK f : ArePasses(f, "path", tree, path, n)
  BY PassesExist DEF n
<1>4. W = [k \in 0..n |-> IF k = 0 THEN tree ELSE Child(W[k - 1], path[k])]
  BY <1>2, <1>3
<1> HIDE DEF W
<1> QED BY <1>1, <1>2, <1>4 DEF n

\* One character, or one token, further.
LEMMA OnePassMore ==
    ASSUME NEW S, NEW s \in Seq(S), NEW x \in S, NEW kind, NEW start,
           NEW f, ArePasses(f, kind, start, s, Len(s)),
           NEW g, ArePasses(g, kind, start, Append(s, x), Len(Append(s, x)))
    PROVE  g[Len(Append(s, x))] = Pass(kind, f[Len(s)], x)
<1> DEFINE t == Append(s, x)
           n == Len(s)
<1>1. n \in Nat /\ Len(t) = n + 1 /\ t[n + 1] = x /\ \A i \in 1..n : t[i] = s[i]
  BY AppendProperties, LenProperties
<1> HIDE DEF t
<1>2. g[n] = f[n]
  <2>1. n \in 0..n /\ n \in 0..(n + 1) /\ n + 1 \in Nat /\ Len(t) = n + 1
    BY <1>1
  <2>2. ArePasses(f, kind, start, s, n) /\ ArePasses(g, kind, start, t, n + 1)
    BY <1>1 DEF t
  <2>3. \A i \in 1..n : s[i] = t[i]
    BY <1>1
  <2> HIDE DEF n
  <2>4. f[n] = g[n]
    BY <1>1, <2>1, <2>2, <2>3, PassesAgree
  <2> QED BY <2>4
<1>3. g[n + 1] = Pass(kind, g[n], t[n + 1])
  <2>1. n + 1 \in 0..(n + 1) /\ n + 1 # 0 /\ (n + 1) - 1 = n
    BY <1>1
  <2>2. ArePasses(g, kind, start, t, n + 1)
    BY <1>1 DEF t
  <2> HIDE DEF n
  <2>3. g[n + 1] = IF n + 1 = 0 THEN start ELSE Pass(kind, g[(n + 1) - 1], t[n + 1])
    BY <2>1, <2>2, Zenon DEF ArePasses
  <2> QED BY <2>1, <2>3
<1> QED BY <1>1, <1>2, <1>3 DEF t

\* What is read of a pointer with one character more.
LEMMA TokensOfMore ==
    ASSUME NEW S, NEW pointer \in Seq(S), NEW c \in S
    PROVE  Tokens(Append(pointer, c)) = Reads(Tokens(pointer), c)
<1>1. Append(pointer, c) \in Seq(S)
  BY AppendProperties
<1>2. Len(pointer) \in Nat /\ Len(Append(pointer, c)) \in Nat
  BY <1>1, LenProperties
<1>3. PICK f : /\ ArePasses(f, "tokens", <<>>, pointer, Len(pointer))
               /\ Tokens(pointer) = f[Len(pointer)]
  BY <1>2, TokensAre
<1>4. PICK g : /\ ArePasses(g, "tokens", <<>>, Append(pointer, c), Len(Append(pointer, c)))
               /\ Tokens(Append(pointer, c)) = g[Len(Append(pointer, c))]
  BY <1>2, TokensAre
<1>5. g[Len(Append(pointer, c))] = Pass("tokens", f[Len(pointer)], c)
  BY <1>3, <1>4, OnePassMore
<1> QED BY <1>3, <1>4, <1>5 DEF Pass

\* Where a path with one token more leads.
LEMMA FollowOfMore ==
    ASSUME NEW tree, NEW S, NEW path \in Seq(S), NEW token \in S
    PROVE  Follow(tree, Append(path, token)) = Child(Follow(tree, path), token)
<1>1. Append(path, token) \in Seq(S)
  BY AppendProperties
<1>2. Len(path) \in Nat /\ Len(Append(path, token)) \in Nat
  BY <1>1, LenProperties
<1>3. PICK f : /\ ArePasses(f, "path", tree, path, Len(path))
               /\ Follow(tree, path) = f[Len(path)]
  BY <1>2, FollowIs
<1>4. PICK g : /\ ArePasses(g, "path", tree, Append(path, token), Len(Append(path, token)))
               /\ Follow(tree, Append(path, token)) = g[Len(Append(path, token))]
  BY <1>2, FollowIs
<1>5. g[Len(Append(path, token))] = Pass("path", f[Len(path)], token)
  BY <1>3, <1>4, OnePassMore
<1> QED BY <1>3, <1>4, <1>5 DEF Pass

\* The empty pointer has no tokens, and the empty path leads to the tree.
LEMMA NothingToPass ==
    /\ Tokens(<<>>) = <<>>
    /\ \A tree : Follow(tree, <<>>) = tree
<1>1. Len(<<>>) = 0 /\ 0 \in Nat /\ 0 \in 0..0
  OBVIOUS
<1>2. Tokens(<<>>) = <<>>
  <2>1. PICK f : ArePasses(f, "tokens", <<>>, <<>>, 0) /\ Tokens(<<>>) = f[0]
    BY <1>1, TokensAre
  <2> QED BY <1>1, <2>1 DEF ArePasses
<1>3. ASSUME NEW tree PROVE Follow(tree, <<>>) = tree
  <2>1. PICK f : ArePasses(f, "path", tree, <<>>, 0) /\ Follow(tree, <<>>) = f[0]
    BY <1>1, FollowIs
  <2> QED BY <1>1, <2>1 DEF ArePasses
<1> QED BY <1>2, <1>3

\* A token without a slash, after a slash, is read as one token more.
LEMMA TokenIsRead ==
    ASSUME NEW pointer \in Seq(Char), NEW tokens \in Seq(Seq(Char)),
           Tokens(pointer) = tokens, NEW token \in Seq(Plain)
    PROVE  /\ pointer \o <<"/">> \o token \in Seq(Char)
           /\ Tokens(pointer \o <<"/">> \o token) = Append(tokens, token)
<1>0. "/" \in Char /\ Plain \subseteq Char /\ "/" \notin Plain
  BY Characters DEF Plain
<1> DEFINE p == pointer \o <<"/">>
           T == {t \in Seq(Plain) : p \o t \in Seq(Char) /\ Tokens(p \o t) = Append(tokens, t)}
<1>1. p = Append(pointer, "/") /\ p \in Seq(Char)
  BY <1>0, AppendIsConcat, AppendProperties
<1>2. <<>> \in T
  <2>1. p \o <<>> = p /\ <<>> \in Seq(Plain)
    BY <1>1, ConcatEmptySeq
  <2>2. Tokens(p) = Reads(tokens, "/")
    BY <1>0, <1>1, TokensOfMore
  <2>3. Reads(tokens, "/") = Append(tokens, <<>>)
    BY DEF Reads
  <2> HIDE DEF p
  <2> QED BY <1>1, <2>1, <2>2, <2>3
<1> HIDE DEF p
<1>3. ASSUME NEW t \in Seq(Plain), t \in T, NEW c \in Plain PROVE Append(t, c) \in T
  <2>1. t \in Seq(Char) /\ c \in Char /\ Append(t, c) \in Seq(Plain) /\ Append(t, c) \in Seq(Char)
    BY <1>0, AppendProperties, SeqMonotonic
  <2>2. p \o t \in Seq(Char) /\ Tokens(p \o t) = Append(tokens, t)
    BY <1>3
  <2>3. p \o Append(t, c) = Append(p \o t, c)
    BY <1>1, <2>1, AppendedLast
  <2>4. Tokens(Append(p \o t, c)) = Reads(Append(tokens, t), c)
    BY <2>1, <2>2, TokensOfMore
  <2>5. Reads(Append(tokens, t), c) = Append(tokens, Append(t, c))
    <3> DEFINE b == Append(tokens, t)
    <3>1. /\ b \in Seq(Seq(Char)) /\ b # <<>> /\ Len(b) = Len(tokens) + 1
          /\ b[Len(tokens) + 1] = t /\ \A i \in 1..Len(tokens) : b[i] = tokens[i]
          /\ Len(tokens) \in Nat
      <4> DEFINE X == Seq(Char)
      <4>1. tokens \in Seq(X) /\ t \in X
        BY <2>1
      <4> HIDE DEF X
      <4>2. Len(tokens) \in Nat
        BY <4>1, LenProperties
      <4>3. /\ b \in Seq(X) /\ b # <<>> /\ Len(b) = Len(tokens) + 1
            /\ b[Len(tokens) + 1] = t /\ \A i \in 1..Len(tokens) : b[i] = tokens[i]
        BY <4>1, AppendProperties
      <4> QED BY <4>2, <4>3 DEF X
    <3> HIDE DEF b
    <3>2. Last(b) = t
      BY <3>1 DEF Last
    <3>3. Front(b) = tokens
      <4>1. /\ SubSeq(b, 1, Len(tokens)) \in Seq(Seq(Char))
            /\ Len(SubSeq(b, 1, Len(tokens))) = Len(tokens)
            /\ \A i \in 1..Len(tokens) : SubSeq(b, 1, Len(tokens))[i] = tokens[i]
        <5> DEFINE n == Len(tokens)
        <5>1. n \in Nat /\ n \in Int /\ 1 \in Int /\ \A i \in 1..n : b[i] \in Seq(Char)
          BY <3>1, ElementOfSeq
        <5> HIDE DEF n
        <5>2. /\ SubSeq(b, 1, n) \in Seq(Seq(Char))
              /\ Len(SubSeq(b, 1, n)) = IF 1 <= n THEN n - 1 + 1 ELSE 0
              /\ \A i \in 1..(n - 1 + 1) : SubSeq(b, 1, n)[i] = b[1 + i - 1]
          BY <5>1, SubSeqProperties
        <5>3. n - 1 + 1 = n /\ \A i \in 1..n : 1 + i - 1 = i
          BY <5>1
        <5>4. Len(SubSeq(b, 1, n)) = n
          BY <5>1, <5>2, <5>3
        <5>5. \A i \in 1..n : SubSeq(b, 1, n)[i] = b[i]
          BY <5>2, <5>3
        <5> QED BY <3>1, <5>2, <5>4, <5>5 DEF n
      <4>2. SubSeq(b, 1, Len(tokens)) = tokens
        BY <4>1, SeqEqual
      <4>3. Len(b) - 1 = Len(tokens)
        BY <3>1
      <4> QED BY <4>2, <4>3 DEF Front
    <3>4. c # "/"
      BY <1>0
    <3>5. Reads(b, c) = Append(Front(b), Append(Last(b), c))
      BY <3>1, <3>4 DEF Reads
    <3> QED BY <3>2, <3>3, <3>5 DEF b
  <2>6. Append(p \o t, c) \in Seq(Char)
    BY <2>1, <2>2, AppendProperties
  <2> QED BY <2>1, <2>3, <2>4, <2>5, <2>6
<1> HIDE DEF T
<1>4. Seq(Plain) \subseteq T
  <2>1. \A t \in Seq(Plain) : t \in T => \A c \in Plain : Append(t, c) \in T
    BY <1>3
  <2> QED BY <1>2, <2>1, SeqGrows
<1> QED BY <1>4 DEF T, p

-----------------------------------------------------------------------------
(* Bodies *)

\* What the bodies of a depth are, in terms of those of the depth before.
LEMMA TreesAre ==
    /\ Trees[0] = Base
    /\ \A n \in 0..(MaxDepth - 1) : Trees[n + 1] = Base \cup Deeper(Trees[n])
<1> DEFINE Set(n, f) ==
               ({"leaf"} \X Scalars) \cup ({"object", "array"} \X {<<>>})
                 \cup IF n = 0 THEN {}
                      ELSE ({"array"} \X Seq(f[n - 1]))
                             \cup {tree \in {"object"} \X Seq(Seq(STRING) \X f[n - 1]) :
                                      \A i, j \in DOMAIN tree[2] :
                                          tree[2][i][1] = tree[2][j][1] => i = j}
           W == CHOOSE f : f = [n \in 0..MaxDepth |-> Set(n, f)]
<1>0. MaxDepth \in Nat
  BY DepthAssumption
<1>1. Trees = W
  BY DEF Trees
<1>2. \A n, f : Set(n, f) = Base \cup IF n = 0 THEN {} ELSE Deeper(f[n - 1])
  BY DEF Base, Deeper
<1> HIDE DEF Set
<1>3. PICK f : ArePasses(f, "tree", Base, <<>>, MaxDepth)
  BY <1>0, PassesExist
<1>4. f = [n \in 0..MaxDepth |-> Set(n, f)]
  <2>1. ASSUME NEW n \in 0..MaxDepth PROVE f[n] = Set(n, f)
    <3>1. f[n] = IF n = 0 THEN Base ELSE Pass("tree", f[n - 1], <<>>[n])
      BY <1>3 DEF ArePasses
    <3>2. f[n] = IF n = 0 THEN Base ELSE Base \cup Deeper(f[n - 1])
      BY <3>1 DEF Pass
    <3>3. CASE n = 0
      BY <1>2, <3>2, <3>3
    <3>4. CASE n # 0
      BY <1>2, <3>2, <3>4
    <3> QED BY <3>3, <3>4
  <2>2. f = [n \in 0..MaxDepth |-> f[n]]
    BY <1>3 DEF ArePasses
  <2> QED BY <2>1, <2>2
<1>5. W = [n \in 0..MaxDepth |-> Set(n, W)]
  BY <1>4
<1> HIDE DEF W
<1>6. \A n \in 0..MaxDepth : Trees[n] = Base \cup IF n = 0 THEN {} ELSE Deeper(Trees[n - 1])
  BY <1>1, <1>2, <1>5
<1>7. Trees[0] = Base
  <2>1. 0 \in 0..MaxDepth
    BY <1>0
  <2>2. Trees[0] = Base \cup {}
    BY <1>6, <2>1
  <2> QED BY <2>2
<1>8. ASSUME NEW n \in 0..(MaxDepth - 1) PROVE Trees[n + 1] = Base \cup Deeper(Trees[n])
  <2>1. n + 1 \in 0..MaxDepth /\ n + 1 # 0 /\ (n + 1) - 1 = n
    BY <1>0
  <2> QED BY <1>6, <2>1
<1> QED BY <1>7, <1>8

\* What is not a leaf has parts, and a token for each that no other has.
LEMMA LeavesAre ==
    /\ \A tree \in Base : IsLeaf(tree)
    /\ \A bodies : \A tree \in Deeper(bodies) :
          /\ tree[1] \in {"object", "array"}
          /\ IsLeaf(tree) => tree \in Base
          /\ ~IsLeaf(tree) => tree[2] # <<>>
<1>1. ASSUME NEW tree \in Base PROVE IsLeaf(tree)
  BY DEF Base, IsLeaf
<1>2. ASSUME NEW bodies, NEW tree \in Deeper(bodies)
      PROVE  tree[1] \in {"object", "array"} /\ tree = <<tree[1], tree[2]>>
  BY DEF Deeper
<1>3. ASSUME NEW bodies, NEW tree \in Deeper(bodies), IsLeaf(tree) PROVE tree \in Base
  <2>1. tree[1] \in {"object", "array"} /\ tree = <<tree[1], tree[2]>>
    BY <1>2
  <2>2. tree[2] = <<>>
    BY <1>3, <2>1 DEF IsLeaf
  <2> QED BY <2>1, <2>2 DEF Base
<1> QED BY <1>1, <1>2, <1>3 DEF IsLeaf

\* One place has the token.
LEMMA OnlyPart ==
    ASSUME NEW here, NEW i, here = {i}
    PROVE  here # {} /\ (CHOOSE j \in here : TRUE) = i
OBVIOUS

\* A part of an object or an array is found by its token, which no other has.
LEMMA PartIsFound ==
    ASSUME NEW bodies, NEW tree \in Deeper(bodies), ~IsLeaf(tree),
           NEW i \in DOMAIN tree[2]
    PROVE  /\ Part(tree, i) \in bodies
           /\ Token(tree, i) \in Seq(Plain)
           /\ Child(tree, Token(tree, i)) = Part(tree, i)
           /\ \A j \in DOMAIN tree[2] : Token(tree, i) = Token(tree, j) => i = j
<1> DEFINE parts == tree[2]
           token == Token(tree, i)
           Bad == \E k \in DOMAIN token :
                     token[k] = "~" /\ (k = Len(token) \/ token[k + 1] \notin {"0", "1"})
<1>1. CASE tree[1] = "object"
  <2>1. /\ parts \in Seq(Seq(STRING) \X bodies)
        /\ \A j, k \in DOMAIN parts : parts[j][1] = parts[k][1] => j = k
    BY <1>1 DEF Deeper
  <2>2. DOMAIN parts = 1..Len(parts) /\ Len(parts) \in Nat
    BY <2>1, LenProperties
  <2>3. \A j \in DOMAIN parts : parts[j][1] \in Seq(Char) /\ parts[j][2] \in bodies
    <3>1. \A j \in DOMAIN parts : parts[j] \in Seq(STRING) \X bodies
      BY <2>1, <2>2, ElementOfSeq
    <3>2. STRING \subseteq Char
      BY DEF Char
    <3>3. \A key \in Seq(STRING) : key \in Seq(Char)
      BY <3>2, SeqMonotonic
    <3> QED BY <3>1, <3>3
  <2>4. \A j \in DOMAIN parts : Token(tree, j) = Escape(parts[j][1])
    BY <1>1 DEF Token
  <2>5. /\ \A j \in DOMAIN parts : Unescape(Token(tree, j)) = parts[j][1]
        /\ token \in Seq(Plain) /\ IsEscaped(token)
    BY <2>3, <2>4, EscapeIs
  <2>6. Part(tree, i) = parts[i][2]
    BY <1>1 DEF Part
  <2>7. ~Bad
    <3> HIDE DEF token
    <3>1. DOMAIN token = 1..Len(token) /\ Len(token) \in Nat
      BY <2>5, LenProperties
    <3> QED BY <2>5, <3>1 DEF IsEscaped
  <2>8. {j \in DOMAIN parts : parts[j][1] = Unescape(token)} = {i}
    <3> HIDE DEF token
    <3>1. Unescape(token) = parts[i][1]
      BY <2>5 DEF token
    <3> QED BY <2>1, <3>1
  <2>9. Child(tree, token) = Part(tree, i)
    <3> DEFINE here == {j \in DOMAIN parts : parts[j][1] = Unescape(token)}
    <3>1. Child(tree, token) = IF here = {} \/ Bad THEN Unresolved
                               ELSE Part(tree, CHOOSE j \in here : TRUE)
      BY <1>1 DEF Child
    <3> HIDE DEF here, Bad
    <3>2. here # {} /\ (CHOOSE j \in here : TRUE) = i
      BY <2>8, OnlyPart DEF here
    <3> QED BY <2>7, <3>1, <3>2
  <2>10. ASSUME NEW j \in DOMAIN parts, token = Token(tree, j) PROVE i = j
    <3>1. parts[i][1] = parts[j][1]
      BY <2>5, <2>10
    <3> QED BY <2>1, <3>1
  <2> QED BY <2>3, <2>5, <2>6, <2>9, <2>10
<1>2. CASE tree[1] = "array"
  <2>0. tree[1] # "object"
    BY <1>2
  <2>1. parts \in Seq(bodies)
    BY <1>2 DEF Deeper
  <2>2. DOMAIN parts = 1..Len(parts) /\ Len(parts) \in Nat
    BY <2>1, LenProperties
  <2>3. Part(tree, i) = parts[i] /\ parts[i] \in bodies
    BY <2>0, <2>1, <2>2, ElementOfSeq DEF Part
  <2>4. \A j \in DOMAIN parts : Token(tree, j) = Numeral(j - 1) /\ j - 1 \in Nat
    BY <2>0, <2>2 DEF Token
  <2>5. token \in Seq(DigitSet)
    BY <2>4, NumeralsDiffer
  <2>6. token \in Seq(Plain)
    BY <2>5, Characters, SeqMonotonic
  <2>7. ~Bad
    <3> HIDE DEF token
    <3>1. \A k \in DOMAIN token : token[k] \in DigitSet
      BY <2>5, LenProperties, ElementOfSeq
    <3> QED BY <3>1, Characters
  <2>8. \A j \in DOMAIN parts : token = Numeral(j - 1) => i = j
    <3>1. ASSUME NEW j \in DOMAIN parts, token = Numeral(j - 1) PROVE i = j
      <4>1. i - 1 \in Nat /\ j - 1 \in Nat /\ Numeral(i - 1) = Numeral(j - 1)
        BY <2>4, <3>1
      <4>2. i - 1 = j - 1
        BY <4>1, NumeralsDiffer
      <4> QED BY <2>2, <4>2
    <3> QED BY <3>1
  <2>9. Child(tree, token) = Part(tree, i)
    <3> DEFINE here == {j \in DOMAIN parts : Numeral(j - 1) = token}
    <3>1. Child(tree, token) = IF here = {} \/ Bad THEN Unresolved
                               ELSE Part(tree, CHOOSE j \in here : TRUE)
      BY <1>2 DEF Child
    <3>2. here = {i}
      BY <2>4, <2>8
    <3> HIDE DEF here, Bad
    <3>3. here # {} /\ (CHOOSE j \in here : TRUE) = i
      BY <3>2, OnlyPart
    <3> QED BY <2>7, <3>1, <3>3
  <2> QED BY <2>3, <2>4, <2>6, <2>8, <2>9
<1> QED BY <1>1, <1>2, LeavesAre

\* One path goes on from the end of the other.
Begins(s, t) == Len(s) <= Len(t) /\ \A k \in 1..Len(s) : s[k] = t[k]

\* To go on from the end of a path is to have it as a prefix.
LEMMA PrefixIs ==
    ASSUME NEW S, NEW s \in Seq(S), NEW t \in Seq(S), Begins(s, t)
    PROVE  IsPrefix(s, t)
<1> DEFINE n == Len(s)
           u == SubSeq(t, 1, n)
<1>1. /\ n \in Nat /\ n \in Int /\ 1 \in Int /\ n <= Len(t) /\ Len(t) \in Nat
      /\ \A i \in 1..n : s[i] = t[i] /\ s[i] \in S
  BY LenProperties, ElementOfSeq DEF Begins
<1>2. SubSeq(s, 1, n) = s
  BY SubSeqFull
<1> HIDE DEF n
<1>3. /\ u \in Seq(S) /\ Len(u) = IF 1 <= n THEN n - 1 + 1 ELSE 0
      /\ \A i \in 1..(n - 1 + 1) : u[i] = t[1 + i - 1]
  BY <1>1, SubSeqProperties
<1> HIDE DEF u
<1>4. Len(u) = n /\ n - 1 + 1 = n /\ \A i \in 1..n : 1 + i - 1 = i
  BY <1>1, <1>3
<1>5. \A i \in 1..n : u[i] = s[i]
  BY <1>1, <1>3, <1>4
<1>6. u = s
  BY <1>3, <1>4, <1>5, SeqEqual DEF n
<1> QED BY <1>1, <1>2, <1>6 DEF IsPrefix, n, u

\* Paths are in order of how far they go.
LEMMA BeginsIs ==
    ASSUME NEW s, NEW t, NEW u, Len(s) \in Nat, Len(t) \in Nat, Len(u) \in Nat
    PROVE  /\ Begins(s, s)
           /\ Begins(s, t) /\ Begins(t, u) => Begins(s, u)
           /\ Begins(s, u) /\ Begins(t, u) => Begins(s, t) \/ Begins(t, s)
<1>1. Begins(s, s)
  BY DEF Begins
<1>2. ASSUME Begins(s, t), Begins(t, u) PROVE Begins(s, u)
  <2>1. \A k \in 1..Len(s) : k \in 1..Len(t)
    BY <1>2 DEF Begins
  <2> QED BY <1>2, <2>1 DEF Begins
<1>3. ASSUME Begins(s, u), Begins(t, u) PROVE Begins(s, t) \/ Begins(t, s)
  <2>1. CASE Len(s) <= Len(t)
    <3>1. \A k \in 1..Len(s) : k \in 1..Len(t)
      BY <2>1
    <3> QED BY <1>3, <2>1, <3>1 DEF Begins
  <2>2. CASE Len(t) <= Len(s)
    <3>1. \A k \in 1..Len(t) : k \in 1..Len(s)
      BY <2>2
    <3> QED BY <1>3, <2>2, <3>1 DEF Begins
  <2> QED BY <2>1, <2>2
<1> QED BY <1>1, <1>2, <1>3

\* One token further.
LEMMA BeginsMore ==
    ASSUME NEW S, NEW s \in Seq(S), NEW x \in S
    PROVE  /\ Append(s, x) \in Seq(S) /\ Len(Append(s, x)) = Len(s) + 1 /\ Len(s) \in Nat
           /\ Begins(s, Append(s, x))
           /\ \A n \in 0..Len(s) : SubSeq(Append(s, x), 1, n) = SubSeq(s, 1, n)
           /\ SubSeq(s, 1, Len(s)) = s
           /\ \A y \in S : Begins(Append(s, x), Append(s, y)) => x = y
<1> DEFINE t == Append(s, x)
           n == Len(s)
<1>1. /\ t \in Seq(S) /\ Len(t) = n + 1 /\ n \in Nat
      /\ \A i \in 1..n : t[i] = s[i] /\ s[i] \in S
  BY AppendProperties, LenProperties, ElementOfSeq
<1>2. t[n + 1] = x
  BY AppendProperties
<1>3. ASSUME NEW y \in S, Begins(t, Append(s, y)) PROVE x = y
  <2>1. Append(s, y)[n + 1] = y /\ n + 1 \in 1..Len(t)
    BY <1>1, AppendProperties
  <2> QED BY <1>2, <1>3, <2>1 DEF Begins
<1>4. SubSeq(s, 1, n) = s
  BY SubSeqFull
<1> HIDE DEF t, n
<1>5. Begins(s, t)
  BY <1>1 DEF Begins, n
<1>6. ASSUME NEW m \in 0..n PROVE SubSeq(t, 1, m) = SubSeq(s, 1, m)
  <2>1. /\ m \in Int /\ 1 \in Int
        /\ \A i \in 1..m : i \in 1..n /\ t[i] = s[i] /\ s[i] \in S /\ t[i] \in S
    BY <1>1
  <2>2. /\ SubSeq(t, 1, m) \in Seq(S) /\ Len(SubSeq(t, 1, m)) = IF 1 <= m THEN m - 1 + 1 ELSE 0
        /\ \A i \in 1..(m - 1 + 1) : SubSeq(t, 1, m)[i] = t[1 + i - 1]
    BY <2>1, SubSeqProperties
  <2>3. /\ SubSeq(s, 1, m) \in Seq(S) /\ Len(SubSeq(s, 1, m)) = IF 1 <= m THEN m - 1 + 1 ELSE 0
        /\ \A i \in 1..(m - 1 + 1) : SubSeq(s, 1, m)[i] = s[1 + i - 1]
    BY <2>1, SubSeqProperties
  <2>4. m - 1 + 1 = m /\ \A i \in 1..m : 1 + i - 1 = i
    BY <1>1
  <2> DEFINE a == SubSeq(t, 1, m)
             b == SubSeq(s, 1, m)
  <2>5. /\ a \in Seq(S) /\ b \in Seq(S) /\ Len(a) = m /\ Len(b) = m
        /\ \A i \in 1..m : a[i] = t[i] /\ b[i] = s[i]
    BY <1>1, <2>2, <2>3, <2>4
  <2> HIDE DEF a, b
  <2>6. \A i \in 1..m : a[i] = b[i]
    BY <2>1, <2>5
  <2>7. a = b
    BY <2>5, <2>6, SeqEqual
  <2> QED BY <2>7 DEF a, b
<1> QED BY <1>1, <1>3, <1>4, <1>5, <1>6 DEF t, n

-----------------------------------------------------------------------------
(* Pointers *)

\* The path of a node is what its pointer reads.
Path(node) == Tokens(node[1])

\* Where a path of a node goes past an object or an array, one goes on to each
\* of its parts.
GoesOn(tree, nodes, path, n) ==
    LET passed == SubSeq(path, 1, n)
        here == Follow(tree, passed)
    IN  \A q \in DOMAIN here[2] : \E l \in DOMAIN nodes :
            Begins(Append(passed, Token(here, q)), Path(nodes[l]))

\* The nodes of a level: each is where its path leads, no path goes on from
\* the end of another, and no part is left out.
AreNodes(tree, nodes, bodies) ==
    /\ nodes \in Seq(Seq(Char) \X bodies)
    /\ \A i \in DOMAIN nodes :
          /\ Path(nodes[i]) \in Seq(Seq(Char)) /\ Follow(tree, Path(nodes[i])) = nodes[i][2]
          /\ \A n \in 0..(Len(Path(nodes[i])) - 1) : GoesOn(tree, nodes, Path(nodes[i]), n)
    /\ \A i, j \in DOMAIN nodes : Begins(Path(nodes[i]), Path(nodes[j])) => i = j

\* The paths of members are the paths before them, or one token further.
IsNextPath(node, members, path, n) ==
    LET before == Path(node)
    IN  \/ n \in 0..(Len(before) - 1) /\ SubSeq(path, 1, n) = SubSeq(before, 1, n)
        \/ /\ SubSeq(path, 1, n) = before
           /\ \A q \in DOMAIN node[2][2] : \E k \in 1..Len(members) :
                 Path(members[k]) = Append(before, Token(node[2], q))

\* What a node is made of: each is where its path leads, one path for each, on
\* from the node's own.
AreMembers(tree, node, members, bodies) ==
    /\ members \in Seq(Seq(Char) \X bodies) /\ Len(members) >= 1
    /\ \A j \in 1..Len(members) :
          /\ Path(members[j]) \in Seq(Seq(Char))
          /\ Follow(tree, Path(members[j])) = members[j][2]
          /\ Begins(Path(node), Path(members[j]))
          /\ \A n \in 0..(Len(Path(members[j])) - 1) :
                IsNextPath(node, members, Path(members[j]), n)
    /\ \A j, k \in 1..Len(members) : Begins(Path(members[j]), Path(members[k])) => j = k

\* What a node is made of is where its paths lead, in the bodies of a depth less.
LEMMA MembersAre ==
    ASSUME NEW lower, Base \subseteq lower,
           NEW tree, NEW node \in Seq(Char) \X (Base \cup Deeper(lower)),
           Path(node) \in Seq(Seq(Char)), Follow(tree, Path(node)) = node[2]
    PROVE  AreMembers(tree, node, Members(node), lower)
<1> DEFINE pointer == node[1]
           here == node[2]
           path == Path(node)
           ms == Members(node)
<1>0. /\ node = <<pointer, here>> /\ pointer \in Seq(Char) /\ here \in Base \cup Deeper(lower)
      /\ path = Tokens(pointer) /\ Len(path) \in Nat
  BY LenProperties DEF Path
<1>1. CASE IsLeaf(here)
  <2>1. here \in lower
    BY <1>0, <1>1, LeavesAre
  <2>2. ms = <<node>>
    BY <1>1 DEF Members
  <2>3. ms \in Seq(Seq(Char) \X lower) /\ Len(ms) = 1 /\ ms[1] = node
    <3>1. node \in Seq(Char) \X lower
      BY <1>0, <2>1
    <3> QED BY <2>2, <3>1
  <2>4. \A j \in 1..Len(ms) : j = 1 /\ ms[j] = node
    BY <2>3
  <2>5. Begins(path, path)
    BY <1>0, BeginsIs
  <2>6. \A n \in 0..(Len(path) - 1) : IsNextPath(node, ms, path, n)
    BY DEF IsNextPath
  <2> HIDE DEF ms, path
  <2>7. AreMembers(tree, node, ms, lower)
    BY <2>3, <2>4, <2>5, <2>6 DEF AreMembers, path
  <2> QED BY <2>7 DEF ms
<1>2. CASE ~IsLeaf(here)
  <2>1. here \in Deeper(lower) /\ here[1] \in {"object", "array"} /\ here[2] # <<>>
    BY <1>0, <1>2, LeavesAre
  <2>2. \E S : here[2] \in Seq(S)
    BY <2>1 DEF Deeper
  <2> DEFINE m == Len(here[2])
             token(i) == Token(here, i)
  <2>3. DOMAIN here[2] = 1..m /\ m \in Nat /\ m # 0
    BY <2>1, <2>2, LenProperties, EmptySeq
  <2>4. ASSUME NEW i \in 1..m
        PROVE  /\ Part(here, i) \in lower /\ token(i) \in Seq(Plain)
               /\ Child(here, token(i)) = Part(here, i)
               /\ \A j \in 1..m : token(i) = token(j) => i = j
    <3> HIDE DEF here, m
    <3>1. i \in DOMAIN here[2] /\ here \in Deeper(lower) /\ ~IsLeaf(here)
      BY <1>2, <2>1, <2>3
    <3> QED BY <2>3, <3>1, PartIsFound
  <2> DEFINE next(i) == <<pointer \o <<"/">> \o token(i), Part(here, i)>>
  <2>5. ms = [i \in 1..m |-> next(i)]
    BY <1>2, <2>3 DEF Members
  <2> HIDE DEF m, token
  <2>6. ASSUME NEW i \in 1..m
        PROVE  /\ next(i) \in Seq(Char) \X lower
               /\ Path(next(i)) = Append(path, token(i)) /\ token(i) \in Seq(Char)
               /\ Append(path, token(i)) \in Seq(Seq(Char))
               /\ Follow(tree, Append(path, token(i))) = Part(here, i)
    <3>1. token(i) \in Seq(Plain) /\ token(i) \in Seq(Char)
      BY <2>4, Characters, SeqMonotonic
    <3>2. /\ pointer \o <<"/">> \o token(i) \in Seq(Char)
          /\ Tokens(pointer \o <<"/">> \o token(i)) = Append(path, token(i))
      <4>1. pointer \in Seq(Char) /\ path \in Seq(Seq(Char)) /\ Tokens(pointer) = path
        BY <1>0
      <4> HIDE DEF pointer, path
      <4> QED BY <3>1, <4>1, TokenIsRead
    <3>3. Append(path, token(i)) \in Seq(Seq(Char))
      BY <3>1, AppendProperties
    <3>4. Follow(tree, Append(path, token(i))) = Child(here, token(i))
      <4>1. path \in Seq(Seq(Char)) /\ Follow(tree, path) = here
        OBVIOUS
      <4> HIDE DEF path, here
      <4> QED BY <3>1, <4>1, FollowOfMore
    <3> QED BY <2>4, <3>1, <3>2, <3>3, <3>4 DEF Path
  <2>7. /\ ms \in Seq(Seq(Char) \X lower) /\ Len(ms) = m
        /\ \A i \in 1..m : ms[i] = next(i)
    <3>1. \A i \in 1..m : next(i) \in Seq(Char) \X lower
      BY <2>6
    <3> HIDE DEF next, ms
    <3>2. ms \in [1..m -> Seq(Char) \X lower] /\ \A i \in 1..m : ms[i] = next(i)
      BY <2>5, <3>1
    <3>3. ms \in Seq(Seq(Char) \X lower) /\ DOMAIN ms = 1..m
      BY <2>3, <3>2, FunctionIsSeq
    <3>4. Len(ms) = m
      BY <2>3, <3>3, LenProperties
    <3> QED BY <3>2, <3>3, <3>4
  <2> HIDE DEF ms
  <2>8. \A i \in 1..m : /\ Path(ms[i]) = Append(path, token(i)) /\ ms[i][2] = Part(here, i)
    <3>1. \A i \in 1..m : next(i)[2] = Part(here, i)
      OBVIOUS
    <3> HIDE DEF next, path, here
    <3> QED BY <2>6, <2>7, <3>1
  <2> HIDE DEF next, path
  <2>9. path \in Seq(Seq(Char))
    BY DEF path
  <2>10. ASSUME NEW i \in 1..m
         PROVE  /\ Len(Append(path, token(i))) = Len(path) + 1 /\ Begins(path, Append(path, token(i)))
                /\ \A n \in 0..Len(path) :
                      SubSeq(Append(path, token(i)), 1, n) = SubSeq(path, 1, n)
                /\ SubSeq(path, 1, Len(path)) = path
    BY <2>6, <2>9, BeginsMore
  <2>11. ASSUME NEW i \in 1..m, NEW n \in 0..(Len(Path(ms[i])) - 1)
         PROVE  IsNextPath(node, ms, Path(ms[i]), n)
    <3>0. /\ Len(Path(ms[i])) = Len(path) + 1
          /\ \A k \in 0..Len(path) : SubSeq(Path(ms[i]), 1, k) = SubSeq(path, 1, k)
      BY <2>8, <2>10
    <3>1. n \in 0..Len(path) /\ SubSeq(Path(ms[i]), 1, n) = SubSeq(path, 1, n)
      BY <1>0, <3>0
    <3>2. CASE n = Len(path)
      <4>1. \A q \in DOMAIN here[2] : Path(ms[q]) = Append(path, Token(here, q))
        BY <2>3, <2>8 DEF token, m
      <4>2. DOMAIN here[2] = 1..Len(ms)
        BY <2>3, <2>7
      <4>3. SubSeq(Path(ms[i]), 1, n) = path
        BY <2>10, <3>1, <3>2
      <4> QED BY <4>1, <4>2, <4>3 DEF IsNextPath, path
    <3>3. CASE n # Len(path)
      <4>1. n \in 0..(Len(path) - 1)
        BY <1>0, <3>1, <3>3
      <4> QED BY <3>1, <4>1 DEF IsNextPath, path
    <3> QED BY <3>2, <3>3
  <2>12. ASSUME NEW i \in 1..m, NEW j \in 1..m, Begins(Path(ms[i]), Path(ms[j])) PROVE i = j
    <3>1. token(i) \in Seq(Char) /\ token(j) \in Seq(Char)
      BY <2>6
    <3>2. Begins(Append(path, token(i)), Append(path, token(j)))
      BY <2>8, <2>12
    <3>3. token(i) = token(j)
      BY <2>9, <3>1, <3>2, BeginsMore
    <3> QED BY <2>4, <3>3
  <2>13. \A i \in 1..m : /\ Path(ms[i]) \in Seq(Seq(Char))
                         /\ Follow(tree, Path(ms[i])) = ms[i][2] /\ Begins(path, Path(ms[i]))
    BY <2>6, <2>8, <2>10
  <2>14. AreMembers(tree, node, ms, lower)
    <3>1. Len(ms) = m /\ m >= 1
      BY <2>3, <2>7
    <3> HIDE DEF m
    <3> QED BY <2>7, <2>11, <2>12, <2>13, <3>1 DEF AreMembers, path
  <2> QED BY <2>14 DEF ms
<1> QED BY <1>1, <1>2

\* Opening a level keeps its nodes as they should be, one depth further down.
LEMMA LevelStep ==
    ASSUME NEW lower, Base \subseteq lower, NEW tree, NEW nodes,
           AreNodes(tree, nodes, Base \cup Deeper(lower))
    PROVE  AreNodes(tree, OneDown(nodes), lower)
<1> DEFINE D == DOMAIN nodes
           S == Seq(Char) \X lower
           P(i) == Path(nodes[i])
           ss == [i \in D |-> Members(nodes[i])]
           flat == OneDown(nodes)
           X == Seq(Char)
<1>1. /\ D = 1..Len(nodes) /\ Len(nodes) \in Nat
      /\ \A i \in D : nodes[i] \in Seq(Char) \X (Base \cup Deeper(lower))
  BY LenProperties, ElementOfSeq DEF AreNodes
<1>2. \A i \in D : P(i) \in Seq(X) /\ Len(P(i)) \in Nat /\ Follow(tree, P(i)) = nodes[i][2]
  <2>1. \A i \in D : P(i) \in Seq(X) /\ Follow(tree, P(i)) = nodes[i][2]
    BY DEF AreNodes
  <2> QED BY <2>1, LenProperties
<1>3. ASSUME NEW i \in D PROVE AreMembers(tree, nodes[i], Members(nodes[i]), lower)
  BY <1>1, <1>2, MembersAre
<1>4. ASSUME NEW i \in D, NEW n \in 0..(Len(P(i)) - 1) PROVE GoesOn(tree, nodes, P(i), n)
  BY DEF AreNodes
<1>5. \A i, j \in D : Begins(P(i), P(j)) => i = j
  BY DEF AreNodes
<1>6. \A i \in D : ss[i] = Members(nodes[i]) /\ Members(nodes[i]) \in Seq(S)
  BY <1>3 DEF AreMembers
<1>7. ss \in Seq(Seq(S)) /\ DOMAIN ss = D /\ flat = FlattenSeq(ss)
  <2>1. DOMAIN ss = D /\ flat = FlattenSeq(ss)
    BY DEF OneDown
  <2>2. ss \in [1..Len(nodes) -> Seq(S)]
    BY <1>1, <1>6
  <2> HIDE DEF ss, S, flat
  <2> QED BY <1>1, <2>1, <2>2, FunctionIsSeq
<1> HIDE DEF ss, flat, S
<1>8. PICK at \in [D -> Nat] : ArePlaces(at, ss, flat)
  BY <1>7, FlattenedPlaces
<1>9. flat \in Seq(S) /\ DOMAIN flat = 1..Len(flat) /\ Len(flat) \in Nat
  <2>1. flat \in Seq(S)
    BY <1>7, FlattenedRange
  <2> QED BY <2>1, LenProperties
<1>10. ASSUME NEW k \in DOMAIN flat
       PROVE  \E i \in D : \E j \in 1..Len(ss[i]) : k = at[i] + j /\ flat[k] = ss[i][j]
  <2>1. k \in 1..Len(flat)
    BY <1>9
  <2>2. PICK i \in D : \E j \in 1..Len(ss[i]) : k = at[i] + j
    BY <1>7, <1>8, <2>1 DEF ArePlaces
  <2>3. PICK j \in 1..Len(ss[i]) : k = at[i] + j
    BY <2>2
  <2>4. flat[at[i] + j] = ss[i][j]
    BY <1>7, <1>8 DEF ArePlaces
  <2> QED BY <2>3, <2>4
<1>11. ASSUME NEW i \in D, NEW j \in 1..Len(ss[i])
       PROVE  at[i] + j \in DOMAIN flat /\ flat[at[i] + j] = ss[i][j]
  BY <1>7, <1>8, <1>9 DEF ArePlaces
<1>12. ASSUME NEW i \in D, NEW j \in 1..Len(ss[i])
       PROVE  /\ Path(ss[i][j]) \in Seq(X) /\ Len(Path(ss[i][j])) \in Nat
              /\ Follow(tree, Path(ss[i][j])) = ss[i][j][2]
              /\ Begins(P(i), Path(ss[i][j]))
              /\ \A n \in 0..(Len(Path(ss[i][j])) - 1) :
                    IsNextPath(nodes[i], ss[i], Path(ss[i][j]), n)
              /\ \A k \in 1..Len(ss[i]) : Begins(Path(ss[i][j]), Path(ss[i][k])) => j = k
  <2>1. AreMembers(tree, nodes[i], ss[i], lower)
    BY <1>3, <1>6
  <2>2. Path(ss[i][j]) \in Seq(X)
    BY <2>1 DEF AreMembers
  <2>3. Len(Path(ss[i][j])) \in Nat
    BY <2>2, LenProperties
  <2> HIDE DEF X
  <2> QED BY <2>1, <2>2, <2>3 DEF AreMembers
<1>13. ASSUME NEW i \in D PROVE 1 \in 1..Len(ss[i]) /\ DOMAIN ss[i] = 1..Len(ss[i])
  <2>1. Len(ss[i]) >= 1
    BY <1>3, <1>6 DEF AreMembers
  <2>2. ss[i] \in Seq(S)
    BY <1>6
  <2> QED BY <2>1, <2>2, LenProperties
<1>14. ASSUME NEW k \in DOMAIN flat, NEW l \in DOMAIN flat, Begins(Path(flat[k]), Path(flat[l]))
       PROVE  k = l
  <2>1. PICK i \in D : \E j \in 1..Len(ss[i]) : k = at[i] + j /\ flat[k] = ss[i][j]
    BY <1>10
  <2>2. PICK j \in 1..Len(ss[i]) : k = at[i] + j /\ flat[k] = ss[i][j]
    BY <2>1
  <2>3. PICK u \in D : \E v \in 1..Len(ss[u]) : l = at[u] + v /\ flat[l] = ss[u][v]
    BY <1>10
  <2>4. PICK v \in 1..Len(ss[u]) : l = at[u] + v /\ flat[l] = ss[u][v]
    BY <2>3
  <2>5. /\ Begins(P(i), Path(ss[i][j])) /\ Begins(P(u), Path(ss[u][v]))
        /\ Begins(Path(ss[i][j]), Path(ss[u][v]))
    BY <1>12, <1>14, <2>2, <2>4
  <2>6. /\ Len(P(i)) \in Nat /\ Len(P(u)) \in Nat
        /\ Len(Path(ss[i][j])) \in Nat /\ Len(Path(ss[u][v])) \in Nat
    BY <1>2, <1>12
  <2> HIDE DEF P
  <2>7. Begins(P(i), Path(ss[u][v]))
    BY <2>5, <2>6, BeginsIs
  <2>8. Begins(P(i), P(u)) \/ Begins(P(u), P(i))
    BY <2>5, <2>6, <2>7, BeginsIs
  <2>9. i = u
    BY <1>5, <2>8 DEF P
  <2>10. j = v
    BY <1>12, <2>5, <2>9
  <2> QED BY <2>2, <2>4, <2>9, <2>10
<1>15. ASSUME NEW k \in DOMAIN flat
       PROVE  /\ Path(flat[k]) \in Seq(X) /\ Follow(tree, Path(flat[k])) = flat[k][2]
              /\ \A n \in 0..(Len(Path(flat[k])) - 1) : GoesOn(tree, flat, Path(flat[k]), n)
  <2>1. PICK i \in D : \E j \in 1..Len(ss[i]) : k = at[i] + j /\ flat[k] = ss[i][j]
    BY <1>10
  <2>2. PICK j \in 1..Len(ss[i]) : k = at[i] + j /\ flat[k] = ss[i][j]
    BY <2>1
  <2> DEFINE path == Path(ss[i][j])
  <2>3. ASSUME NEW n \in 0..(Len(path) - 1) PROVE GoesOn(tree, flat, path, n)
    <3> DEFINE passed == SubSeq(path, 1, n)
               here == Follow(tree, passed)
    <3>1. IsNextPath(nodes[i], ss[i], path, n)
      BY <1>12
    <3>2. ASSUME NEW q \in DOMAIN here[2]
          PROVE  \E l \in DOMAIN flat : Begins(Append(passed, Token(here, q)), Path(flat[l]))
      <4>1. CASE n \in 0..(Len(P(i)) - 1) /\ passed = SubSeq(P(i), 1, n)
        <5>1. GoesOn(tree, nodes, P(i), n)
          BY <1>4, <4>1
        <5>2. PICK l \in D : Begins(Append(passed, Token(here, q)), P(l))
          BY <4>1, <5>1 DEF GoesOn
        <5> DEFINE x == Token(here, q)
        <5>3. Len(Append(passed, x)) \in Nat
          <6>1. P(i) \in Seq(X) /\ Len(P(i)) \in Nat
            BY <1>2
          <6>2. passed = SubSeq(P(i), 1, n) /\ n \in 0..(Len(P(i)) - 1)
            BY <4>1
          <6> HIDE DEF x, passed, P, X
          <6>3. \A m \in 1..n : P(i)[m] \in X
            BY <6>1, <6>2, ElementOfSeq
          <6>4. n \in Int /\ 1 \in Int
            BY <6>1, <6>2
          <6>5. passed \in Seq(X)
            BY <6>2, <6>3, <6>4, SubSeqProperties
          <6>6. passed \in Seq(X \cup {x}) /\ x \in X \cup {x}
            BY <6>5, SeqMonotonic
          <6>7. Append(passed, x) \in Seq(X \cup {x})
            BY <6>6, AppendProperties
          <6> QED BY <6>7, LenProperties
        <5>4. 1 \in 1..Len(ss[l])
          BY <1>13
        <5>5. /\ Begins(P(l), Path(ss[l][1])) /\ Len(P(l)) \in Nat
              /\ Len(Path(ss[l][1])) \in Nat
          BY <1>2, <1>12, <5>4
        <5>6. at[l] + 1 \in DOMAIN flat /\ flat[at[l] + 1] = ss[l][1]
          BY <1>11, <5>4
        <5> HIDE DEF P, x, passed, here
        <5>7. Begins(Append(passed, x), Path(ss[l][1]))
          BY <5>2, <5>3, <5>5, BeginsIs DEF x
        <5> QED BY <5>6, <5>7 DEF x
      <4>2. CASE /\ passed = P(i)
                 /\ \A r \in DOMAIN nodes[i][2][2] : \E m \in 1..Len(ss[i]) :
                       Path(ss[i][m]) = Append(P(i), Token(nodes[i][2], r))
        <5>1. here = nodes[i][2]
          BY <1>2, <4>2
        <5>2. PICK m \in 1..Len(ss[i]) : Path(ss[i][m]) = Append(P(i), Token(here, q))
          BY <4>2, <5>1
        <5>3. Begins(Path(ss[i][m]), Path(ss[i][m]))
          BY <1>12, BeginsIs
        <5>4. at[i] + m \in DOMAIN flat /\ flat[at[i] + m] = ss[i][m]
          BY <1>11
        <5> QED BY <4>2, <5>2, <5>3, <5>4
      <4> QED BY <3>1, <4>1, <4>2 DEF IsNextPath
    <3> QED BY <3>2 DEF GoesOn
  <2> QED BY <1>12, <2>2, <2>3
<1>16. AreNodes(tree, flat, lower)
  BY <1>9, <1>14, <1>15 DEF AreNodes, S
<1> QED BY <1>16 DEF flat

\* The levels a body is opened in, one after the other.
AreLevels(f, tree) ==
    /\ f[0] = <<<<<<>>, tree>>>>
    /\ \A n \in 0..(MaxDepth - 1) : f[n + 1] = OneDown(f[n])
    /\ Leaves(tree) = [k \in DOMAIN f[MaxDepth] |-> f[MaxDepth][k][1]]

\* There are such levels.
LEMMA LevelsAre ==
    ASSUME NEW tree
    PROVE  \E f : AreLevels(f, tree)
<1> DEFINE Set(n, f) == IF n = 0 THEN <<<<<<>>, tree>>>>
                        ELSE FlattenSeq([i \in DOMAIN f[n - 1] |-> Members(f[n - 1][i])])
           W == CHOOSE f : f = [n \in 0..MaxDepth |-> Set(n, f)]
<1>0. MaxDepth \in Nat
  BY DepthAssumption
<1>1. Leaves(tree) = [k \in DOMAIN W[MaxDepth] |-> W[MaxDepth][k][1]]
  BY DEF Leaves
<1>2. \A n, f : Set(n, f) = IF n = 0 THEN <<<<<<>>, tree>>>> ELSE OneDown(f[n - 1])
  BY DEF OneDown
<1> HIDE DEF Set
<1>3. PICK f : ArePasses(f, "level", <<<<<<>>, tree>>>>, <<>>, MaxDepth)
  BY <1>0, PassesExist
<1>4. f = [n \in 0..MaxDepth |-> Set(n, f)]
  <2>1. ASSUME NEW n \in 0..MaxDepth PROVE f[n] = Set(n, f)
    <3>1. f[n] = IF n = 0 THEN <<<<<<>>, tree>>>> ELSE Pass("level", f[n - 1], <<>>[n])
      BY <1>3 DEF ArePasses
    <3>2. f[n] = IF n = 0 THEN <<<<<<>>, tree>>>> ELSE OneDown(f[n - 1])
      BY <3>1 DEF Pass
    <3>3. CASE n = 0
      BY <1>2, <3>2, <3>3
    <3>4. CASE n # 0
      BY <1>2, <3>2, <3>4
    <3> QED BY <3>3, <3>4
  <2>2. f = [n \in 0..MaxDepth |-> f[n]]
    BY <1>3 DEF ArePasses
  <2> QED BY <2>1, <2>2
<1>5. W = [n \in 0..MaxDepth |-> Set(n, W)]
  BY <1>4
<1> HIDE DEF W
<1>6. \A n \in 0..MaxDepth : W[n] = IF n = 0 THEN <<<<<<>>, tree>>>> ELSE OneDown(W[n - 1])
  BY <1>2, <1>5
<1>7. W[0] = <<<<<<>>, tree>>>>
  <2>1. 0 \in 0..MaxDepth
    BY <1>0
  <2> QED BY <1>6, <2>1
<1>8. ASSUME NEW n \in 0..(MaxDepth - 1) PROVE W[n + 1] = OneDown(W[n])
  <2>1. n + 1 \in 0..MaxDepth /\ n + 1 # 0 /\ (n + 1) - 1 = n
    BY <1>0
  <2> QED BY <1>6, <2>1
<1> QED BY <1>1, <1>7, <1>8 DEF AreLevels

\* The leaves of every depth are among its bodies.
LEMMA TreesHaveLeaves == \A n \in 0..MaxDepth : Base \subseteq Trees[n]
<1> SUFFICES ASSUME NEW n \in 0..MaxDepth PROVE Base \subseteq Trees[n]
  OBVIOUS
<1>1. CASE n = 0
  BY <1>1, TreesAre
<1>2. CASE n # 0
  <2>1. n - 1 \in 0..(MaxDepth - 1) /\ (n - 1) + 1 = n
    BY <1>2, DepthAssumption
  <2>2. Trees[(n - 1) + 1] = Base \cup Deeper(Trees[n - 1])
    BY <2>1, TreesAre
  <2> QED BY <2>1, <2>2
<1> QED BY <1>1, <1>2

\* When everything has been opened every node is a leaf.
LEMMA LastLevel ==
    ASSUME NEW tree, IsBody(tree), NEW f, AreLevels(f, tree)
    PROVE  AreNodes(tree, f[MaxDepth], Base)
<1> DEFINE T == {n \in Nat : n \in 0..MaxDepth => AreNodes(tree, f[n], Trees[MaxDepth - n])}
<1>0. MaxDepth \in Nat
  BY DepthAssumption
<1>1. 0 \in T
  <2> DEFINE node == <<<<>>, tree>>
             nodes == <<node>>
  <2>1. Path(node) = <<>> /\ Follow(tree, Path(node)) = node[2] /\ Len(Path(node)) = 0
    BY NothingToPass DEF Path
  <2>2. node \in Seq(Char) \X Trees[MaxDepth]
    <3> DEFINE start == <<>>
               X == Seq(Char)
               bodies == Trees[MaxDepth]
    <3>1. start \in X /\ tree \in bodies
      BY DEF IsBody
    <3> HIDE DEF start, X, bodies
    <3>2. <<start, tree>> \in X \X bodies
      BY <3>1
    <3> QED BY <3>2 DEF start, X, bodies
  <2>3. Path(node) \in Seq(Seq(Char))
    BY <2>1
  <2> HIDE DEF node
  <2>4. nodes \in Seq(Seq(Char) \X Trees[MaxDepth]) /\ DOMAIN nodes = {1} /\ nodes[1] = node
    BY <2>2
  <2>5. 0..(Len(Path(node)) - 1) = {}
    BY <2>1
  <2> HIDE DEF nodes
  <2>6. AreNodes(tree, nodes, Trees[MaxDepth])
    BY <2>1, <2>3, <2>4, <2>5 DEF AreNodes
  <2>7. f[0] = nodes
    BY DEF AreLevels, nodes, node
  <2> QED BY <1>0, <2>6, <2>7
<1>2. ASSUME NEW k \in 0..MaxDepth, NEW m \in 0..MaxDepth, k \in T, m = k + 1 PROVE m \in T
  <2>1. k \in 0..(MaxDepth - 1) /\ MaxDepth - m \in 0..(MaxDepth - 1) /\ MaxDepth - m \in 0..MaxDepth
        /\ (MaxDepth - m) + 1 = MaxDepth - k /\ m \in Nat
    BY <1>0, <1>2
  <2>2. AreNodes(tree, f[k], Trees[MaxDepth - k])
    BY <1>2
  <2> DEFINE lower == Trees[MaxDepth - m]
  <2>3. Trees[MaxDepth - k] = Base \cup Deeper(lower)
    BY <2>1, TreesAre
  <2>4. Base \subseteq lower
    BY <2>1, TreesHaveLeaves
  <2>5. f[m] = OneDown(f[k])
    BY <1>2, <2>1 DEF AreLevels
  <2> HIDE DEF lower
  <2>6. AreNodes(tree, f[m], lower)
    BY <2>2, <2>3, <2>4, <2>5, LevelStep
  <2> QED BY <2>1, <2>6 DEF lower
<1>3. MaxDepth \in T
  <2> HIDE DEF T
  <2> QED BY <1>0, <1>1, <1>2, Climb
<1>4. MaxDepth - MaxDepth = 0 /\ MaxDepth \in 0..MaxDepth
  BY <1>0
<1> QED BY <1>3, <1>4, TreesAre

\* The evidence of a body shows each of its leaves once, where its pointer leads,
\* and leaves none out (pooled_tables.py:111-121, source_values.py:11-28).
LEMMA EvidenceHolds ==
    ASSUME NEW tree, IsBody(tree)
    PROVE  EvidenceIsComplete(tree)
<1> DEFINE pointers == Leaves(tree)
           P(k) == Tokens(pointers[k])
<1>1. PICK f : AreLevels(f, tree)
  BY LevelsAre
<1> DEFINE nodes == f[MaxDepth]
<1>2. AreNodes(tree, nodes, Base)
  BY <1>1, LastLevel
<1>3. /\ nodes \in Seq(Seq(Char) \X Base) /\ DOMAIN nodes = 1..Len(nodes) /\ Len(nodes) \in Nat
      /\ \A k \in DOMAIN nodes : nodes[k] \in Seq(Char) \X Base
  BY <1>2, LenProperties, ElementOfSeq DEF AreNodes
<1>4. /\ pointers = [k \in DOMAIN nodes |-> nodes[k][1]]
      /\ \A k \in DOMAIN nodes : P(k) = Path(nodes[k])
  BY <1>1 DEF AreLevels, Path
<1>5. /\ \A k \in DOMAIN nodes : /\ Path(nodes[k]) \in Seq(Seq(Char))
                                 /\ Follow(tree, Path(nodes[k])) = nodes[k][2]
      /\ \A k, l \in DOMAIN nodes : Begins(Path(nodes[k]), Path(nodes[l])) => k = l
  BY <1>2 DEF AreNodes
<1>6. ASSUME NEW k \in DOMAIN nodes, NEW n \in 0..(Len(Path(nodes[k])) - 1)
      PROVE  GoesOn(tree, nodes, Path(nodes[k]), n)
  BY <1>2 DEF AreNodes
<1> HIDE DEF nodes, pointers
<1>7. pointers \in Seq(Seq(Char)) /\ DOMAIN pointers = DOMAIN nodes /\ Len(pointers) = Len(nodes)
  <2>1. pointers \in [1..Len(nodes) -> Seq(Char)]
    BY <1>3, <1>4
  <2>2. pointers \in Seq(Seq(Char)) /\ DOMAIN pointers = 1..Len(nodes)
    BY <1>3, <2>1, FunctionIsSeq
  <2> QED BY <1>3, <2>2, LenProperties
<1>8. ~SequenceHasDuplicates(pointers)
  <2>1. ASSUME NEW k \in DOMAIN pointers, NEW l \in DOMAIN pointers, pointers[k] = pointers[l]
        PROVE  k = l
    <3>1. Path(nodes[k]) = Path(nodes[l]) /\ Len(Path(nodes[k])) \in Nat
      BY <1>4, <1>5, <1>7, <2>1, LenProperties
    <3>2. Begins(Path(nodes[k]), Path(nodes[k]))
      BY <3>1, BeginsIs
    <3> QED BY <1>5, <1>7, <3>1, <3>2
  <2>2. OnlyOnce(pointers)
    BY <2>1 DEF OnlyOnce
  <2> QED BY <1>7, <2>2, OnceIsCounted DEF SequenceHasDuplicates
<1>9. ASSUME NEW k \in DOMAIN pointers
      PROVE  LET found == ResolvePointer(tree, pointers[k])
             IN  found # Unresolved /\ IsLeaf(found)
  <2>1. ResolvePointer(tree, pointers[k]) = nodes[k][2] /\ nodes[k][2] \in Base
    BY <1>3, <1>4, <1>5, <1>7 DEF ResolvePointer
  <2>2. nodes[k][2] # Unresolved
    BY <2>1 DEF Base, Unresolved
  <2> QED BY <2>1, <2>2, LeavesAre
<1>10. ASSUME NEW k \in DOMAIN pointers, NEW n \in 0..(Len(P(k)) - 1)
       PROVE  LET passed == SubSeq(P(k), 1, n)
                  here == Follow(tree, passed)
              IN  \A i \in DOMAIN here[2] : \E l \in DOMAIN pointers :
                     IsPrefix(Append(passed, Token(here, i)), P(l))
  <2> DEFINE X == Seq(Char)
             path == Path(nodes[k])
             passed == SubSeq(path, 1, n)
             here == Follow(tree, passed)
  <2>1. path = P(k) /\ path \in Seq(X) /\ Len(path) \in Nat /\ n \in 0..(Len(path) - 1)
    BY <1>4, <1>5, <1>7, LenProperties
  <2>2. GoesOn(tree, nodes, path, n)
    BY <1>6, <1>7, <2>1
  <2>3. passed \in Seq(X)
    <3> HIDE DEF path, X
    <3>1. \A m \in 1..n : path[m] \in X
      BY <2>1, ElementOfSeq
    <3>2. n \in Int /\ 1 \in Int
      BY <2>1
    <3> QED BY <2>1, <3>1, <3>2, SubSeqProperties
  <2>4. ASSUME NEW i \in DOMAIN here[2]
        PROVE  \E l \in DOMAIN pointers : IsPrefix(Append(passed, Token(here, i)), P(l))
    <3> DEFINE x == Token(here, i)
    <3>1. PICK l \in DOMAIN nodes : Begins(Append(passed, x), Path(nodes[l]))
      BY <2>2 DEF GoesOn
    <3>2. Path(nodes[l]) = P(l) /\ Path(nodes[l]) \in Seq(X)
      BY <1>4, <1>5
    <3> HIDE DEF x, passed, X
    <3>3. /\ passed \in Seq(X \cup {x}) /\ x \in X \cup {x}
          /\ Path(nodes[l]) \in Seq(X \cup {x})
      BY <2>3, <3>2, SeqMonotonic
    <3>4. Append(passed, x) \in Seq(X \cup {x})
      BY <3>3, AppendProperties
    <3>5. IsPrefix(Append(passed, x), Path(nodes[l]))
      BY <3>1, <3>3, <3>4, PrefixIs
    <3> QED BY <1>7, <3>2, <3>5 DEF x
  <2> QED BY <2>1, <2>4
<1> HIDE DEF P
<1>11. \A k \in DOMAIN pointers : P(k) = Tokens(pointers[k])
  BY DEF P
<1> QED BY <1>8, <1>9, <1>10 DEF EvidenceIsComplete, pointers, P

=============================================================================
