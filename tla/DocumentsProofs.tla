--------------------------- MODULE DocumentsProofs ---------------------------
(***************************************************************************)
(* What Documents states of workbooks and of inputs, proved for any books, *)
(* any limits and any set of inputs.                                       *)
(*                                                                         *)
(* A behaviour is a package being rendered, which keeps RenderInv, or one  *)
(* input that never changes, so that a property of an operator is a lemma  *)
(* about the operator.                                                     *)
(***************************************************************************)
EXTENDS Documents, ReviewProofs

-----------------------------------------------------------------------------
(* Pooled returns *)

\* An admitted outcome is a root, the elected fallback or a reason.
LEMMA ShownOutcomes ==
    ASSUME NEW s, NEW outcome, OutcomeIsShown(s, outcome)
    PROVE  IF Returns(outcome) = {Absent} THEN outcome.reasons # {}
           ELSE \/ outcome.method = "XIRR" /\ outcome.convergence.roots = 1
                   /\ Absent \notin Returns(outcome)
                \/ outcome.method = "MODIFIED_DIETZ"
                   /\ s.policy.fallback = "ALLOW_MODIFIED_DIETZ"
<1>1. CASE outcome.availability = "NOT_CALCULABLE" /\ Returns(outcome) = {Absent}
             /\ outcome.reasons # {}
  BY <1>1
<1>2. CASE ElectedFallback(s, outcome)
  BY <1>2 DEF ElectedFallback, Returns
<1>3. CASE AvailableXirr(s, outcome)
  <2>1. Absent \notin Returns(outcome) /\ Returns(outcome) # {Absent}
    BY <1>3 DEF AvailableXirr, Returns
  <2> QED BY <1>3, <2>1 DEF AvailableXirr, ConvergenceIsQualified
<1> QED BY <1>1, <1>2, <1>3 DEF OutcomeIsShown

\* A return is shown only for a root found alone or for the elected fallback,
\* in the result and in the predecessor.
LEMMA ReturnsQualify ==
    ASSUME NEW p, IsPooled(p)
    PROVE  ReturnsAreQualified(p)
<1> SUFFICES ASSUME PooledContentIsAdmitted(p),
                    NEW document \in {p.source, p.predecessor} \ {NoDocument}
             PROVE  IF Returns(document.outcome) = {Absent}
                        THEN document.outcome.reasons # {}
                    ELSE \/ document.outcome.method = "XIRR"
                            /\ document.outcome.convergence.roots = 1
                            /\ Absent \notin Returns(document.outcome)
                         \/ document.outcome.method = "MODIFIED_DIETZ"
                            /\ p.selection.policy.fallback = "ALLOW_MODIFIED_DIETZ"
  BY DEF ReturnsAreQualified
<1>1. CASE document = p.source
  BY <1>1, ShownOutcomes DEF PooledContentIsAdmitted, PooledIsAdmitted
<1>2. CASE document = p.predecessor
  <2> DEFINE s == p.selection
             parent == p.predecessor
             own == [s EXCEPT !.expected = parent.observation.bundle.expected,
                              !.pins = parent.observation.bundle.pins]
  <2>1. OutcomeIsShown(own, parent.outcome)
    BY <1>2 DEF PooledContentIsAdmitted, PredecessorIsAdmitted
  <2>2. own.policy = s.policy
    BY DEF IsPooled
  <2> HIDE DEF own
  <2> QED BY <1>2, <2>1, <2>2, ShownOutcomes
<1> QED BY <1>1, <1>2

\* Every member's flows are covered, every amount is of a pinned body.
LEMMA PopulationsAreCovered ==
    ASSUME NEW p, IsPooled(p)
    PROVE  PooledIsCovered(p)
<1> SUFFICES ASSUME PooledContentIsAdmitted(p) PROVE PooledIsCovered(p)
  BY DEF PooledIsCovered
<1> DEFINE s == p.selection
           observation == p.source.observation
           bundle == observation.bundle
<1>1. /\ BundleIsComplete(s, bundle, observation) /\ PooledSelectionIsExact(s)
      /\ {s.start, s.end} \subseteq Int
      /\ \A row \in Range(s.pins) : {row.from, row.to} \subseteq Int
      /\ \A row \in Range(bundle.coverage) : {row.from, row.to} \subseteq Int
      /\ bundle.valuations \in Seq(Range(bundle.valuations))
      /\ bundle.flows \in Seq(Range(bundle.flows))
  BY DEF PooledContentIsAdmitted, PooledIsAdmitted, IsPooled
<1>2. s.start \in Int /\ s.end \in Int /\ s.start < s.end
  BY <1>1 DEF PooledSelectionIsExact
<1>3. ASSUME NEW member \in Range(s.expected)
      PROVE  \E row \in Range(bundle.coverage) :
                row.portfolio = member /\ {s.start, s.end} \subseteq row.from..row.to
  <2>1. member \in Portfolios(bundle.coverage)
    BY <1>1 DEF BundleIsComplete, FlowCoverage
  <2>2. PICK i \in DOMAIN bundle.coverage : bundle.coverage[i].portfolio = member
    BY <2>1 DEF Portfolios
  <2> DEFINE row == bundle.coverage[i]
  <2>3. row \in Range(bundle.coverage)
    BY DEF Range
  <2>4. row.from <= s.start /\ row.to >= s.end
    BY <1>1, <2>3 DEF BundleIsComplete, FlowCoverage
  <2>5. row.from \in Int /\ row.to \in Int
    BY <1>1, <2>3
  <2> HIDE DEF row
  <2>6. {s.start, s.end} \subseteq row.from..row.to
    BY <1>2, <2>4, <2>5
  <2> QED BY <2>2, <2>3, <2>6 DEF row
<1>4. ASSUME NEW row \in Range(bundle.valuations)
      PROVE  /\ row.portfolio \in observation.controls /\ row.currency = s.currency
             /\ \E pin \in Range(s.pins) :
                   /\ pin.id = row.pin /\ bundle.bodies[row.pin] = pin.digest
                   /\ {s.start, s.end} \subseteq pin.from..pin.to
  <2>1. row \in Range(bundle.valuations \o bundle.flows)
    <3>1. /\ bundle.valuations \in Seq(Range(bundle.valuations) \cup Range(bundle.flows))
          /\ bundle.flows \in Seq(Range(bundle.valuations) \cup Range(bundle.flows))
      <4>1. /\ Range(bundle.valuations)
                   \subseteq Range(bundle.valuations) \cup Range(bundle.flows)
            /\ Range(bundle.flows) \subseteq Range(bundle.valuations)
                   \cup Range(bundle.flows)
        OBVIOUS
      <4> QED BY <1>1, <4>1, SeqMonotonic
    <3>2. Range(bundle.valuations \o bundle.flows)
            = Range(bundle.valuations) \cup Range(bundle.flows)
      BY <3>1, RangeConcatenation
    <3> QED BY <3>2
  <2>2. /\ row.portfolio \in Range(s.expected) /\ row.currency = s.currency
        /\ row.pin \in PinIds(s)
    BY <1>1, <2>1 DEF BundleIsComplete, MemberMoney
  <2>3. row.portfolio \in observation.controls
    BY <1>1, <2>2 DEF BundleIsComplete, PooledPopulation
  <2>4. PICK i \in DOMAIN s.pins : s.pins[i].id = row.pin
    BY <2>2 DEF PinIds
  <2> DEFINE pin == s.pins[i]
  <2>5. /\ pin \in Range(s.pins) /\ pin.from <= s.start /\ pin.to >= s.end
        /\ bundle.bodies[pin.id] = pin.digest /\ pin.id = row.pin
    BY <1>1, <2>4 DEF BundleIsComplete, SourcePins, SourceBodies, Range
  <2>6. pin.from \in Int /\ pin.to \in Int
    BY <1>1, <2>5
  <2> HIDE DEF pin
  <2>7. {s.start, s.end} \subseteq pin.from..pin.to
    BY <1>2, <2>5, <2>6
  <2> QED BY <2>2, <2>3, <2>5, <2>7
<1> QED BY <1>3, <1>4 DEF PooledIsCovered

\* Of some tables, the ones with rows.
LEMMA TablesWithRows ==
    ASSUME NEW S, NEW tables \in Seq(S)
    PROVE  /\ WithRows(tables) \in Seq(S)
           /\ Range(WithRows(tables)) = {t \in Range(tables) : t.rows # <<>>}
<1> DEFINE ss == [i \in DOMAIN tables |->
                    IF tables[i].rows = <<>> THEN <<>> ELSE <<tables[i]>>]
<1>1. DOMAIN tables = 1..Len(tables) /\ Len(tables) \in Nat
          /\ \A i \in DOMAIN tables : tables[i] \in S
  BY LenProperties, ElementOfSeq
<1>2. \A i \in DOMAIN tables : <<>> \in Seq(S) /\ <<tables[i]>> \in Seq(S)
  BY <1>1
<1>3. ss \in [1..Len(tables) -> Seq(S)]
  BY <1>1, <1>2
<1>4. ss \in Seq(Seq(S)) /\ DOMAIN ss = DOMAIN tables
  BY <1>1, <1>3, IsASeq
<1>5. ASSUME NEW i \in DOMAIN tables
      PROVE  Range(ss[i]) = {t \in {tables[i]} : t.rows # <<>>}
  <2>1. Range(<<>>) = {} /\ Range(<<tables[i]>>) = {tables[i]}
    BY DEF Range
  <2>2. ss[i] = IF tables[i].rows = <<>> THEN <<>> ELSE <<tables[i]>>
    OBVIOUS
  <2> HIDE DEF ss
  <2> QED BY <2>1, <2>2
<1> HIDE DEF ss
<1>6. FlattenSeq(ss) \in Seq(S) /\ Range(FlattenSeq(ss))
          = UNION {Range(ss[i]) : i \in DOMAIN ss}
  BY <1>4, FlattenedRange
<1>7. WithRows(tables) = FlattenSeq(ss)
  BY DEF WithRows, ss
<1>8. Range(tables) = {tables[i] : i \in DOMAIN tables}
  BY DEF Range
<1>9. UNION {Range(ss[i]) : i \in DOMAIN ss} = {t \in Range(tables) : t.rows # <<>>}
  BY <1>4, <1>5, <1>8
<1> QED BY <1>6, <1>7, <1>9

\* A tuple of five is a sequence of what is in it.
LEMMA TupleOfFive ==
    ASSUME NEW a, NEW b, NEW c, NEW d, NEW e
    PROVE  <<a, b, c, d, e>> \in Seq({a, b, c, d, e})
               /\ Range(<<a, b, c, d, e>>) = {a, b, c, d, e}
<1> DEFINE s == <<a, b, c, d, e>>
<1>1. s \in Seq({a, b, c, d, e}) /\ DOMAIN s = 1..5
  OBVIOUS
<1>2. 1..5 = {1, 2, 3, 4, 5}
  OBVIOUS
<1>3. s[1] = a /\ s[2] = b /\ s[3] = c /\ s[4] = d /\ s[5] = e
  OBVIOUS
<1> HIDE DEF s
<1>4. Range(s) = {a, b, c, d, e}
  BY <1>1, <1>2, <1>3 DEF Range
<1> QED BY <1>1, <1>4 DEF s

\* The same of six.
LEMMA TupleOfSix ==
    ASSUME NEW a, NEW b, NEW c, NEW d, NEW e, NEW f
    PROVE  /\ <<a, b, c, d, e, f>> \in Seq({a, b, c, d, e, f})
           /\ Range(<<a, b, c, d, e, f>>) = {a, b, c, d, e, f}
<1> DEFINE s == <<a, b, c, d, e, f>>
<1>1. s \in Seq({a, b, c, d, e, f}) /\ DOMAIN s = 1..6
  OBVIOUS
<1>2. 1..6 = {1, 2, 3, 4, 5, 6}
  OBVIOUS
<1>3. s[1] = a /\ s[2] = b /\ s[3] = c /\ s[4] = d /\ s[5] = e /\ s[6] = f
  OBVIOUS
<1> HIDE DEF s
<1>4. Range(s) = {a, b, c, d, e, f}
  BY <1>1, <1>2, <1>3 DEF Range
<1> QED BY <1>1, <1>4 DEF s

\* The tables of an admitted response are a table set its layout takes.
LEMMA TablesFit ==
    ASSUME NEW p
    PROVE  PooledTablesFitTheLayout(p)
<1> SUFFICES ASSUME PooledContentIsAdmitted(p) PROVE PooledTableSetIsRight(p.tables)
  BY DEF PooledTablesFitTheLayout
<1> DEFINE Names(tables) == {t.id : t \in Range(tables)}
           given == PrimaryTables(p) \o BundleTables(p)
           evidence == <<Evidence("SourceEvidence", p.source)>>
           parent == IF p.predecessor = NoDocument THEN <<>>
                     ELSE <<Evidence("PredecessorEvidence", p.predecessor)>>
           S == Range(PrimaryTables(p)) \cup Range(BundleTables(p)) \cup Range(evidence)
               \cup Range(parent)
<1>0. /\ PrimaryTables(p) \in Seq(Range(PrimaryTables(p)))
      /\ BundleTables(p) \in Seq(Range(BundleTables(p)))
      /\ evidence \in Seq(Range(evidence)) /\ parent \in Seq(Range(parent))
  <2>1. PrimaryTables(p) \in Seq(Range(PrimaryTables(p)))
    BY TupleOfSix DEF PrimaryTables
  <2>2. BundleTables(p) \in Seq(Range(BundleTables(p)))
    BY TupleOfFive DEF BundleTables
  <2>3. evidence \in Seq(Range(evidence))
    BY TupleOfOne
  <2>4. parent \in Seq(Range(parent))
    BY TupleOfOne, EmptySeq
  <2> QED BY <2>1, <2>2, <2>3, <2>4
<1>1. /\ PrimaryTables(p) \in Seq(S) /\ BundleTables(p) \in Seq(S)
      /\ evidence \in Seq(S) /\ parent \in Seq(S)
  <2> HIDE DEF evidence, parent
  <2>1. /\ Range(PrimaryTables(p)) \subseteq S /\ Range(BundleTables(p)) \subseteq S
        /\ Range(evidence) \subseteq S /\ Range(parent) \subseteq S
    OBVIOUS
  <2> HIDE DEF S
  <2> QED BY <1>0, <2>1, SeqMonotonic
<1> HIDE DEF S
<1>2. /\ given \in Seq(S)
      /\ Range(given) = Range(PrimaryTables(p)) \cup Range(BundleTables(p))
  BY <1>1, ConcatProperties, RangeConcatenation
<1>3. /\ WithRows(given) \in Seq(S)
      /\ Range(WithRows(given)) = {t \in Range(given) : t.rows # <<>>}
  BY <1>2, TablesWithRows
<1>4. Range(PooledTables(p)) = Range(WithRows(given)) \cup Range(evidence)
          \cup Range(parent)
  <2> HIDE DEF given, evidence, parent
  <2>1. WithRows(given) \o evidence \in Seq(S)
    BY <1>1, <1>3, ConcatProperties
  <2>2. Range(WithRows(given) \o evidence) = Range(WithRows(given)) \cup Range(evidence)
    BY <1>1, <1>3, RangeConcatenation
  <2>3. Range((WithRows(given) \o evidence) \o parent)
          = Range(WithRows(given) \o evidence) \cup Range(parent)
    <3> DEFINE first == WithRows(given) \o evidence
    <3>1. first \in Seq(S) /\ parent \in Seq(S)
      BY <1>1, <2>1
    <3> HIDE DEF first
    <3>2. Range(first \o parent) = Range(first) \cup Range(parent)
      BY <3>1, RangeConcatenation
    <3> QED BY <3>2 DEF first
  <2>4. PooledTables(p) = (WithRows(given) \o evidence) \o parent
    BY DEF PooledTables, given, evidence, parent
  <2> QED BY <2>2, <2>3, <2>4
<1>5. Range(TableIds(p.tables)) = Names(PooledTables(p))
  <2>1. \A tables : Range(TableIds(tables)) = Names(tables)
    <3> SUFFICES ASSUME NEW tables PROVE Range(TableIds(tables)) = Names(tables)
      OBVIOUS
    <3>1. DOMAIN TableIds(tables) = DOMAIN tables
            /\ \A i \in DOMAIN tables : TableIds(tables)[i] = tables[i].id
      BY DEF TableIds
    <3> QED BY <3>1 DEF Range
  <2> QED BY <2>1 DEF PooledContentIsAdmitted, PooledTablesAreRebuilt
<1>6. /\ Names(PrimaryTables(p)) = {"Summary", "Outcome", "MonetaryObservation",
                                    "InvestorCashFlows", "Policy", "Disclosures"}
      /\ Names(BundleTables(p)) = {"Valuations", "PortfolioFlows", "MemberControls",
                                   "SourcePins", "Membership"}
      /\ Names(evidence) = {"SourceEvidence"}
      /\ Names(parent) \subseteq {"PredecessorEvidence"}
  <2>1. \A id, rows : PooledTable(id, rows).id = id
    BY DEF PooledTable
  <2>2. Names(PrimaryTables(p)) = {"Summary", "Outcome", "MonetaryObservation",
                                   "InvestorCashFlows", "Policy", "Disclosures"}
    BY <2>1, TupleOfSix DEF PrimaryTables
  <2>3. Names(BundleTables(p)) = {"Valuations", "PortfolioFlows", "MemberControls",
                                  "SourcePins", "Membership"}
    BY <2>1, TupleOfFive DEF BundleTables
  <2>4. \A id, document : Evidence(id, document).id = id
    BY <2>1 DEF Evidence
  <2>5. Names(evidence) = {"SourceEvidence"}
    BY <2>4, TupleOfOne
  <2>6. Names(parent) \subseteq {"PredecessorEvidence"}
    <3>1. Range(<<>>) = {}
      BY DEF Range
    <3> QED BY <2>4, <3>1, TupleOfOne
  <2> QED BY <2>2, <2>3, <2>5, <2>6
<1>7. \A name \in PooledRequired \ {"SourceEvidence"} :
         \E t \in Range(PrimaryTables(p)) : t.id = name /\ t.rows # <<>>
  <2>1. \A id, row : PooledTable(id, <<row>>).id = id
            /\ PooledTable(id, <<row>>).rows # <<>>
    BY DEF PooledTable
  <2>2. /\ PooledTable("Disclosures", PooledDisclosures).id = "Disclosures"
        /\ PooledTable("Disclosures", PooledDisclosures).rows # <<>>
    BY DEF PooledTable, PooledDisclosures
  <2>3. \A name \in PooledRequired \ {"SourceEvidence"} :
           name \in {"Summary", "Outcome", "MonetaryObservation", "Policy", "Disclosures"}
    BY DEF PooledRequired
  <2> QED BY <2>1, <2>2, <2>3, TupleOfSix DEF PrimaryTables
<1>8. PooledRequired \subseteq Names(PooledTables(p))
  <2> HIDE DEF given, evidence, parent
  <2>1. "SourceEvidence" \in Names(PooledTables(p))
    BY <1>4, <1>6
  <2> QED BY <1>2, <1>3, <1>4, <1>7, <2>1
<1>9. Names(PooledTables(p)) \subseteq PooledRequired \cup PooledOptional
  <2> HIDE DEF given, evidence, parent
  <2>1. Names(PooledTables(p)) \subseteq Names(PrimaryTables(p))
            \cup Names(BundleTables(p))
                                          \cup Names(evidence) \cup Names(parent)
    BY <1>2, <1>3, <1>4
  <2> QED BY <1>6, <2>1 DEF PooledRequired, PooledOptional
<1> QED BY <1>5, <1>8, <1>9 DEF PooledTableSetIsRight

-----------------------------------------------------------------------------
(* Source contexts *)

\* Windows with a first, each of some days and right after the one before.
AreWindows(windows) ==
    /\ windows \in Seq(Range(windows)) /\ Len(windows) \in Nat \ {0}
    /\ \A i \in 1..Len(windows) :
          /\ windows[i].start \in Int /\ windows[i].end \in Int
          /\ windows[i].start <= windows[i].end
    /\ Consecutive(windows)

\* No day from the first to the last is left out.
LEMMA EveryDayHasAWindow ==
    ASSUME NEW windows, AreWindows(windows),
           NEW day \in windows[1].start..windows[Len(windows)].end
    PROVE  \E i \in 1..Len(windows) : day \in windows[i].start..windows[i].end
<1> DEFINE n == Len(windows)
           T == {k \in Nat : k + 1 <= n /\ day <= windows[k + 1].end =>
                    \E i \in 1..n : day \in windows[i].start..windows[i].end}
<1>1. n \in Nat \ {0} /\ day \in Int /\ windows[1].start <= day /\ day <= windows[n].end
  BY DEF AreWindows
<1> HIDE DEF n
<1>2. 0 \in T
  <2>1. 1 \in 1..n
    BY <1>1
  <2> QED BY <1>1, <2>1 DEF AreWindows, n
<1>3. ASSUME NEW k \in 0..(n - 1), NEW m \in 0..(n - 1), k \in T, m = k + 1
      PROVE  m \in T
  <2> SUFFICES ASSUME day <= windows[m + 1].end
               PROVE  \E i \in 1..n : day \in windows[i].start..windows[i].end
    BY <1>1
  <2>1. m \in 1..(n - 1) /\ m + 1 \in 1..n /\ m \in 1..n /\ k \in Nat /\ k + 1 <= n
    BY <1>1, <1>3
  <2>2. windows[m + 1].start = windows[m].end + 1
    BY <2>1 DEF AreWindows, Consecutive, n
  <2>3. windows[m].end \in Int /\ windows[m + 1].start \in Int
            /\ windows[m + 1].end \in Int
    BY <2>1 DEF AreWindows, n
  <2>4. CASE day <= windows[m].end
    BY <1>3, <2>1, <2>4
  <2>5. CASE ~(day <= windows[m].end)
    <3>1. day \in windows[m + 1].start..windows[m + 1].end
      BY <1>1, <2>2, <2>3, <2>5
    <3> QED BY <2>1, <3>1
  <2> QED BY <2>4, <2>5
<1>4. n - 1 \in T
  <2> HIDE DEF T
  <2> QED BY <1>1, <1>2, <1>3, Climb
<1>5. (n - 1) + 1 = n
  BY <1>1
<1> QED BY <1>1, <1>4, <1>5 DEF n

\* An earlier window ends before a later one starts.
LEMMA WindowsAreInOrder ==
    ASSUME NEW windows, AreWindows(windows),
           NEW i \in 1..Len(windows), NEW j \in 1..Len(windows), i < j
    PROVE  windows[i].end < windows[j].start
<1> DEFINE n == Len(windows)
           T == {k \in Nat : i + k + 1 <= n => windows[i].end < windows[i + k + 1].start}
<1>1. n \in Nat \ {0} /\ i \in Nat /\ j \in Nat /\ j <= n /\ i >= 1
  BY DEF AreWindows
<1>2. /\ \A k \in 1..n : /\ windows[k].start \in Int /\ windows[k].end \in Int
                         /\ windows[k].start <= windows[k].end
      /\ \A k \in 1..(n - 1) : windows[k + 1].start = windows[k].end + 1
  BY DEF AreWindows, Consecutive
<1> HIDE DEF n
<1>3. 0 \in T
  <2>1. i + 0 + 1 <= n => i \in 1..(n - 1) /\ i + 0 + 1 = i + 1 /\ i \in 1..n
    BY <1>1
  <2> QED BY <1>2, <2>1
<1>4. ASSUME NEW k \in 0..n, NEW m \in 0..n, k \in T, m = k + 1
      PROVE  m \in T
  <2> SUFFICES ASSUME i + m + 1 <= n PROVE windows[i].end < windows[i + m + 1].start
    BY <1>1
  <2>1. /\ k \in Nat /\ i + k + 1 = i + m /\ i + k + 1 <= n
        /\ i + m \in 1..(n - 1) /\ i + m \in 1..n /\ i \in 1..n /\ i + m + 1 \in 1..n
    BY <1>1, <1>4
  <2>2. windows[i].end < windows[i + m].start
    BY <1>4, <2>1
  <2>3. windows[i + m + 1].start = windows[i + m].end + 1
    BY <1>2, <2>1
  <2>4. /\ windows[i + m].start <= windows[i + m].end /\ windows[i].end \in Int
        /\ windows[i + m].start \in Int /\ windows[i + m].end \in Int
    BY <1>2, <2>1
  <2> QED BY <2>2, <2>3, <2>4
<1>5. j - i - 1 \in Nat /\ j - i - 1 \in 0..n /\ i + (j - i - 1) + 1 = j
        /\ 0..(j - i - 1) \subseteq 0..n
  BY <1>1
<1>6. j - i - 1 \in T
  <2> HIDE DEF T
  <2>1. \A k, m \in 0..(j - i - 1) : k \in T /\ m = k + 1 => m \in T
    BY <1>4, <1>5
  <2> QED BY <1>3, <1>5, <2>1, Climb
<1> QED BY <1>1, <1>5, <1>6

\* The windows of a pinned selection are windows.
LEMMA PinnedWindows ==
    ASSUME NEW s, SelectionIsPinned(s), s.windows \in Seq(Range(s.windows)),
           \A w \in Range(s.windows) : {w.start, w.end} \subseteq Int
    PROVE  /\ AreWindows(s.windows)
           /\ s.start = s.windows[1].start /\ s.end = s.windows[Len(s.windows)].end
<1>1. Len(s.windows) \in Nat /\ DOMAIN s.windows = 1..Len(s.windows)
  BY LenProperties
<1>2. Len(s.windows) # 0
  BY <1>1 DEF SelectionIsPinned
<1>3. \A i \in 1..Len(s.windows) : s.windows[i].start \in Int /\ s.windows[i].end \in Int
  BY <1>1 DEF Range
<1> QED BY <1>1, <1>2, <1>3 DEF SelectionIsPinned, AreWindows, Last

\* A return since inception is shown only of a whole, ready vector.
LEMMA SinceInceptionHolds ==
    ASSUME NEW c, IsContext(c)
    PROVE  SinceInceptionIsWhole(c)
<1> SUFFICES ASSUME ContextIsAdmitted(c), c.sinceInception, c.facts.value # Absent,
                    NEW day \in c.definition.raw.inception..c.selection.end
             PROVE  \E p \in Range(c.source.periods) :
                       day \in p.start..p.end /\ p.status = "READY" /\ p.return # Absent
  BY DEF SinceInceptionIsWhole
<1> DEFINE s == c.selection  windows == s.windows  periods == c.source.periods
<1>1. /\ SelectionIsPinned(s) /\ SourceIsPinned(s, c.source)
      /\ c.facts = SinceInceptionFacts(c)
  BY DEF ContextIsAdmitted, ContextDataIsAdmitted, ContextIsPinned
<1>2. SinceInceptionReason(c) = NoText
  BY <1>1 DEF SinceInceptionFacts
<1>3. /\ s.start = c.definition.raw.inception
      /\ \A p \in Range(periods) : p.status = "READY"
  BY <1>2 DEF SinceInceptionReason, NoText
<1>4. /\ AreWindows(windows) /\ s.start = windows[1].start
      /\ s.end = windows[Len(windows)].end
  BY <1>1, PinnedWindows DEF IsContext
<1>5. PICK i \in 1..Len(windows) : day \in windows[i].start..windows[i].end
  BY <1>3, <1>4, EveryDayHasAWindow
<1>6. i \in DOMAIN windows /\ i \in DOMAIN periods
  <2>1. DOMAIN windows = 1..Len(windows) /\ DOMAIN periods = 1..Len(periods)
    BY LenProperties DEF IsContext
  <2> QED BY <1>1, <1>5, <2>1 DEF SourceIsPinned
<1>7. PeriodIsPinned(periods[i], windows[i], s) /\ periods[i] \in Range(periods)
  BY <1>1, <1>6 DEF SourceIsPinned, Range
<1>8. /\ periods[i].start = windows[i].start /\ periods[i].end = windows[i].end
      /\ periods[i].status = "READY" /\ periods[i].return # Absent
  BY <1>3, <1>7 DEF PeriodIsPinned, StatusValues
<1> QED BY <1>5, <1>7, <1>8

-----------------------------------------------------------------------------
(* The rows of a source context *)

\* Rows, none of them twice.
AreRows(rows) == rows \in Seq(Nat \X Nat) /\ OnlyOnce(rows)

\* The one row of a table that has one.
LEMMA SingleRow == AreRows(Single)
<1>1. Single \in Seq(Nat \X Nat) /\ DOMAIN Single = 1..1
  BY DEF Single
<1>2. \A k, l \in 1..1 : k = l
  OBVIOUS
<1> QED BY <1>1, <1>2 DEF AreRows, OnlyOnce

\* A sequence of one.
LEMMA OneIsOnce ==
    ASSUME NEW x
    PROVE  OnlyOnce(<<x>>) /\ Range(<<x>>) = {x}
<1>1. DOMAIN <<x>> = 1..1 /\ \A k, l \in 1..1 : k = l
  OBVIOUS
<1> QED BY <1>1, TupleOfOne DEF OnlyOnce

\* A row for each element of a list.
LEMMA RowsForAList ==
    ASSUME NEW s, s \in Seq(Range(s))
    PROVE  AreRows(RowsFor(s))
<1>1. Len(s) \in Nat /\ DOMAIN s = 1..Len(s)
  BY LenProperties
<1>2. RowsFor(s) = [i \in 1..Len(s) |-> <<i, 0>>]
  BY <1>1 DEF RowsFor
<1>3. RowsFor(s) \in [1..Len(s) -> Nat \X Nat]
  BY <1>1, <1>2
<1>4. RowsFor(s) \in Seq(Nat \X Nat)
  BY <1>1, <1>3, IsASeq
<1>5. OnlyOnce(RowsFor(s))
  BY <1>2 DEF OnlyOnce
<1> QED BY <1>4, <1>5 DEF AreRows

\* A row for each element of each of some lists.
LEMMA RowsOfLists ==
    ASSUME NEW lists, lists \in Seq(Range(lists)),
           \A i \in DOMAIN lists : lists[i] \in Seq(Range(lists[i]))
    PROVE  /\ AreRows(NestedRows(lists))
           /\ Range(NestedRows(lists))
                  = UNION {{i} \X DOMAIN lists[i] : i \in DOMAIN lists}
<1> DEFINE ss == [i \in DOMAIN lists |-> [j \in DOMAIN lists[i] |-> <<i, j>>]]
<1>1. Len(lists) \in Nat /\ DOMAIN lists = 1..Len(lists)
  BY LenProperties
<1>2. ASSUME NEW i \in DOMAIN lists
      PROVE  /\ ss[i] \in Seq(Nat \X Nat) /\ OnlyOnce(ss[i])
             /\ Range(ss[i]) = {i} \X DOMAIN lists[i]
  <2>1. Len(lists[i]) \in Nat /\ DOMAIN lists[i] = 1..Len(lists[i]) /\ i \in Nat
    BY <1>1, LenProperties
  <2>2. ss[i] = [j \in 1..Len(lists[i]) |-> <<i, j>>]
    BY <2>1
  <2> HIDE DEF ss
  <2>3. ss[i] \in [1..Len(lists[i]) -> Nat \X Nat]
    BY <2>1, <2>2
  <2>4. ss[i] \in Seq(Nat \X Nat)
    BY <2>1, <2>3, IsASeq
  <2>5. OnlyOnce(ss[i])
    BY <2>2 DEF OnlyOnce
  <2>6. Range(ss[i]) = {i} \X DOMAIN lists[i]
    BY <2>1, <2>2 DEF Range
  <2> QED BY <2>4, <2>5, <2>6
<1>3. ss \in Seq(Seq(Nat \X Nat)) /\ DOMAIN ss = DOMAIN lists
  <2>1. ss \in [1..Len(lists) -> Seq(Nat \X Nat)]
    BY <1>1, <1>2
  <2> QED BY <1>1, <2>1, IsASeq
<1>4. NestedRows(lists) = FlattenSeq(ss)
  BY DEF NestedRows
<1> HIDE DEF ss
<1>5. /\ FlattenSeq(ss) \in Seq(Nat \X Nat)
      /\ Range(FlattenSeq(ss)) = UNION {Range(ss[i]) : i \in DOMAIN ss}
  BY <1>3, FlattenedRange
<1>6. \A i, j \in DOMAIN ss : i # j => Range(ss[i]) \cap Range(ss[j]) = {}
  BY <1>2, <1>3
<1>7. OnlyOnce(FlattenSeq(ss))
  BY <1>2, <1>3, <1>6, FlattenedOnce
<1>8. UNION {Range(ss[i]) : i \in DOMAIN ss}
          = UNION {{i} \X DOMAIN lists[i] : i \in DOMAIN lists}
  BY <1>2, <1>3
<1> QED BY <1>4, <1>5, <1>7, <1>8 DEF AreRows

\* A row for each product of a kind.
LEMMA RowsOfProducts ==
    ASSUME NEW c, c.products \in Seq(Range(c.products)), NEW kind
    PROVE  /\ AreRows(ProductRows(c, kind))
           /\ \A i \in DOMAIN c.products : c.products[i].kind = kind =>
                 <<i, 0>> \in Range(ProductRows(c, kind))
<1> DEFINE products == c.products
           ss == [i \in DOMAIN products |-> IF products[i].kind = kind
               THEN <<<<i, 0>>>> ELSE <<>>]
<1>1. Len(products) \in Nat /\ DOMAIN products = 1..Len(products)
  BY LenProperties
<1>2. ASSUME NEW i \in DOMAIN products
      PROVE  /\ ss[i] \in Seq(Nat \X Nat) /\ OnlyOnce(ss[i])
             /\ Range(ss[i]) \subseteq {<<i, 0>>}
             /\ products[i].kind = kind => <<i, 0>> \in Range(ss[i])
  <2>1. <<i, 0>> \in Nat \X Nat
    BY <1>1
  <2>2. /\ <<<<i, 0>>>> \in Seq(Nat \X Nat) /\ DOMAIN <<<<i, 0>>>> = 1..1
        /\ <<<<i, 0>>>>[1] = <<i, 0>> /\ 1..1 = {1}
    BY <2>1
  <2>3. <<>> \in Seq(Nat \X Nat) /\ DOMAIN <<>> = {}
    OBVIOUS
  <2>4. ss[i] = IF products[i].kind = kind THEN <<<<i, 0>>>> ELSE <<>>
    OBVIOUS
  <2> HIDE DEF ss
  <2>5. OnlyOnce(<<<<i, 0>>>>) /\ Range(<<<<i, 0>>>>) = {<<i, 0>>}
    BY OneIsOnce
  <2>6. OnlyOnce(<<>>) /\ Range(<<>>) = {}
    BY <2>3 DEF OnlyOnce, Range
  <2>7. CASE products[i].kind = kind
    BY <2>2, <2>4, <2>5, <2>7
  <2>8. CASE products[i].kind # kind
    BY <2>3, <2>4, <2>6, <2>8
  <2> QED BY <2>7, <2>8
<1>3. ss \in Seq(Seq(Nat \X Nat)) /\ DOMAIN ss = DOMAIN products
  <2>1. ss \in [1..Len(products) -> Seq(Nat \X Nat)]
    BY <1>1, <1>2
  <2> QED BY <1>1, <2>1, IsASeq
<1>4. ProductRows(c, kind) = FlattenSeq(ss)
  BY DEF ProductRows
<1> HIDE DEF ss
<1>5. /\ FlattenSeq(ss) \in Seq(Nat \X Nat)
      /\ Range(FlattenSeq(ss)) = UNION {Range(ss[i]) : i \in DOMAIN ss}
  BY <1>3, FlattenedRange
<1>6. \A i, j \in DOMAIN ss : i # j => Range(ss[i]) \cap Range(ss[j]) = {}
  <2>1. \A i, j : i # j => <<i, 0>> # <<j, 0>>
    OBVIOUS
  <2> QED BY <1>2, <1>3, <2>1
<1>7. OnlyOnce(FlattenSeq(ss))
  BY <1>2, <1>3, <1>6, FlattenedOnce
<1>8. \A i \in DOMAIN products : products[i].kind = kind
          => <<i, 0>> \in Range(FlattenSeq(ss))
  BY <1>2, <1>3, <1>5
<1> QED BY <1>4, <1>5, <1>7, <1>8 DEF AreRows

\* The history of some memberships has every decision of each, once.
LEMMA HistoryIsEveryDecision ==
    ASSUME NEW c, IsContext(c)
    PROVE  /\ AreRows(HistoryRows(c))
           /\ Range(HistoryRows(c))
                = UNION {{i} \X DOMAIN c.memberships[i].raw.decisions
                    : i \in DOMAIN c.memberships}
<1> DEFINE lists == [i \in DOMAIN c.memberships |-> c.memberships[i].raw.decisions]
<1>1. /\ c.memberships \in Seq(Range(c.memberships))
      /\ \A i \in DOMAIN c.memberships :
            c.memberships[i].raw.decisions \in Seq(Range(c.memberships[i].raw.decisions))
  BY DEF IsContext
<1>2. Len(c.memberships) \in Nat /\ DOMAIN c.memberships = 1..Len(c.memberships)
  BY <1>1, LenProperties
<1>3. lists \in [1..Len(c.memberships) -> Range(lists)]
  BY <1>2 DEF Range
<1>4. lists \in Seq(Range(lists)) /\ DOMAIN lists = DOMAIN c.memberships
  BY <1>2, <1>3, IsASeq
<1>5. \A i \in DOMAIN lists : lists[i] = c.memberships[i].raw.decisions
  OBVIOUS
<1>6. HistoryRows(c) = NestedRows(lists)
  BY DEF HistoryRows
<1> HIDE DEF lists
<1>7. /\ AreRows(NestedRows(lists))
      /\ Range(NestedRows(lists)) = UNION {{i} \X DOMAIN lists[i] : i \in DOMAIN lists}
  BY <1>1, <1>4, <1>5, RowsOfLists
<1> QED BY <1>4, <1>5, <1>6, <1>7

\* The contribution of every member of every period, once.
LEMMA ContributionsAreRows ==
    ASSUME NEW c, IsContext(c)
    PROVE  AreRows(ContributionRows(c))
<1> DEFINE lists == [i \in DOMAIN c.source.periods |-> c.source.periods[i].members]
<1>1. /\ c.source.periods \in Seq(Range(c.source.periods))
      /\ \A i \in DOMAIN c.source.periods :
            c.source.periods[i].members \in Seq(Range(c.source.periods[i].members))
  BY DEF IsContext
<1>2. Len(c.source.periods) \in Nat /\ DOMAIN c.source.periods = 1..Len(c.source.periods)
  BY <1>1, LenProperties
<1>3. lists \in [1..Len(c.source.periods) -> Range(lists)]
  BY <1>2 DEF Range
<1>4. lists \in Seq(Range(lists)) /\ DOMAIN lists = DOMAIN c.source.periods
  BY <1>2, <1>3, IsASeq
<1>5. \A i \in DOMAIN lists : lists[i] = c.source.periods[i].members
  OBVIOUS
<1>6. ContributionRows(c) = IF NestedRows(lists) = <<>> THEN Single ELSE NestedRows(lists)
  BY DEF ContributionRows
<1> HIDE DEF lists
<1>7. AreRows(NestedRows(lists))
  BY <1>1, <1>4, <1>5, RowsOfLists
<1> QED BY <1>6, <1>7, SingleRow

\* What the tables of a source context are.
LEMMA TablesOfAContext ==
    ASSUME NEW c
    PROVE  /\ BaseTables \subseteq DOMAIN ContextTables(c)
           /\ PeriodTable(c) \in DOMAIN ContextTables(c)
           /\ DOMAIN ContextTables(c)
                \subseteq BaseTables
                    \cup {PeriodTable(c), "TrailingReturns", "SinceInception"}
           /\ "SinceInception" \in DOMAIN ContextTables(c) <=> c.sinceInception = TRUE
           /\ "TrailingReturns" \in DOMAIN ContextTables(c)
                <=> ProductRows(c, "TRAILING_RETURN") # <<>>
           /\ PeriodTable(c) \in {"MonthlyReturns", "PeriodReturns"}
<1>1. PeriodTable(c) \in {"MonthlyReturns", "PeriodReturns"}
  BY DEF PeriodTable
<1>2. /\ "SinceInception" \notin BaseTables /\ "TrailingReturns" \notin BaseTables
  BY DEF BaseTables
<1>3. DOMAIN ContextTables(c)
        = BaseTables \cup {PeriodTable(c)}
            \cup ((IF ProductRows(c, "TRAILING_RETURN") = <<>>
                THEN {} ELSE {"TrailingReturns"})
                    \cup (IF c.sinceInception THEN {"SinceInception"} ELSE {}))
  BY DEF ContextTables
<1> QED BY <1>1, <1>2, <1>3

\* What each table shows.
LEMMA TableRows ==
    ASSUME NEW c
    PROVE  /\ \A table \in DOMAIN ContextTables(c) :
                 ContextTables(c)[table] \in
                    {Single, RowsFor(c.source.periods), ContributionRows(c),
                     ProductRows(c, "CALENDAR_RETURN"), ProductRows(c, "TRAILING_RETURN"),
                     HistoryRows(c), RowsFor(c.selection.windows),
                         RowsFor(<<1, 2, 3, 4, 5>>)}
           /\ "AnnualReturns" \notin Uncaptured(c) =>
                 ContextTables(c)["AnnualReturns"] = ProductRows(c, "CALENDAR_RETURN")
           /\ "TrailingReturns" \in DOMAIN ContextTables(c) =>
                 ContextTables(c)["TrailingReturns"] = ProductRows(c, "TRAILING_RETURN")
           /\ "MembershipHistory" \notin Uncaptured(c) =>
                 ContextTables(c)["MembershipHistory"] = HistoryRows(c)
<1> DEFINE TableRowsOf(table) ==
             CASE table \in Uncaptured(c) \cup {"Summary", "SinceInception"} -> Single
               [] table = PeriodTable(c)      -> RowsFor(c.source.periods)
               [] table = "Contribution"      -> ContributionRows(c)
               [] table = "AnnualReturns"     -> ProductRows(c, "CALENDAR_RETURN")
               [] table = "TrailingReturns"   -> ProductRows(c, "TRAILING_RETURN")
               [] table = "MembershipHistory" -> HistoryRows(c)
               [] table \in {"Methods", "Lineage"} -> RowsFor(c.selection.windows)
               [] table = "Disclosures"       -> RowsFor(<<1, 2, 3, 4, 5>>)
<1>1. \A table \in DOMAIN ContextTables(c) : ContextTables(c)[table] = TableRowsOf(table)
  BY DEF ContextTables
<1>2. /\ {"Risk", "Members", "EligibilityReasons", "Attribution", "Restatement"}
            \subseteq Uncaptured(c)
      /\ Uncaptured(c) \subseteq {"Risk", "Members", "EligibilityReasons", "Attribution",
                                  "Restatement", "AnnualReturns", "MembershipHistory"}
  BY DEF Uncaptured
<1>3. PeriodTable(c) \in {"MonthlyReturns", "PeriodReturns"}
  BY TablesOfAContext
<1>4. ASSUME NEW table \in DOMAIN ContextTables(c)
      PROVE  \/ table \in Uncaptured(c) \cup {"Summary", "SinceInception"}
             \/ table \in {PeriodTable(c), "Contribution", "AnnualReturns",
                    "TrailingReturns",
                           "MembershipHistory", "Methods", "Lineage", "Disclosures"}
  BY <1>2, TablesOfAContext DEF BaseTables
<1>5. ASSUME NEW table \in DOMAIN ContextTables(c)
      PROVE  TableRowsOf(table) \in
                {Single, RowsFor(c.source.periods), ContributionRows(c),
                 ProductRows(c, "CALENDAR_RETURN"), ProductRows(c, "TRAILING_RETURN"),
                 HistoryRows(c), RowsFor(c.selection.windows), RowsFor(<<1, 2, 3, 4, 5>>)}
  BY <1>4
<1>6. "AnnualReturns" \notin Uncaptured(c) =>
         TableRowsOf("AnnualReturns") = ProductRows(c, "CALENDAR_RETURN")
  BY <1>3
<1>7. TableRowsOf("TrailingReturns") = ProductRows(c, "TRAILING_RETURN")
  BY <1>2, <1>3
<1>8. "MembershipHistory" \notin Uncaptured(c)
          => TableRowsOf("MembershipHistory") = HistoryRows(c)
  BY <1>3
<1>9. "AnnualReturns" \in DOMAIN ContextTables(c)
          /\ "MembershipHistory" \in DOMAIN ContextTables(c)
  BY TablesOfAContext DEF BaseTables
<1> HIDE DEF TableRowsOf
<1> QED BY <1>1, <1>5, <1>6, <1>7, <1>8, <1>9

\* No table of a source context shows a row twice.
LEMMA TablesAreRows ==
    ASSUME NEW c, IsContext(c)
    PROVE  \A table \in DOMAIN ContextTables(c) : AreRows(ContextTables(c)[table])
<1>1. /\ c.source.periods \in Seq(Range(c.source.periods))
      /\ c.selection.windows \in Seq(Range(c.selection.windows))
      /\ c.products \in Seq(Range(c.products))
  BY DEF IsContext
<1>2. <<1, 2, 3, 4, 5>> \in Seq(Range(<<1, 2, 3, 4, 5>>))
  BY TupleOfFive
<1>3. AreRows(RowsFor(c.source.periods)) /\ AreRows(RowsFor(c.selection.windows))
  BY <1>1, RowsForAList
<1>4. AreRows(RowsFor(<<1, 2, 3, 4, 5>>))
  BY <1>2, RowsForAList
<1>5. \A kind : AreRows(ProductRows(c, kind))
  BY <1>1, RowsOfProducts
<1>6. AreRows(HistoryRows(c)) /\ AreRows(ContributionRows(c)) /\ AreRows(Single)
  BY HistoryIsEveryDecision, ContributionsAreRows, SingleRow
<1> QED BY <1>3, <1>4, <1>5, <1>6, TableRows

\* The windows, and what they supersede, are the memberships; the history is
\* every decision of each.
LEMMA HistoryHolds ==
    ASSUME NEW c, IsContext(c)
    PROVE  HistoryIsTheWindows(c)
<1> SUFFICES ASSUME ContextIsAdmitted(c), c.memberships # <<>>
             PROVE  HistoryIsTheWindows(c)
  BY DEF HistoryIsTheWindows
<1>1. /\ Referenced(c) \subseteq {m.hash : m \in Range(c.memberships)}
      /\ \A m \in Range(c.memberships) : MembershipIsPinned(c, m)
             /\ ParentIsCaptured(c, m)
      /\ MembershipsAreUsed(c)
  BY DEF ContextIsAdmitted, ContextDataIsAdmitted, ContextIsPinned, MembershipsArePinned
<1>2. ASSUME NEW w \in Range(c.selection.windows)
      PROVE  \E m \in Range(c.memberships) : m.hash = w.membership
  <2> DEFINE others == [i \in DOMAIN c.products |-> c.products[i].selection]
             S == {c.selection} \cup Range(others)
  <2>1. c.products \in Seq(Range(c.products))
    BY DEF IsContext
  <2>2. Len(c.products) \in Nat /\ DOMAIN c.products = 1..Len(c.products)
    BY <2>1, LenProperties
  <2>3. others \in [1..Len(c.products) -> S]
    BY <2>2 DEF Range
  <2>4. VectorsOf(c) = <<c.selection>> \o others
    BY DEF VectorsOf
  <2> HIDE DEF others
  <2>5. others \in Seq(S) /\ <<c.selection>> \in Seq(S)
    <3>1. c.selection \in S
      OBVIOUS
    <3> HIDE DEF S
    <3> QED BY <2>2, <2>3, <3>1, IsASeq
  <2>6. Range(VectorsOf(c)) = Range(<<c.selection>>) \cup Range(others)
    BY ZenonT(30), <2>4, <2>5, RangeConcatenation
  <2>7. c.selection \in Range(VectorsOf(c))
    BY <2>6, TupleOfOne
  <2>8. w.membership \in Referenced(c)
    BY <2>7 DEF Referenced
  <2> QED BY <1>1, <2>8
<1>3. ASSUME NEW m \in Range(c.memberships), m.hash \notin Referenced(c)
      PROVE  \E n \in Range(c.memberships) :
                n.hash \in Referenced(c) /\ n.raw.supersedes = m.raw.revision
  <2>1. m.hash \in Linked(c)
    BY <1>1 DEF MembershipsAreUsed
  <2>2. PICK n \in Range(c.memberships) :
           /\ n.hash \in Referenced(c) /\ n.raw.supersedes # NoText
           /\ m.hash = CapturedAs(c, n.raw.supersedes).hash
    BY <1>3, <2>1 DEF Linked
  <2>3. n.raw.supersedes \in Revisions(c)
    BY <1>1, <2>2 DEF ParentIsCaptured
  <2>4. PICK i \in DOMAIN c.memberships : c.memberships[i].raw.revision = n.raw.supersedes
    BY <2>3 DEF Revisions
  <2>5. c.memberships[i] \in Range(c.memberships)
    BY DEF Range
  <2> DEFINE k == CapturedAs(c, n.raw.supersedes)
  <2>6. k \in Range(c.memberships) /\ k.raw.revision = n.raw.supersedes
    BY <2>4, <2>5 DEF CapturedAs
  <2> HIDE DEF k
  <2>7. m.raw = k.raw
    BY <1>1, <2>2, <2>6 DEF MembershipIsPinned, k
  <2> QED BY <2>2, <2>6, <2>7
<1>4. c.tables["MembershipHistory"] = HistoryRows(c)
  <2>1. "MembershipHistory" \notin Uncaptured(c)
    BY DEF Uncaptured
  <2>2. "MembershipHistory" \in DOMAIN ContextTables(c)
    BY TablesOfAContext DEF BaseTables
  <2> QED BY <2>1, <2>2, TableRows DEF ContextIsAdmitted, ContextDataIsAdmitted
<1>5. /\ ~SequenceHasDuplicates(HistoryRows(c))
      /\ Range(HistoryRows(c))
           = UNION {{i} \X DOMAIN c.memberships[i].raw.decisions
               : i \in DOMAIN c.memberships}
  BY HistoryIsEveryDecision, OnceIsCounted
     DEF AreRows, SequenceHasDuplicates
<1> QED BY <1>2, <1>3, <1>4, <1>5 DEF HistoryIsTheWindows

\* The tables are a set the layout takes, and what the custody names is there.
LEMMA ContextTablesFit ==
    ASSUME NEW c, IsContext(c)
    PROVE  ContextTablesFitTheLayout(c)
<1> SUFFICES ASSUME ContextIsAdmitted(c) PROVE ContextTablesFitTheLayout(c)
  BY DEF ContextTablesFitTheLayout
<1>1. /\ DOMAIN c.tables = DOMAIN ContextTables(c)
      /\ \A table \in DOMAIN c.tables : c.tables[table] = ContextTables(c)[table]
      /\ c.identity = ContextCustody(c)
  BY DEF ContextIsAdmitted, ContextDataIsAdmitted
<1>2. ContextTableSet(DOMAIN c.tables)
  <2>1. DOMAIN c.tables \cap {"MonthlyReturns", "PeriodReturns"} = {PeriodTable(c)}
    BY <1>1, TablesOfAContext DEF BaseTables
  <2>2. Cardinality({PeriodTable(c)}) = 1
    BY FS_Singleton
  <2> QED BY <1>1, <2>1, <2>2, TablesOfAContext DEF ContextTableSet
<1>3. c.identity.wanted = ("SinceInception" \in DOMAIN c.tables)
  <2>1. c.identity.wanted = c.sinceInception /\ c.sinceInception \in BOOLEAN
    BY <1>1 DEF ContextCustody, IsContext
  <2>2. ("SinceInception" \in DOMAIN c.tables) <=> (c.sinceInception = TRUE)
    BY <1>1, TablesOfAContext
  <2>3. CASE c.sinceInception = TRUE
    BY <2>1, <2>2, <2>3
  <2>4. CASE c.sinceInception = FALSE
    BY <2>1, <2>2, <2>4
  <2> QED BY <2>1, <2>3, <2>4
<1>4. ASSUME NEW i \in DOMAIN c.identity.products
      PROVE  \E table \in {"AnnualReturns", "TrailingReturns"} \cap DOMAIN c.tables :
                <<i, 0>> \in Range(c.tables[table])
  <2>1. i \in DOMAIN c.products /\ c.products \in Seq(Range(c.products))
    BY <1>1, <1>4 DEF ContextCustody, IsContext
  <2>2. c.products[i].kind \in {"CALENDAR_RETURN", "TRAILING_RETURN"}
    BY <2>1 DEF IsContext, Range
  <2>3. <<i, 0>> \in Range(ProductRows(c, c.products[i].kind))
    BY <2>1, RowsOfProducts
  <2>4. ProductRows(c, c.products[i].kind) # <<>>
    <3>1. Range(<<>>) = {}
      BY DEF Range
    <3> QED BY <2>3, <3>1
  <2>5. CASE c.products[i].kind = "CALENDAR_RETURN"
    <3>1. "AnnualReturns" \notin Uncaptured(c)
      BY <2>4, <2>5 DEF Uncaptured
    <3>2. "AnnualReturns" \in DOMAIN c.tables
      BY <1>1, TablesOfAContext DEF BaseTables
    <3>3. c.tables["AnnualReturns"] = ProductRows(c, "CALENDAR_RETURN")
      BY <1>1, <3>1, <3>2, TableRows
    <3> QED BY <2>3, <2>5, <3>2, <3>3
  <2>6. CASE c.products[i].kind = "TRAILING_RETURN"
    <3>1. "TrailingReturns" \in DOMAIN c.tables
      BY <1>1, <2>4, <2>6, TablesOfAContext
    <3>2. c.tables["TrailingReturns"] = ProductRows(c, "TRAILING_RETURN")
      BY <1>1, <3>1, TableRows
    <3> QED BY <2>3, <2>6, <3>1, <3>2
  <2> QED BY <2>2, <2>5, <2>6
<1> QED BY <1>2, <1>3, <1>4 DEF ContextTablesFitTheLayout

-----------------------------------------------------------------------------
(* The notice of a correction *)

\* The tables of a generation are rows, none of them twice.
LEMMA GenerationsAreRows ==
    ASSUME NEW n, IsNotice(n), NoticeIsAdmitted(n),
           NEW side \in Sides, NEW table \in Range(SourceTables)
    PROVE  AreRows(n.generations[side].payload.tables[table])
<1> DEFINE p == n.generations[side].payload
<1>1. /\ IsContext(p) /\ DOMAIN p.tables = Range(SourceTables)
      /\ DOMAIN p.tables = DOMAIN ContextTables(p)
      /\ \A t \in DOMAIN p.tables : p.tables[t] = ContextTables(p)[t]
  BY DEF IsNotice, NoticeIsAdmitted, GenerationIsPinned, ContextDataIsAdmitted
<1> QED BY <1>1, TablesAreRows

\* The coordinates of a side are those of its rows.
LEMMA CoordinatesAreRows ==
    ASSUME NEW n, NEW side
    PROVE  /\ \A c \in Coordinates(n, side) : \E table \in Range(SourceTables) : \E row :
                  c = <<table, row>>
           /\ \A table \in Range(SourceTables) : \A row :
                 <<table, row>> \in Coordinates(n, side)
                    <=> row \in Range(n.generations[side].payload.tables[table])
<1> DEFINE rows(table) == Range(n.generations[side].payload.tables[table])
<1>1. Coordinates(n, side) = UNION {{<<table, row>> : row \in rows(table)}
          : table \in Range(SourceTables)}
  BY DEF Coordinates
<1> HIDE DEF rows
<1>2. \A c : c \in Coordinates(n, side) <=>
                \E table \in Range(SourceTables) : \E row \in rows(table) :
                    c = <<table, row>>
  BY <1>1
<1>3. \A a, b, c, d : <<a, b>> = <<c, d>> => a = c /\ b = d
  OBVIOUS
<1> QED BY <1>2, <1>3 DEF rows

\* A row is found where it is, and only on a side that has it.
LEMMA RefsAreRows ==
    ASSUME NEW n, NEW side, NEW table \in Range(SourceTables), NEW row,
           AreRows(n.generations[side].payload.tables[table])
    PROVE  LET rows == n.generations[side].payload.tables[table]
               ref == RefOf(n, side, <<table, row>>)
           IN  /\ \A i \in DOMAIN rows : rows[i] = row => ref.row = i
               /\ (ref = NoRef) <=> (row \notin Range(rows))
<1> DEFINE rows == n.generations[side].payload.tables[table]
           c == <<table, row>>
           place == CHOOSE i \in DOMAIN rows : rows[i] = row
           ref == RefOf(n, side, c)
<1>1. c \in Coordinates(n, side) <=> row \in Range(rows)
  BY CoordinatesAreRows
<1>2. c[1] = table /\ c[2] = row
  OBVIOUS
<1>3. CASE row \notin Range(rows)
  <2>1. ref = NoRef
    BY <1>1, <1>3 DEF RefOf
  <2>2. \A i \in DOMAIN rows : rows[i] # row
    BY <1>3 DEF Range
  <2> QED BY <1>3, <2>1, <2>2
<1>4. CASE row \in Range(rows)
  <2>1. ref = [generation |-> side, table |-> c[1], at |-> c[2], row |-> place]
    BY <1>1, <1>4 DEF RefOf
  <2>2. \E i \in DOMAIN rows : rows[i] = row
    BY <1>4 DEF Range
  <2>3. place \in DOMAIN rows /\ rows[place] = row
    BY <2>2
  <2> HIDE DEF place
  <2>4. ref.row = place
    BY <2>1
  <2>5. \A i \in DOMAIN rows : rows[i] = row => i = place
    BY <2>3 DEF AreRows, OnlyOnce
  <2>6. place # 0
    <3>1. DOMAIN rows = 1..Len(rows) /\ Len(rows) \in Nat
      BY LenProperties DEF AreRows
    <3> QED BY <2>3, <3>1
  <2>7. ref # NoRef
    BY <2>4, <2>6 DEF NoRef
  <2> QED BY <1>4, <2>4, <2>5, <2>7
<1> QED BY <1>3, <1>4

\* The rows of a table of a side are where the notice shows them.
RowsAreShown(n, side, table) ==
    LET rows == n.generations[side].payload.tables[table]
        shown == n.tables.side[<<side, table>>]
    IN  DOMAIN shown = DOMAIN rows /\ \A i \in DOMAIN rows : shown[i].row = rows[i]

\* They are evidenced as what they are of and indexed where they are.
RowsAreFound(n, side, table) ==
    LET rows == n.generations[side].payload.tables[table]
        shown == n.tables.side[<<side, table>>]
    IN  /\ Len(shown) = Len(rows)
        /\ \A i \in DOMAIN rows :
              /\ OriginOf(<<side, table>>, shown[i])
                   = [generation |-> side, table |-> table, row |-> rows[i]]
              /\ <<table, rows[i]>> \in DOMAIN n.pairIndex
              /\ n.pairIndex[<<table, rows[i]>>].refs[side].row = i

\* The sides that show a row.
There(n, c) ==
    {side \in Sides : \E i \in DOMAIN n.tables.side[<<side, c[1]>>] :
        n.tables.side[<<side, c[1]>>][i].row = c[2]}

\* The index says of a row where it is.
IndexIsRight(n, c) ==
    /\ There(n, c) # {}
    /\ n.pairIndex[c].presence
         = (CASE There(n, c) = Sides -> "BOTH_PRESENT"
              [] There(n, c) = {"before"} -> "BEFORE_ONLY"
              [] There(n, c) = {"after"} -> "AFTER_ONLY")
    /\ There(n, c)
         = {side \in Sides : <<c, side>> \notin n.tables.metadata["PairIndex"].notApplicable}

\* A row is shown, evidenced and indexed where it is.
LEMMA RowsAreIndexed ==
    ASSUME NEW n, IsNotice(n), NoticeIsAdmitted(n),
           NEW side \in Sides, NEW table \in Range(SourceTables)
    PROVE  RowsAreShown(n, side, table) /\ RowsAreFound(n, side, table)
<1> DEFINE rows == n.generations[side].payload.tables[table]
           shown == n.tables.side[<<side, table>>]
<1>1. AreRows(rows)
  BY GenerationsAreRows
<1>2. Len(rows) \in Nat /\ DOMAIN rows = 1..Len(rows)
  BY <1>1, LenProperties DEF AreRows
<1>3. /\ <<side, table>> \in Sides \X Range(SourceTables)
      /\ <<side, table>>[1] = side /\ <<side, table>>[2] = table
  OBVIOUS
<1>4. shown = [i \in DOMAIN rows |-> [row |-> rows[i], of |-> side]]
  <2>1. n.tables.side = SideTables(n)
    BY DEF NoticeIsAdmitted, NoticeTables
  <2>2. \A at \in Sides \X Range(SourceTables) :
           SideTables(n)[at]
             = [i \in DOMAIN n.generations[at[1]].payload.tables[at[2]] |->
                   [row |-> n.generations[at[1]].payload.tables[at[2]][i], of |-> at[1]]]
    BY DEF SideTables
  <2> DEFINE at == <<side, table>>
  <2> HIDE DEF at
  <2>3. at \in Sides \X Range(SourceTables) /\ at[1] = side /\ at[2] = table
    BY <1>3 DEF at
  <2>4. SideTables(n)[at] = [i \in DOMAIN rows |-> [row |-> rows[i], of |-> side]]
    BY <2>2, <2>3
  <2> QED BY <2>1, <2>4 DEF at
<1>5. n.pairIndex = PairIndex(n)
  BY DEF NoticeIsAdmitted
<1> HIDE DEF rows, shown
<1>6. shown \in [1..Len(rows) -> Range(shown)]
  BY <1>2, <1>4 DEF Range
<1>7. Len(shown) = Len(rows)
  <2>1. shown \in Seq(Range(shown)) /\ DOMAIN shown = 1..Len(rows)
    BY <1>2, <1>6, IsASeq
  <2> QED BY <1>2, <2>1, LenProperties
<1>8. ASSUME NEW i \in DOMAIN rows
      PROVE  /\ shown[i].row = rows[i]
             /\ OriginOf(<<side, table>>, shown[i])
                  = [generation |-> side, table |-> table, row |-> rows[i]]
             /\ <<table, rows[i]>> \in DOMAIN n.pairIndex
             /\ n.pairIndex[<<table, rows[i]>>].refs[side].row = i
  <2>1. shown[i].row = rows[i]
    BY <1>4
  <2>2. OriginOf(<<side, table>>, shown[i])
          = [generation |-> side, table |-> table, row |-> rows[i]]
    BY <1>3, <2>1 DEF OriginOf
  <2>3. rows[i] \in Range(rows)
    BY DEF Range
  <2> DEFINE c == <<table, rows[i]>>
  <2>4. c \in Coordinates(n, side)
    BY <2>3, CoordinatesAreRows DEF rows
  <2>5. RefOf(n, side, c).row = i
    BY <1>1, RefsAreRows DEF rows
  <2> HIDE DEF c
  <2>6. /\ c \in DOMAIN PairIndex(n)
        /\ PairIndex(n)[c].refs = [s \in Sides |-> RefOf(n, s, c)]
    BY <2>4 DEF PairIndex, Sides
  <2>7. n.pairIndex[c].refs[side].row = i
    BY <1>5, <2>5, <2>6
  <2> QED BY <1>5, <2>1, <2>2, <2>6, <2>7 DEF c
<1>9. DOMAIN shown = DOMAIN rows
  BY <1>4
<1> QED BY <1>7, <1>8, <1>9 DEF rows, shown, RowsAreShown, RowsAreFound

\* The index says of a row on which sides it is.
LEMMA IndexIsOfRows ==
    ASSUME NEW n, IsNotice(n), NoticeIsAdmitted(n), NEW c \in DOMAIN n.pairIndex
    PROVE  IndexIsRight(n, c)
<1> DEFINE there == There(n, c)
           refs == [side \in Sides |-> RefOf(n, side, c)]
<1>1. n.pairIndex = PairIndex(n)
  BY DEF NoticeIsAdmitted
<1>2. c \in Coordinates(n, "before") \cup Coordinates(n, "after")
  BY <1>1 DEF PairIndex
<1>0. PICK table \in Range(SourceTables) : \E row : c = <<table, row>>
  BY <1>2, CoordinatesAreRows
<1>3. PICK row : c = <<table, row>>
  BY <1>0
<1>4. n.pairIndex[c].presence = Presence(refs) /\ n.pairIndex[c].refs = refs
  BY <1>1, <1>2 DEF PairIndex
<1>5. c[1] = table /\ c[2] = row
  BY <1>3
<1>6. ASSUME NEW side \in Sides
      PROVE  /\ side \in there <=> c \in Coordinates(n, side)
             /\ refs[side] = NoRef <=> c \notin Coordinates(n, side)
  <2> DEFINE rows == n.generations[side].payload.tables[table]
             shown == n.tables.side[<<side, table>>]
  <2>1. AreRows(rows)
    BY GenerationsAreRows
  <2>2. c \in Coordinates(n, side) <=> row \in Range(rows)
    BY <1>3, CoordinatesAreRows
  <2>3. refs[side] = NoRef <=> row \notin Range(rows)
    BY <1>3, <2>1, RefsAreRows
  <2>4. DOMAIN shown = DOMAIN rows /\ \A i \in DOMAIN rows : shown[i].row = rows[i]
    BY RowsAreIndexed DEF RowsAreShown
  <2>5. side \in there <=> \E i \in DOMAIN shown : shown[i].row = row
    BY <1>5 DEF There
  <2> HIDE DEF rows, shown, there, refs
  <2>6. side \in there <=> row \in Range(rows)
    BY <2>4, <2>5 DEF Range
  <2> QED BY <2>2, <2>3, <2>6
<1>7. there \subseteq Sides
  BY DEF There
<1>8. \A side \in Sides :
         <<c, side>> \in n.tables.metadata["PairIndex"].notApplicable
             <=> refs[side] = NoRef
  <2>1. n.tables.metadata["PairIndex"] = MetadataTable(n.facts, "PairIndex")
    BY DEF NoticeIsAdmitted, NoticeTables, MetadataTables
  <2>2. n.facts["PairIndex"] = n.pairIndex
    BY DEF NoticeIsAdmitted, NoticeFacts
  <2>3. n.tables.metadata["PairIndex"].notApplicable
          = {at \in (DOMAIN n.pairIndex) \X Sides
              : n.pairIndex[at[1]].refs[at[2]] = NoRef}
    BY <2>1, <2>2 DEF MetadataTable
  <2>4. \A side : <<c, side>>[1] = c /\ <<c, side>>[2] = side
    OBVIOUS
  <2>5. \A side \in Sides : <<c, side>> \in (DOMAIN n.pairIndex) \X Sides
    OBVIOUS
  <2> HIDE DEF refs
  <2> QED BY <1>4, <2>3, <2>4, <2>5
<1>9. "before" \in Sides /\ "after" \in Sides /\ Sides = {"before", "after"}
  BY DEF Sides
<1>10. Presence(refs) = CASE refs["after"] = NoRef  -> "BEFORE_ONLY"
                          [] refs["before"] = NoRef -> "AFTER_ONLY"
                          [] OTHER -> "BOTH_PRESENT"
  BY DEF Presence
<1> HIDE DEF there, refs
<1>11. there # {}
  BY <1>2, <1>6, <1>9
<1>12. Presence(refs) = (CASE there = Sides -> "BOTH_PRESENT"
                           [] there = {"before"} -> "BEFORE_ONLY"
                           [] there = {"after"} -> "AFTER_ONLY")
  <2>1. CASE "before" \in there /\ "after" \in there
    <3>1. there = Sides
      BY <1>7, <1>9, <2>1
    <3>2. there # {"before"} /\ there # {"after"}
      BY <2>1
    <3> QED BY <1>6, <1>9, <1>10, <2>1, <3>1, <3>2
  <2>2. CASE "before" \in there /\ "after" \notin there
    <3>1. there # Sides /\ there = {"before"} /\ there # {"after"}
      BY <1>7, <1>9, <2>2
    <3> QED BY <1>6, <1>9, <1>10, <2>2, <3>1
  <2>3. CASE "before" \notin there /\ "after" \in there
    <3>1. there # Sides /\ there # {"before"} /\ there = {"after"}
      BY <1>7, <1>9, <2>3
    <3> QED BY <1>6, <1>9, <1>10, <2>3, <3>1
  <2> QED BY <1>7, <1>9, <1>11, <2>1, <2>2, <2>3
<1>13. there = {side \in Sides :
                  <<c, side>> \notin n.tables.metadata["PairIndex"].notApplicable}
  BY <1>6, <1>7, <1>8
<1> QED BY <1>4, <1>11, <1>12, <1>13 DEF there, IndexIsRight

\* Every row of both generations is shown and indexed where it is.
LEMMA BothSidesHold ==
    ASSUME NEW n, IsNotice(n)
    PROVE  BothSidesAreShown(n)
<1>1. NoticeIsAdmitted(n) =>
         /\ \A side \in Sides, table \in Range(SourceTables) :
                RowsAreFound(n, side, table)
         /\ \A c \in DOMAIN n.pairIndex : IndexIsRight(n, c)
  BY RowsAreIndexed, IndexIsOfRows
<1> QED BY <1>1, Zenon DEF BothSidesAreShown, RowsAreFound, IndexIsRight, There

\* The path is of one economic step, and of documents of its sides.
LEMMA CorrectionHolds ==
    ASSUME NEW n, IsNotice(n)
    PROVE  CorrectionIsOneStep(n)
<1> SUFFICES ASSUME NoticeIsAdmitted(n) PROVE CorrectionIsOneStep(n)
  BY DEF CorrectionIsOneStep
<1> DEFINE documents == [i \in DOMAIN n.nodes |-> n.nodes[i].document]
           economic == {i \in DOMAIN n.edges : n.edges[i].role = "ECONOMIC_CORRECTION"}
           Selected(node) == <<node.anchor, node.hash>>
<1>1. DOMAIN n.nodes = 1..4 /\ DOMAIN n.edges = 1..3
  BY LenProperties DEF IsNotice, NoticeIsAdmitted, PathIsPinned
<1>2. Cardinality({n.nodes[i].document : i \in DOMAIN n.nodes}) = 4
  <2>1. documents \in [1..4 -> Range(documents)]
    BY <1>1 DEF Range
  <2>2. Range(documents) = {n.nodes[i].document : i \in DOMAIN n.nodes}
    BY DEF Range
  <2>3. Cardinality(Range(documents)) = Len(documents)
    BY DEF NoticeIsAdmitted, PathIsPinned, SequenceHasDuplicates
  <2> HIDE DEF documents
  <2>4. documents \in Seq(Range(documents)) /\ DOMAIN documents = 1..4
    BY <2>1, FunctionIsSeq
  <2>5. Len(documents) = 4
    BY <2>4, LenProperties
  <2> QED BY <2>2, <2>3, <2>5
<1>3. \A i \in 1..4 : NodeIsPinned(n, i) /\ NodeSide(i) \in Sides
  BY <1>1 DEF NoticeIsAdmitted, PathIsPinned, NodeSide, Sides
<1>4. NodeSide(1) = "before" /\ NodeSide(2) = "before" /\ NodeSide(3) = "after"
          /\ NodeSide(4) = "after"
  BY DEF NodeSide
<1>5. \A i \in 1..3 : i \in economic <=> i = 2
  <2>1. \A i \in 1..3 : n.edges[i].role = EdgeRoles[i]
    BY <1>1 DEF NoticeIsAdmitted, PathIsPinned, EdgeIsPinned
  <2>2. \A i \in 1..3 : EdgeRoles[i] = "ECONOMIC_CORRECTION" <=> i = 2
    BY DEF EdgeRoles
  <2> QED BY <1>1, <2>1, <2>2
<1>6. Cardinality(economic) = 1
  <2>1. economic = {2}
    BY <1>1, <1>5
  <2> QED BY <2>1, FS_Singleton
<1>7. n.generations["before"].selection.hash # n.generations["after"].selection.hash
  BY DEF NoticeIsAdmitted, GenerationIsPinned, PairIsPinned, Sides
<1>8. \A i \in 1..4 : /\ n.nodes[i].anchor = n.generations[NodeSide(i)].selection.anchor
                      /\ n.nodes[i].hash = n.generations[NodeSide(i)].selection.hash
                      /\ n.nodes[i].response.identity
                             = SourceIdentity(n.generations[NodeSide(i)])
                      /\ ~n.nodes[i].response.purged
  BY <1>3 DEF NodeIsPinned
<1>9. ASSUME NEW i \in 1..3
      PROVE  i \in economic <=> Selected(n.nodes[i]) # Selected(n.nodes[i + 1])
  <2>1. i = 1 \/ i = 2 \/ i = 3
    OBVIOUS
  <2>2. CASE i = 1
    BY <1>4, <1>5, <1>8, <2>2
  <2>3. CASE i = 2
    <3>1. n.nodes[2].hash # n.nodes[3].hash
      BY <1>4, <1>7, <1>8
    <3>2. Selected(n.nodes[2]) # Selected(n.nodes[3])
      BY <3>1
    <3> QED BY <1>5, <2>3, <3>2
  <2>4. CASE i = 3
    BY <1>4, <1>5, <1>8, <2>4
  <2> QED BY <2>1, <2>2, <2>3, <2>4
<1>10. \A i \in 1..4 : n.package.revision # n.nodes[i].anchor.revision
  <2>1. \A side \in Sides : n.package.revision # n.generations[side].selection.anchor.revision
    BY DEF NoticeIsAdmitted, NoticeCustodyIsBound
  <2> QED BY <1>3, <1>8, <2>1
<1>11. ASSUME NEW o \in DOMAIN n.obligations, n.obligations[o].status
           = "CAPTURED_INTERNAL"
       PROVE  n.obligations[o].refs # {}
  <2>1. n.obligations = Obligations(n)
    BY DEF NoticeIsAdmitted
  <2>2. n.obligations[o] = [status |-> IF Captured(n)[o] = {} THEN "UNAVAILABLE"
                                       ELSE "CAPTURED_INTERNAL",
                            refs |-> Captured(n)[o]]
    BY <2>1 DEF Obligations
  <2> QED BY <1>11, <2>2
<1>12. /\ "before" \in {side \in Sides :
                         n.nodes[1].response.identity
                             = SourceIdentity(n.generations[side])}
       /\ "after" \in {side \in Sides :
                         n.nodes[4].response.identity
                             = SourceIdentity(n.generations[side])}
  BY <1>4, <1>8 DEF Sides
<1> QED BY <1>1, <1>2, <1>6, <1>8, <1>9, <1>10, <1>11, <1>12 DEF CorrectionIsOneStep

-----------------------------------------------------------------------------
(* Reviews of returns *)

\* The month of a day is a number.
LEMMA MonthsAreNumbered == \A day \in Int : Month(day) \in Int
BY CalendarAssumption DEF Month

\* A day is of a month when it is from its first to its last.
LEMMA DaysOfAMonth ==
    ASSUME NEW day \in Int, NEW month \in Int
    PROVE  Month(day) = month <=> day \in FirstOf(month)..LastOf(month)
<1>1. MonthDays \in Nat \ {0}
  BY CalendarAssumption
<1> DEFINE q == day \div MonthDays
<1>2. q \in Int /\ q * MonthDays <= day /\ day < q * MonthDays + MonthDays
  BY <1>1
<1>3. (month + 1) * MonthDays - 1 = month * MonthDays + MonthDays - 1
          /\ month * MonthDays \in Int
  BY <1>1
<1>4. day \in FirstOf(month)..LastOf(month)
        <=> month * MonthDays <= day /\ day < month * MonthDays + MonthDays
  BY <1>1, <1>3 DEF FirstOf, LastOf
<1> HIDE DEF q
<1>5. ASSUME month * MonthDays <= day, day < month * MonthDays + MonthDays PROVE q = month
  <2>1. CASE q >= month + 1
    <3>1. q * MonthDays >= (month + 1) * MonthDays
      BY <1>1, <1>2, <2>1
    <3> QED BY <1>1, <1>2, <1>3, <1>5, <3>1
  <2>2. CASE month >= q + 1
    <3>1. month * MonthDays >= (q + 1) * MonthDays
              /\ (q + 1) * MonthDays = q * MonthDays + MonthDays
      BY <1>1, <1>2, <2>2
    <3> QED BY <1>1, <1>2, <1>5, <3>1
  <2> QED BY <1>2, <2>1, <2>2
<1>6. Month(day) = q
  BY DEF Month, q
<1> QED BY <1>2, <1>4, <1>5, <1>6

\* No window reaches out of the horizon of its vector.
LEMMA WindowsAreWithin ==
    ASSUME NEW windows, AreWindows(windows), NEW i \in 1..Len(windows)
    PROVE  /\ windows[1].start <= windows[i].start
           /\ windows[i].end <= windows[Len(windows)].end
<1> DEFINE n == Len(windows)
<1>1. /\ n \in Nat /\ 1 \in 1..n /\ n \in 1..n
      /\ \A k \in 1..n : /\ windows[k].start \in Int /\ windows[k].end \in Int
                         /\ windows[k].start <= windows[k].end
  BY DEF AreWindows
<1>2. i # 1 => windows[1].end < windows[i].start
  BY <1>1, WindowsAreInOrder
<1>3. i # n => windows[i].end < windows[n].start
  BY <1>1, WindowsAreInOrder
<1> HIDE DEF n
<1> QED BY <1>1, <1>2, <1>3 DEF n

\* Two windows that share a day are one.
LEMMA WindowsAreApart ==
    ASSUME NEW windows, AreWindows(windows),
           NEW i \in 1..Len(windows), NEW j \in 1..Len(windows), NEW day \in Int,
           day \in windows[i].start..windows[i].end,
           day \in windows[j].start..windows[j].end
    PROVE  i = j
<1>1. /\ i \in Nat /\ j \in Nat
      /\ windows[i].start \in Int /\ windows[i].end \in Int
      /\ windows[j].start \in Int /\ windows[j].end \in Int
  BY DEF AreWindows
<1>2. CASE i < j
  BY <1>1, <1>2, WindowsAreInOrder
<1>3. CASE j < i
  BY <1>1, <1>3, WindowsAreInOrder
<1> QED BY <1>1, <1>2, <1>3

\* Every day of the horizon is in one period, and no other day is in any.
LEMMA HorizonHolds ==
    ASSUME NEW d, IsReturns(d)
    PROVE  HorizonIsTiled(d)
<1> SUFFICES ASSUME Admitted(d), NEW day \in Int
             PROVE  Cardinality({i \in DOMAIN d.source.periods :
                            day \in d.source.periods[i].start..d.source.periods[i].end})
                      = IF day \in d.selection.start..d.selection.end THEN 1 ELSE 0
  BY DEF HorizonIsTiled
<1> DEFINE s == d.selection  windows == s.windows  periods == d.source.periods
           there == {i \in DOMAIN periods : day \in periods[i].start..periods[i].end}
<1>1. SelectionIsPinned(s) /\ SourceIsPinned(s, d.source)
  BY DEF Admitted
<1>2. /\ AreWindows(windows)
      /\ s.start = windows[1].start /\ s.end = windows[Len(windows)].end
  BY <1>1, PinnedWindows DEF IsReturns, AreWindowPins
<1>3. /\ DOMAIN periods = 1..Len(windows)
      /\ \A i \in 1..Len(windows) :
            periods[i].start = windows[i].start /\ periods[i].end = windows[i].end
  <2>1. DOMAIN periods = 1..Len(periods) /\ DOMAIN windows = 1..Len(windows)
    BY LenProperties DEF IsReturns, AreWindowPins
  <2> QED BY <1>1, <2>1 DEF SourceIsPinned, PeriodIsPinned
<1>4. there = {i \in 1..Len(windows) : day \in windows[i].start..windows[i].end}
  BY <1>3
<1> HIDE DEF there
<1>5. CASE day \in s.start..s.end
  <2>1. PICK i \in 1..Len(windows) : day \in windows[i].start..windows[i].end
    BY <1>2, <1>5, EveryDayHasAWindow
  <2>2. \A j \in there : j = i
    BY <1>2, <1>4, <2>1, WindowsAreApart
  <2>3. there = {i}
    BY <1>4, <2>1, <2>2
  <2> QED BY <1>5, <2>3, FS_Singleton DEF there
<1>6. CASE day \notin s.start..s.end
  <2>1. ASSUME NEW i \in there PROVE FALSE
    <3>1. i \in 1..Len(windows) /\ day \in windows[i].start..windows[i].end
      BY <1>4, <2>1
    <3>2. /\ windows[i].start \in Int /\ windows[i].end \in Int
          /\ 1 \in 1..Len(windows) /\ Len(windows) \in 1..Len(windows)
      BY <1>2, <3>1 DEF AreWindows
    <3>3. windows[1].start \in Int /\ windows[Len(windows)].end \in Int
      BY <1>2, <3>2 DEF AreWindows
    <3>4. windows[1].start <= windows[i].start
              /\ windows[i].end <= windows[Len(windows)].end
      BY <1>2, <3>1, WindowsAreWithin
    <3>5. day \in windows[1].start..windows[Len(windows)].end
      BY <3>1, <3>2, <3>3, <3>4
    <3> QED BY <1>2, <1>6, <3>5
  <2>2. there = {}
    BY <2>1
  <2> QED BY <1>6, <2>2, FS_EmptySet DEF there
<1> QED BY <1>5, <1>6

\* What a cell shows as a figure is a figure of the source.
LEMMA FiguresHold ==
    ASSUME NEW d
    PROVE  FiguresAreTheSources(d)
<1> SUFFICES ASSUME Admitted(d), NEW cell \in d.cells
             PROVE  /\ cell.type # "TEXT" => cell.at.of # "facts"
                    /\ cell.type = "TEXT" /\ cell.at.of \in {"series", "period"} =>
                          cell.at.field \notin DOMAIN FieldType
                    /\ cell.at.of = "series" /\ d.source.status = "BLOCKED"
                          /\ cell.at.field = "cumulative" => cell.value = Absent
  BY DEF FiguresAreTheSources
<1>1. CellIsSourced(d, cell)
  BY DEF Admitted
<1>2. cell.type # "TEXT" => IsFinancial(cell.at)
  BY <1>1 DEF CellIsSourced
<1>3. cell.type = "TEXT" => ~IsFinancial(cell.at)
  BY <1>1 DEF CellIsSourced
<1>4. cell.value = ValueAt(d, cell.at)
  BY <1>1 DEF CellIsSourced
<1>5. d.source.status = "BLOCKED" => d.source.cumulative = Absent
  BY DEF Admitted, SourceIsPinned
<1>6. cell.at.of = "series" /\ cell.at.field = "cumulative" =>
         ValueAt(d, cell.at) = d.source.cumulative
  BY DEF ValueAt
<1> QED BY <1>2, <1>3, <1>4, <1>5, <1>6 DEF IsFinancial

\* The members of a period are as many as their portfolios.
LEMMA PopulationHolds ==
    ASSUME NEW d, IsReturns(d)
    PROVE  PopulationIsCounted(d)
<1> SUFFICES ASSUME Admitted(d), NEW i \in DOMAIN d.source.periods
             PROVE  d.source.periods[i].count
                      = Cardinality({m.portfolio
                          : m \in Range(d.source.periods[i].members)})
  BY DEF PopulationIsCounted
<1> DEFINE period == d.source.periods[i]
           members == period.members
           portfolios == [k \in DOMAIN members |-> members[k].portfolio]
<1>1. members \in Seq(Range(members)) /\ d.source.periods \in Seq(Range(d.source.periods))
      /\ d.selection.windows \in Seq(Range(d.selection.windows))
  BY DEF IsReturns, AreWindowPins
<1>2. i \in DOMAIN d.selection.windows
  <2>1. /\ DOMAIN d.source.periods = 1..Len(d.source.periods)
        /\ DOMAIN d.selection.windows = 1..Len(d.selection.windows)
    BY <1>1, LenProperties
  <2> QED BY <2>1 DEF Admitted, SourceIsPinned
<1>3. MembersArePinned(period)
  BY <1>2 DEF Admitted, SourceIsPinned, PeriodIsPinned
<1>4. Len(members) = period.count /\ ~SequenceHasDuplicates(portfolios)
  BY <1>3 DEF MembersArePinned
<1>5. Len(members) \in Nat /\ DOMAIN members = 1..Len(members)
  BY <1>1, LenProperties
<1>6. portfolios \in [1..Len(members) -> Range(portfolios)]
  BY <1>5 DEF Range
<1>7. Range(portfolios) = {m.portfolio : m \in Range(members)}
  BY DEF Range
<1> HIDE DEF portfolios
<1>8. portfolios \in Seq(Range(portfolios)) /\ DOMAIN portfolios = 1..Len(members)
  BY <1>5, <1>6, FunctionIsSeq
<1>9. Len(portfolios) = Len(members)
  BY <1>5, <1>8, LenProperties
<1> QED BY <1>4, <1>7, <1>9 DEF SequenceHasDuplicates

\* The windows of a product are those of the primary whose months it covers.
LEMMA ProductsHold ==
    ASSUME NEW d, IsReturns(d)
    PROVE  ProductsCoverThePrimary(d)
<1> SUFFICES ASSUME Admitted(d), d.version = "v2", NEW i \in DOMAIN d.products
             PROVE  LET product == d.products[i]
                        months == {Month(day)
                            : day \in product.selection.start..product.selection.end}
                        shared == {w \in Range(d.selection.windows)
                            : Month(w.start) \in months}
                    IN  /\ Cardinality(shared) = Len(product.selection.windows)
                        /\ shared = Range(product.selection.windows)
                        /\ product.kind = "TRAILING_RETURN" =>
                              Last(product.selection.windows) = Last(d.selection.windows)
  BY DEF ProductsCoverThePrimary
<1> DEFINE product == d.products[i]
           s == product.selection
           own == s.windows
           all == d.selection.windows
           months == {Month(day) : day \in s.start..s.end}
           shared == {w \in Range(all) : Month(w.start) \in months}
<1>1. ProductIsPinned(d.selection, product) /\ SelectionIsPinned(d.selection)
  BY DEF Admitted, ProductsArePinned
<1>2. AreWindows(all) /\ d.selection.end = all[Len(all)].end
  BY <1>1, PinnedWindows DEF IsReturns, AreWindowPins
<1>3. AreWindows(own) /\ s.start = own[1].start /\ s.end = own[Len(own)].end
  BY <1>1, PinnedWindows DEF IsReturns, AreWindowPins, ProductIsPinned
<1>4. MonthsAreComplete(own) /\ WindowsAreThePrimarys(all, own)
      /\ (product.kind = "TRAILING_RETURN" => s.end = d.selection.end)
  BY <1>1 DEF ProductIsPinned, HorizonIsRight
<1> HIDE DEF own, all, s
<1>5. /\ Len(own) \in Nat \ {0} /\ Len(all) \in Nat \ {0}
      /\ DOMAIN own = 1..Len(own) /\ DOMAIN all = 1..Len(all)
      /\ own \in Seq(Range(own)) /\ all \in Seq(Range(all))
  BY <1>2, <1>3, LenProperties DEF AreWindows
<1>6. PICK a \in 1..Len(all) : /\ a + Len(own) - 1 <= Len(all)
                               /\ SubSeq(all, a, a + Len(own) - 1) = own
  BY <1>4, <1>5 DEF WindowsAreThePrimarys
<1>7. ASSUME NEW j \in 1..Len(own)
      PROVE  a + j - 1 \in 1..Len(all) /\ own[j] = all[a + j - 1]
  <2>1. /\ a + j - 1 \in 1..Len(all) /\ a + Len(own) - 1 \in 1..Len(all)
        /\ j \in 1..((a + Len(own) - 1) - a + 1)
    BY <1>5, <1>6
  <2>2. SubSeq(all, a, a + Len(own) - 1)[j] = all[a + j - 1]
    BY <1>5, <1>6, <2>1, SubSeqProperties
  <2> QED BY <1>6, <2>1, <2>2
<1>8. \A j \in 1..Len(own) : /\ own[j].start \in Int /\ own[j].end \in Int
                             /\ own[j].start <= own[j].end
  BY <1>3 DEF AreWindows
<1>9. ASSUME NEW w \in Range(all), Month(w.start) \in months
      PROVE  w \in Range(own)
  <2>1. PICK day \in s.start..s.end : Month(w.start) = Month(day)
    BY <1>9
  <2>2. PICK j \in 1..Len(own) : day \in own[j].start..own[j].end
    BY <1>3, <2>1, EveryDayHasAWindow
  <2>3. PICK k \in 1..Len(all) : w = all[k]
    BY <1>5 DEF Range
  <2> DEFINE month == Month(own[j].start)
  <2>4. own[j].start = FirstOf(month) /\ own[j].end = LastOf(month)
    BY <1>4, <1>5 DEF MonthsAreComplete
  <2>5. /\ day \in Int /\ month \in Int
        /\ w.start \in Int /\ w.end \in Int /\ w.start <= w.end
    <3>1. /\ day \in Int /\ own[j].start \in Int
          /\ w.start \in Int /\ w.end \in Int /\ w.start <= w.end
      BY <1>2, <1>8, <2>2, <2>3 DEF AreWindows
    <3>2. month \in Int
      BY <3>1, MonthsAreNumbered
    <3> QED BY <3>1, <3>2
  <2> HIDE DEF month
  <2>6. Month(day) = month
    BY <2>2, <2>4, <2>5, DaysOfAMonth
  <2>7. w.start \in own[j].start..own[j].end
    BY <2>1, <2>4, <2>5, <2>6, DaysOfAMonth
  <2>8. w.start \in w.start..w.end
    BY <2>5
  <2>9. a + j - 1 \in 1..Len(all) /\ own[j] = all[a + j - 1]
    BY <1>7
  <2>10. k = a + j - 1
    BY <1>2, <2>3, <2>5, <2>7, <2>8, <2>9, WindowsAreApart
  <2>11. w = own[j]
    BY <2>3, <2>9, <2>10
  <2> QED BY <1>5, <2>11 DEF Range
<1>10. ASSUME NEW w \in Range(own)
       PROVE  w \in Range(all) /\ Month(w.start) \in months
  <2>1. PICK j \in 1..Len(own) : w = own[j]
    BY <1>5 DEF Range
  <2>2. w \in Range(all)
    BY <1>5, <1>7, <2>1 DEF Range
  <2>3. own[1].start <= own[j].start /\ own[j].end <= own[Len(own)].end
    BY <1>3, WindowsAreWithin
  <2>4. 1 \in 1..Len(own) /\ Len(own) \in 1..Len(own)
    BY <1>5
  <2>5. w.start \in s.start..s.end
    BY <1>3, <1>8, <2>1, <2>3, <2>4
  <2> QED BY <2>2, <2>5
<1>11. shared = Range(own)
  BY <1>9, <1>10
<1>12. Cardinality(Range(own)) = Len(own)
  <2>1. ASSUME NEW j \in 1..Len(own), NEW k \in 1..Len(own), own[j] = own[k]
        PROVE  j = k
    <3>1. own[j].start \in own[j].start..own[j].end /\ own[j].start \in Int
      BY <1>8
    <3> QED BY <1>3, <2>1, <3>1, WindowsAreApart
  <2>2. OnlyOnce(own)
    BY <1>5, <2>1 DEF OnlyOnce
  <2> QED BY <1>5, <2>2, OnceIsCounted DEF SequenceHasDuplicates
<1>13. ASSUME product.kind = "TRAILING_RETURN" PROVE own[Len(own)] = all[Len(all)]
  <2> DEFINE k == a + Len(own) - 1
  <2>1. k \in 1..Len(all) /\ own[Len(own)] = all[k] /\ Len(all) \in 1..Len(all)
    BY <1>5, <1>7
  <2> HIDE DEF k
  <2>2. all[k].end = all[Len(all)].end
    BY <1>2, <1>3, <1>4, <1>13, <2>1 DEF s
  <2>3. /\ all[k].end \in all[k].start..all[k].end /\ all[k].end \in Int
        /\ all[k].end \in all[Len(all)].start..all[Len(all)].end
    BY <1>2, <2>1, <2>2 DEF AreWindows
  <2>4. k = Len(all)
    BY <1>2, <2>1, <2>3, WindowsAreApart
  <2> QED BY <2>1, <2>4
<1>14. Last(own) = own[Len(own)] /\ Last(all) = all[Len(all)]
  BY DEF Last
<1> HIDE DEF shared, product
<1>15. /\ Cardinality(shared) = Len(own) /\ shared = Range(own)
       /\ product.kind = "TRAILING_RETURN" => Last(own) = Last(all)
  BY <1>11, <1>12, <1>13, <1>14
<1> QED BY <1>15 DEF shared, product, own, all, s

-----------------------------------------------------------------------------
(* Linked contributions *)

\* The rows a table of an admitted dataset shows.
ShownIn(d, table) ==
    d.tables[CHOOSE i \in DOMAIN d.tables : d.tables[i].id = table].rows

\* A table shows what its rows are of, in order.
LEMMA LinkedTableShows ==
    ASSUME NEW package, IsLinked(package), LinkedIsAdmitted(package),
           NEW table \in Range(LinkedTableNames)
    PROVE  LET d == package.data
               rows == ShownIn(d, table)
           IN  /\ rows \in Seq(Range(rows)) /\ Len(rows) = Len(LinkedRows(d, table))
               /\ \A i \in DOMAIN rows, column \in Range(LinkedColumns[table]) :
                     rows[i][column].value = LinkedRows(d, table)[i][column]
<1> DEFINE d == package.data
           k == CHOOSE i \in DOMAIN d.tables : d.tables[i].id = table
<1>1. /\ [i \in DOMAIN d.tables |-> d.tables[i].id] = LinkedTableNames
      /\ \A i \in DOMAIN d.tables : LinkedTableIsExact(d, d.tables[i])
  BY DEF LinkedIsAdmitted, LinkedContentIsAdmitted, LinkedTablesAreExact
<1>2. PICK i \in DOMAIN LinkedTableNames : LinkedTableNames[i] = table
  BY DEF Range
<1>3. i \in DOMAIN d.tables /\ d.tables[i].id = table
  BY <1>1, <1>2
<1>4. k \in DOMAIN d.tables /\ d.tables[k].id = table
  BY <1>3
<1>5. ShownIn(d, table) = d.tables[k].rows
  BY DEF ShownIn
<1> HIDE DEF k
<1> DEFINE rows == d.tables[k].rows
<1>6. LinkedTableIsExact(d, d.tables[k])
  BY <1>1, <1>4
<1>7. /\ Len(rows) = Len(LinkedRows(d, table))
      /\ \A j \in DOMAIN rows, column \in Range(LinkedColumns[table]) :
            LinkedCellIsSourced(d, rows[j][column], table, j, column)
  BY <1>4, <1>6 DEF LinkedTableIsExact
<1>8. rows \in Seq(Range(rows))
  BY <1>4 DEF IsLinked
<1> HIDE DEF d, rows
<1>9. \A j \in DOMAIN rows, column \in Range(LinkedColumns[table]) :
         rows[j][column].value = LinkedRows(d, table)[j][column]
  BY <1>7, Zenon DEF LinkedCellIsSourced
<1> QED BY <1>5, <1>7, <1>8, <1>9 DEF d, rows

\* As many as are in each of some sets that share nothing, one set after the
\* other.
LEMMA CountedOneByOne ==
    ASSUME NEW I, NEW T, IsFiniteSet(T), NEW part \in [I -> SUBSET T], NEW count,
           \A i \in I : count[i] = Cardinality(part[i]),
           \A t \in T : \E i \in I : t \in part[i],
           \A i, j \in I : i # j => part[i] \cap part[j] = {}
    PROVE  Cardinality(UNION {{i} \X (1..count[i]) : i \in I}) = Cardinality(T)
<1> DEFINE S == UNION {{i} \X (1..count[i]) : i \in I}
           place == [i \in I |-> CHOOSE f : f \in Bijection(1..count[i], part[i])]
           f == [x \in S |-> place[x[1]][x[2]]]
<1>1. ASSUME NEW i \in I PROVE place[i] \in Bijection(1..count[i], part[i])
  <2>1. IsFiniteSet(part[i])
    <3>1. part[i] \in SUBSET T
      OBVIOUS
    <3> QED BY <3>1, FS_Subset
  <2>2. Bijection(1..count[i], part[i]) # {}
    BY <2>1, FS_CardinalityType DEF ExistsBijection
  <2> QED BY <2>2
<1> HIDE DEF place
<1>a. ASSUME NEW i \in I
      PROVE  /\ \A k \in 1..count[i] : place[i][k] \in part[i]
             /\ \A k, l \in 1..count[i] : place[i][k] = place[i][l] => k = l
             /\ \A t \in part[i] : \E k \in 1..count[i] : place[i][k] = t
  <2> DEFINE g == place[i]
  <2>1. g \in Bijection(1..count[i], part[i])
    BY <1>1
  <2> HIDE DEF g
  <2>2. /\ g \in [1..count[i] -> part[i]] /\ IsInjective(g)
        /\ \A t \in part[i] : \E k \in 1..count[i] : g[k] = t
    BY <2>1 DEF Bijection, Injection, Surjection
  <2>3. \A k, l \in 1..count[i] : g[k] = g[l] => k = l
    BY <2>2 DEF IsInjective
  <2> QED BY <2>2, <2>3 DEF g
<1>2. \A x \in S : x[1] \in I /\ x[2] \in 1..count[x[1]] /\ x = <<x[1], x[2]>>
  OBVIOUS
<1>3. \A i \in I : \A k \in 1..count[i] :
         <<i, k>> \in S /\ <<i, k>>[1] = i /\ <<i, k>>[2] = k
  OBVIOUS
<1> HIDE DEF S
<1>4. \A x \in S : f[x] \in part[x[1]]
  BY <1>a, <1>2
<1>5. f \in [S -> T]
  BY <1>2, <1>4
<1>6. ASSUME NEW x \in S, NEW y \in S, f[x] = f[y] PROVE x = y
  <2>1. x[1] = y[1]
    BY <1>2, <1>4, <1>6
  <2>2. place[x[1]][x[2]] = place[x[1]][y[2]]
    BY <1>6, <2>1
  <2>3. x[2] = y[2]
    BY <1>a, <1>2, <2>1, <2>2
  <2>4. x = <<x[1], x[2]>> /\ y = <<y[1], y[2]>>
    BY <1>2
  <2> QED BY <2>1, <2>3, <2>4
<1>7. ASSUME NEW t \in T PROVE \E x \in S : f[x] = t
  <2>1. PICK i \in I : t \in part[i]
    OBVIOUS
  <2>2. PICK k \in 1..count[i] : place[i][k] = t
    BY <1>a, <2>1
  <2> DEFINE x == <<i, k>>
  <2>3. x \in S /\ x[1] = i /\ x[2] = k
    BY <1>3
  <2> HIDE DEF x
  <2>4. f[x] = t
    BY <2>2, <2>3
  <2> QED BY <2>3, <2>4
<1> HIDE DEF f
<1>8. f \in Injection(S, T) /\ f \in Surjection(S, T)
  BY <1>5, <1>6, <1>7 DEF Injection, IsInjective, Surjection
<1>9. Cardinality(S) = Cardinality(T)
  BY <1>8, FS_Injection
<1> QED BY <1>9 DEF S

\* The windows of an admitted dataset are windows.
LEMMA LinkedWindowsAre ==
    ASSUME NEW package, IsLinked(package), LinkedIsAdmitted(package)
    PROVE  AreWindows(package.data.selection.windows)
<1> DEFINE windows == package.data.selection.windows
<1>1. /\ windows \in Seq(Range(windows)) /\ windows # <<>> /\ Consecutive(windows)
      /\ \A w \in Range(windows) : {w.start, w.end} \subseteq Int /\ w.start <= w.end
  BY DEF IsLinked, AreWindowPins, LinkedIsAdmitted, LinkedContentIsAdmitted,
         LinkedSourceIsPinned, LinkedWindows
<1> HIDE DEF windows
<1>2. Len(windows) \in Nat \ {0} /\ DOMAIN windows = 1..Len(windows)
  BY <1>1, LenProperties, EmptySeq
<1>3. \A i \in 1..Len(windows) : windows[i] \in Range(windows)
  BY <1>2 DEF Range
<1> QED BY <1>1, <1>2, <1>3 DEF AreWindows, windows

\* Members and periods are shown in agreement, and no window is left out.
LEMMA LinkedPopulationHolds ==
    ASSUME NEW package, IsLinked(package)
    PROVE  LinkedPopulationIsShown(package)
<1> SUFFICES ASSUME LinkedIsAdmitted(package) PROVE LinkedPopulationIsShown(package)
  BY DEF LinkedPopulationIsShown
<1> DEFINE d == package.data
           members == d.source.members
           periods == d.source.periods
           windows == d.selection.windows
           shownMembers == ShownIn(d, "LinkedContribution")
           shownPeriods == ShownIn(d, "LinkedPeriods")
           Of(i) == PeriodsOf(d.source, members[i].portfolio)
<1>1. LinkedPopulation(d.source) /\ PeriodVector(d.source, windows)
  BY DEF LinkedIsAdmitted, LinkedContentIsAdmitted, LinkedSourceIsPinned
<1>2. /\ members \in Seq(Range(members)) /\ periods \in Seq(Range(periods))
      /\ windows \in Seq(Range(windows))
  BY DEF IsLinked, AreWindowPins
<1>3. /\ DOMAIN members = 1..Len(members) /\ Len(members) \in Nat
      /\ DOMAIN periods = 1..Len(periods) /\ Len(periods) \in Nat
      /\ DOMAIN windows = 1..Len(windows) /\ Len(windows) \in Nat
  BY <1>2, LenProperties
<1>4. /\ shownMembers \in Seq(Range(shownMembers)) /\ Len(shownMembers) = Len(members)
      /\ \A i \in DOMAIN shownMembers :
             shownMembers[i]["count"].value = members[i]["count"]
  <2>1. "LinkedContribution" \in Range(LinkedTableNames)
    <3>1. 2 \in DOMAIN LinkedTableNames /\ LinkedTableNames[2] = "LinkedContribution"
      BY DEF LinkedTableNames
    <3> QED BY <3>1 DEF Range
  <2>2. "count" \in Range(LinkedColumns["LinkedContribution"])
    <3>1. /\ 3 \in DOMAIN LinkedColumns["LinkedContribution"]
          /\ LinkedColumns["LinkedContribution"][3] = "count"
      BY DEF LinkedColumns
    <3> QED BY <3>1 DEF Range
  <2>3. LinkedRows(d, "LinkedContribution") = members
    BY DEF LinkedRows
  <2> HIDE DEF d, members
  <2> QED BY ZenonT(30), <2>1, <2>2, <2>3, LinkedTableShows DEF d
<1>5. /\ shownPeriods \in Seq(Range(shownPeriods)) /\ Len(shownPeriods) = Len(periods)
      /\ \A i \in DOMAIN shownPeriods :
             shownPeriods[i]["start"].value = periods[i]["start"]
  <2>1. "LinkedPeriods" \in Range(LinkedTableNames)
    <3>1. 3 \in DOMAIN LinkedTableNames /\ LinkedTableNames[3] = "LinkedPeriods"
      BY DEF LinkedTableNames
    <3> QED BY <3>1 DEF Range
  <2>2. "start" \in Range(LinkedColumns["LinkedPeriods"])
    <3>1. /\ 2 \in DOMAIN LinkedColumns["LinkedPeriods"]
          /\ LinkedColumns["LinkedPeriods"][2] = "start"
      BY DEF LinkedColumns
    <3> QED BY <3>1 DEF Range
  <2>3. LinkedRows(d, "LinkedPeriods") = periods
    BY DEF LinkedRows
  <2> HIDE DEF d, periods
  <2> QED BY ZenonT(30), <2>1, <2>2, <2>3, LinkedTableShows DEF d
<1>6. DOMAIN shownMembers = DOMAIN members /\ DOMAIN shownPeriods = DOMAIN periods
  BY <1>3, <1>4, <1>5, LenProperties
<1> HIDE DEF shownMembers, shownPeriods
<1>7. IsFiniteSet(DOMAIN periods) /\ Cardinality(DOMAIN periods) = Len(periods)
  <2>1. 1 \in Int /\ Len(periods) \in Int /\ Len(periods) >= 0
    BY <1>3
  <2>2. /\ IsFiniteSet(1..Len(periods))
        /\ Cardinality(1..Len(periods)) = IF 1 > Len(periods)
               THEN 0 ELSE Len(periods) - 1 + 1
    BY <2>1, FS_Interval
  <2> QED BY <1>3, <2>1, <2>2
<1>8. \A i \in DOMAIN members : Of(i) \subseteq DOMAIN periods
          /\ members[i].count = Cardinality(Of(i))
  BY <1>1 DEF LinkedPopulation, MemberCounts, MemberCountsOfMembers, PeriodsOf
<1>9. \A i, j \in DOMAIN members : members[i].portfolio = members[j].portfolio => i = j
  <2> DEFINE names == [i \in DOMAIN members |-> members[i].portfolio]
  <2>1. names \in [1..Len(members) -> Range(names)] /\ ~SequenceHasDuplicates(names)
    BY <1>1, <1>3 DEF Range, LinkedPopulation
  <2>2. DOMAIN names = DOMAIN members
            /\ \A i \in DOMAIN members : names[i] = members[i].portfolio
    OBVIOUS
  <2> HIDE DEF names
  <2>3. names \in Seq(Range(names))
    BY <1>3, <2>1, FunctionIsSeq
  <2>4. OnlyOnce(names)
    BY <2>1, <2>3, OnceIsCounted DEF SequenceHasDuplicates
  <2> QED BY <2>2, <2>4 DEF OnlyOnce
<1>10. Portfolios(periods) = Portfolios(members)
  BY <1>1 DEF LinkedPopulation, MemberCounts
<1>11. Cardinality(UNION {{i} \X (1..shownMembers[i]["count"].value)
           : i \in DOMAIN shownMembers})
         = Len(shownPeriods)
  <2> DEFINE I == DOMAIN members  T == DOMAIN periods
             part == [i \in I |-> Of(i)]
             count == [i \in I |-> shownMembers[i]["count"].value]
  <2>1. part \in [I -> SUBSET T]
    BY <1>8
  <2>2. \A i \in I : count[i] = Cardinality(part[i])
    BY <1>4, <1>6, <1>8
  <2>3. \A t \in T : \E i \in I : t \in part[i]
    BY ZenonT(30), <1>10 DEF Portfolios, PeriodsOf
  <2>4. \A i, j \in I : i # j => part[i] \cap part[j] = {}
    BY <1>9 DEF PeriodsOf
  <2>5. \A i \in I : count[i] = shownMembers[i]["count"].value
    OBVIOUS
  <2> HIDE DEF I, T, part, count
  <2>6. Cardinality(UNION {{i} \X (1..count[i]) : i \in I}) = Cardinality(T)
    <3>1. IsFiniteSet(T)
      BY <1>7 DEF T
    <3> QED BY <2>1, <2>2, <2>3, <2>4, <3>1, CountedOneByOne
  <2>7. UNION {{i} \X (1..count[i]) : i \in I}
          = UNION {{i} \X (1..shownMembers[i]["count"].value) : i \in I}
    BY <2>5
  <2>8. DOMAIN shownMembers = I
    BY <1>6 DEF I
  <2> QED BY <1>5, <1>7, <2>6, <2>7, <2>8 DEF T
<1>12. ASSUME NEW i \in DOMAIN members PROVE members[i].count \in 1..Len(windows)
  <2>1. /\ IsFiniteSet(Of(i)) /\ Cardinality(Of(i)) \in Nat
        /\ members[i].count = Cardinality(Of(i))
    <3>1. Of(i) \in SUBSET (DOMAIN periods)
      BY <1>8
    <3> QED BY <1>7, <1>8, <3>1, FS_Subset, FS_CardinalityType
  <2>2. Cardinality(Of(i)) # 0
    <3>1. Of(i) # {}
      BY <1>10 DEF Portfolios, PeriodsOf
    <3> QED BY <2>1, <3>1, FS_EmptySet
  <2>3. Cardinality(Of(i)) <= Len(windows)
    <3> DEFINE SameDays(k, j) == windows[j].start = periods[k].start
                   /\ windows[j].end = periods[k].end
               f == [k \in Of(i) |-> CHOOSE j \in 1..Len(windows) : SameDays(k, j)]
               triples == [k \in DOMAIN periods |->
                             <<periods[k].portfolio, periods[k].start, periods[k].end>>]
    <3>1. ASSUME NEW k \in DOMAIN periods PROVE \E j \in 1..Len(windows) : SameDays(k, j)
      <4>1. PICK w \in Range(windows) : w.start = periods[k].start
                /\ w.end = periods[k].end
        BY <1>1 DEF PeriodVector
      <4>2. PICK j \in DOMAIN windows : w = windows[j]
        BY DEF Range
      <4> QED BY <1>3, <4>1, <4>2
    <3>2. \A k \in Of(i) : k \in DOMAIN periods
              /\ periods[k].portfolio = members[i].portfolio
      BY DEF PeriodsOf
    <3>3. \A k, l \in DOMAIN periods : triples[k] = triples[l] => k = l
      <4>1. triples \in [1..Len(periods) -> Range(triples)]
                /\ ~SequenceHasDuplicates(triples)
        BY <1>1, <1>3 DEF Range, LinkedPopulation
      <4>2. DOMAIN triples = DOMAIN periods
        OBVIOUS
      <4> HIDE DEF triples
      <4>3. triples \in Seq(Range(triples))
        BY <1>3, <4>1, FunctionIsSeq
      <4> QED BY <4>1, <4>2, <4>3, OnceIsCounted
              DEF OnlyOnce, SequenceHasDuplicates
    <3>4. \A k \in Of(i) : f[k] \in 1..Len(windows) /\ SameDays(k, f[k])
      BY <3>1, <3>2
    <3>5. f \in [Of(i) -> 1..Len(windows)]
      BY <3>1, <3>2
    <3>6. \A k, l \in Of(i) : f[k] = f[l] => k = l
      <4> SUFFICES ASSUME NEW k \in Of(i), NEW l \in Of(i), f[k] = f[l] PROVE k = l
        OBVIOUS
      <4>1. SameDays(k, f[k]) /\ SameDays(l, f[k])
        BY ZenonT(30), <3>4
      <4>2. periods[k].start = periods[l].start /\ periods[k].end = periods[l].end
        BY <4>1
      <4>3. triples[k] = triples[l]
        BY <3>2, <4>2
      <4> QED BY <3>2, <3>3, <4>3
    <3> HIDE DEF f, Of, Is, triples
    <3>7. f \in Injection(Of(i), 1..Len(windows))
      BY <3>5, <3>6 DEF Injection, IsInjective
    <3>8. IsFiniteSet(1..Len(windows)) /\ Cardinality(1..Len(windows)) = Len(windows)
      <4>1. 1 \in Int /\ Len(windows) \in Int /\ Len(windows) >= 0
        BY <1>3
      <4>2. /\ IsFiniteSet(1..Len(windows))
            /\ Cardinality(1..Len(windows)) = IF 1 > Len(windows)
                   THEN 0 ELSE Len(windows) - 1 + 1
        BY <4>1, FS_Interval
      <4> QED BY <4>1, <4>2
    <3> QED BY <3>7, <3>8, FS_Injection
  <2> HIDE DEF Of
  <2> QED BY <1>3, <2>1, <2>2, <2>3
<1>13. \A i \in DOMAIN shownMembers : shownMembers[i]["count"].value \in 1..Len(windows)
  BY <1>4, <1>6, <1>12
<1>14. {shownPeriods[i]["start"].value : i \in DOMAIN shownPeriods}
         = {windows[i].start : i \in DOMAIN windows}
  <2>1. \A i \in DOMAIN periods : \E j \in DOMAIN windows :
            windows[j].start = periods[i].start
    BY <1>1 DEF PeriodVector, Range
  <2>2. \A j \in DOMAIN windows : \E i \in DOMAIN periods :
            windows[j].start = periods[i].start
    BY <1>1 DEF PeriodVector, Range
  <2>3. {shownPeriods[i]["start"].value : i \in DOMAIN shownPeriods}
          = {periods[i].start : i \in DOMAIN periods}
    BY <1>5, <1>6
  <2>4. /\ {periods[i].start : i \in DOMAIN periods}
             \subseteq {windows[i].start : i \in DOMAIN windows}
        /\ {windows[i].start : i \in DOMAIN windows}
             \subseteq {periods[i].start : i \in DOMAIN periods}
    <3> HIDE DEF windows, periods
    <3> QED BY <2>1, <2>2
  <2> QED BY <2>3, <2>4
<1> QED BY <1>11, <1>13, <1>14, Zenon
        DEF LinkedPopulationIsShown, ShownIn, shownMembers, shownPeriods

\* The least and the greatest of some numbers.
LEMMA LeastIs ==
    ASSUME NEW S, S \subseteq Int, NEW x \in S, \A y \in S : x <= y
    PROVE  Min(S) = x
<1> DEFINE m == CHOOSE z \in S : \A y \in S : z <= y
<1>1. m \in S /\ \A y \in S : m <= y
  OBVIOUS
<1>2. Min(S) = m
  BY DEF Min
<1> HIDE DEF m
<1>3. m <= x /\ x <= m /\ m \in Int /\ x \in Int
  BY <1>1
<1> QED BY <1>2, <1>3

\* The same of the greatest.
LEMMA GreatestIs ==
    ASSUME NEW S, S \subseteq Int, NEW x \in S, \A y \in S : y <= x
    PROVE  Max(S) = x
<1> DEFINE m == CHOOSE z \in S : \A y \in S : z >= y
<1>0. x >= x /\ \A y \in S : x >= y
  OBVIOUS
<1>1. m \in S /\ \A y \in S : m >= y
  BY <1>0
<1>2. Max(S) = m
  BY DEF Max
<1> HIDE DEF m
<1>3. m >= x /\ x >= m /\ m \in Int /\ x \in Int
  BY <1>0, <1>1
<1> QED BY <1>2, <1>3

\* The custody is of the days shown.
LEMMA CustodyHolds ==
    ASSUME NEW package, IsLinked(package)
    PROVE  CustodyCoversWhatIsShown(package)
<1> SUFFICES ASSUME LinkedIsAdmitted(package) PROVE CustodyCoversWhatIsShown(package)
  BY DEF CustodyCoversWhatIsShown
<1> DEFINE d == package.data
           request == d.selection.request
           windows == d.selection.windows
           periods == Range(d.source.periods)
           scope == package.archive.scope
<1>1. /\ RequestIsAnswered(request, d.source) /\ LinkedWindows(d.selection)
      /\ PeriodVector(d.source, windows) /\ d.tenant = d.selection.tenant
  BY DEF LinkedIsAdmitted, LinkedContentIsAdmitted, LinkedSourceIsPinned
<1>2. scope = CustodyScope(d, request.composite, request.start, request.end)
  BY DEF LinkedIsAdmitted, LinkedCustodyIsBound, CustodyIsBound
<1>3. /\ scope.start = request.start /\ scope.end = request.end
      /\ scope.retention = request.end /\ scope.tenant = d.tenant
      /\ scope.composite = request.composite
  BY <1>2 DEF CustodyScope
<1>4. request.composite = d.source.composite
  BY <1>1 DEF RequestIsAnswered, IsLinked
<1>5. AreWindows(windows)
  BY LinkedWindowsAre
<1>6. windows[1].start = request.start /\ windows[Len(windows)].end = request.end
  BY <1>1 DEF LinkedWindows, Last
<1>7. /\ {p.start : p \in periods} = {windows[i].start : i \in 1..Len(windows)}
      /\ {p.end : p \in periods} = {windows[i].end : i \in 1..Len(windows)}
  <2>1. DOMAIN windows = 1..Len(windows)
    BY <1>5, LenProperties DEF AreWindows
  <2>2. \A p \in periods : \E i \in 1..Len(windows) :
           windows[i].start = p.start /\ windows[i].end = p.end
    BY SMTT(30), <1>1, <2>1 DEF PeriodVector, Range
  <2>3. \A i \in 1..Len(windows) : \E p \in periods :
           windows[i].start = p.start /\ windows[i].end = p.end
    BY SMTT(30), <1>1, <2>1 DEF PeriodVector, Range
  <2> HIDE DEF windows, periods
  <2>4. /\ \A p \in periods : \E i \in 1..Len(windows) : p.start = windows[i].start
        /\ \A i \in 1..Len(windows) : \E p \in periods : windows[i].start = p.start
    BY <2>2, <2>3
  <2>5. /\ \A p \in periods : \E i \in 1..Len(windows) : p.end = windows[i].end
        /\ \A i \in 1..Len(windows) : \E p \in periods : windows[i].end = p.end
    BY <2>2, <2>3
  <2>6. {p.start : p \in periods} = {windows[i].start : i \in 1..Len(windows)}
    BY <2>4
  <2>7. {p.end : p \in periods} = {windows[i].end : i \in 1..Len(windows)}
    BY <2>5
  <2> QED BY <2>6, <2>7
<1>8. /\ 1 \in 1..Len(windows) /\ Len(windows) \in 1..Len(windows)
      /\ \A i \in 1..Len(windows) : windows[i].start \in Int /\ windows[i].end \in Int
  BY <1>5 DEF AreWindows
<1>9. \A i \in 1..Len(windows) : /\ windows[1].start <= windows[i].start
                                /\ windows[i].end <= windows[Len(windows)].end
  BY <1>5, WindowsAreWithin
<1> HIDE DEF windows
<1>10. Min({windows[i].start : i \in 1..Len(windows)}) = windows[1].start
  <2>1. /\ {windows[i].start : i \in 1..Len(windows)} \subseteq Int
        /\ windows[1].start \in {windows[i].start : i \in 1..Len(windows)}
        /\ \A y \in {windows[i].start : i \in 1..Len(windows)} : windows[1].start <= y
    BY <1>8, <1>9
  <2> QED BY <2>1, LeastIs
<1>11. Max({windows[i].end : i \in 1..Len(windows)}) = windows[Len(windows)].end
  <2>1. /\ {windows[i].end : i \in 1..Len(windows)} \subseteq Int
        /\ windows[Len(windows)].end \in {windows[i].end : i \in 1..Len(windows)}
        /\ \A y \in {windows[i].end : i \in 1..Len(windows)} :
              y <= windows[Len(windows)].end
    BY <1>8, <1>9
  <2> QED BY <2>1, GreatestIs
<1> QED BY <1>1, <1>3, <1>4, <1>6, <1>7, <1>10, <1>11 DEF CustodyCoversWhatIsShown

-----------------------------------------------------------------------------
(* Eligibility reviews *)

\* The rows of a month are those it gives, when rows name their month.
LEMMA RowsOfAMonth ==
    ASSUME NEW S, NEW ss \in Seq(Seq(S)),
           \A k \in DOMAIN ss : \A row \in Range(ss[k]) : row[1] = k,
           NEW k \in DOMAIN ss
    PROVE  RowsOfMonth(FlattenSeq(ss), k) = Range(ss[k])
<1>1. Range(FlattenSeq(ss)) = UNION {Range(ss[i]) : i \in DOMAIN ss}
  BY FlattenedRange
<1>2. ASSUME NEW row PROVE row \in RowsOfMonth(FlattenSeq(ss), k) <=> row \in Range(ss[k])
  BY <1>1 DEF RowsOfMonth
<1> QED BY <1>2

\* A month of an admitted review is the month its selection pins.
LEMMA MonthsArePinned ==
    ASSUME NEW d, IsEligibility(d), EligibilityIsAdmitted(d), NEW k \in DOMAIN d.months
    PROVE  LET m == d.months[k]
               pin == d.selection.months[k]
           IN  /\ MonthIsPinned(m, pin, d.selection, d.version)
               /\ m.proposal.month = pin.month /\ EligibilityPopulation(m.proposal)
               /\ IsProposal(m.proposal, d.version)
               /\ m.lineage \in Seq(Range(m.lineage))
<1> DEFINE m == d.months[k]
           pin == d.selection.months[k]
<1>1. MonthIsPinned(m, pin, d.selection, d.version)
  BY DEF EligibilityIsAdmitted, EligibilityIsPinned
<1>2. m \in Range(d.months)
  BY DEF Range
<1>3. m.lineage \in Seq(Range(m.lineage))
          /\ \A p \in Range(ProposalsOf(m)) : IsProposal(p, d.version)
  BY <1>2 DEF IsEligibility
<1>4. m.proposal \in Range(ProposalsOf(m))
  <2> DEFINE rest == [i \in DOMAIN m.lineage |-> m.lineage[i].proposal]
             S == {m.proposal} \cup {m.lineage[i].proposal : i \in DOMAIN m.lineage}
  <2>1. rest \in Seq(S) /\ <<m.proposal>> \in Seq(S)
    <3>1. Len(m.lineage) \in Nat /\ DOMAIN m.lineage = 1..Len(m.lineage)
      BY <1>3, LenProperties
    <3>2. rest \in [1..Len(m.lineage) -> S]
      BY <3>1
    <3> QED BY <3>1, <3>2, IsASeq
  <2> HIDE DEF rest, S
  <2>2. Range(<<m.proposal>> \o rest) = Range(<<m.proposal>>) \cup Range(rest)
    BY ZenonT(30), <2>1, RangeConcatenation
  <2> QED BY <2>2, TupleOfOne DEF ProposalsOf, rest
<1>5. m.proposal.month = pin.month /\ EligibilityPopulation(m.proposal)
  BY <1>1 DEF MonthIsPinned, ProposalIsPinned
<1> HIDE DEF m, pin
<1> QED BY <1>1, <1>3, <1>4, <1>5 DEF m, pin

\* The months of an admitted review are those of its horizon.
LEMMA MonthsAreTheHorizon ==
    ASSUME NEW d, IsEligibility(d), EligibilityIsAdmitted(d),
           NEW month \in Month(d.selection.start)..Month(d.selection.end)
    PROVE  \E k \in DOMAIN d.months : d.months[k].proposal.month = month
<1> DEFINE s == d.selection
           first == Month(s.start)
           N == Month(s.end) - first + 1
           k == month - first + 1
<1>1. first \in Int /\ Month(s.end) \in Int /\ month \in first..Month(s.end)
  BY MonthsAreNumbered DEF IsEligibility
<1>2. k \in 1..N /\ first + k - 1 = month
  <2> HIDE DEF first
  <2> QED BY <1>1
<1>3. DOMAIN s.months = 1..N /\ s.months[k].month = first + k - 1
  <2> DEFINE f == [i \in DOMAIN s.months |-> s.months[i].month]
             g == [i \in 1..N |-> first + i - 1]
  <2>1. f = g
    BY DEF EligibilityIsAdmitted, EligibilityIsPinned, EligibilityHorizon
  <2>2. DOMAIN f = DOMAIN s.months /\ DOMAIN g = 1..N
    OBVIOUS
  <2>3. DOMAIN s.months = 1..N
    BY <2>1, <2>2
  <2>4. f[k] = s.months[k].month /\ g[k] = first + k - 1
    BY <1>2, <2>3
  <2> HIDE DEF f, g
  <2> QED BY <2>1, <2>3, <2>4
<1>4. DOMAIN d.months = DOMAIN s.months
  <2>1. /\ d.months \in Seq(Range(d.months)) /\ s.months \in Seq(Range(s.months))
        /\ Len(d.months) = Len(s.months)
    BY DEF IsEligibility, EligibilityIsAdmitted, EligibilityIsPinned
  <2> QED BY <2>1, LenProperties
<1> HIDE DEF first, N, k, s
<1>5. k \in DOMAIN d.months /\ s.months[k].month = month
  BY <1>2, <1>3, <1>4
<1>6. d.months[k].proposal.month = s.months[k].month
  BY <1>5, MonthsArePinned DEF s
<1> QED BY <1>5, <1>6

\* A month's rows of its members, of their assessments and of the reasons.
LEMMA TablesOfAReview ==
    ASSUME NEW d, EligibilityIsAdmitted(d)
    PROVE  /\ d.tables["Members"]
                = FlattenSeq([k \in DOMAIN d.months |-> MemberRows(d.months[k], k)])
           /\ d.tables["EligibilityAssessments"]
                = FlattenSeq([k \in DOMAIN d.months |-> AssessmentRows(d.months[k], k)])
           /\ d.tables["EligibilityReasons"]
                = FlattenSeq([k \in DOMAIN d.months |-> ReasonsOf(d.months[k], k)])
<1> DEFINE T == EligibilityTables(d)
<1>1. /\ {"Members", "EligibilityAssessments", "EligibilityReasons"} \subseteq DOMAIN T
      /\ T["Members"] = OverMonths(d, MemberRows)
      /\ T["EligibilityAssessments"] = OverMonths(d, AssessmentRows)
      /\ T["EligibilityReasons"] = ReasonRows(d)
  BY DEF EligibilityTables, EligibilityTableSet
<1>2. \A table \in DOMAIN T : d.tables[table] = T[table]
  BY DEF EligibilityIsAdmitted
<1> HIDE DEF T
<1> QED BY <1>1, <1>2 DEF OverMonths, ReasonRows

\* The members of a month are its expected portfolios, each of them once.
LEMMA MembersAreExpected ==
    ASSUME NEW p, EligibilityPopulation(p), NEW version, IsProposal(p, version)
    PROVE  /\ {m.portfolio : m \in Range(p.members)} = Range(p.expected)
           /\ Len(p.members) = Len(p.expected) /\ Len(p.members) \in Nat
           /\ DOMAIN p.members = 1..Len(p.members)
           /\ Cardinality(Range(p.expected)) = Len(p.expected)
           /\ \A i \in DOMAIN p.members :
                 /\ DOMAIN p.members[i].assessments = 1..3
                 /\ p.members[i] \in Range(p.members)
<1>1. p.members \in Seq(Range(p.members)) /\ p.expected \in Seq(Range(p.expected))
  BY DEF IsProposal
<1>2. /\ Len(p.members) \in Nat /\ DOMAIN p.members = 1..Len(p.members)
      /\ Len(p.expected) \in Nat /\ DOMAIN p.expected = 1..Len(p.expected)
  BY <1>1, LenProperties
<1>3. DOMAIN MemberIds(p.members) = DOMAIN p.members
         /\ \A i \in DOMAIN p.members : MemberIds(p.members)[i] = p.members[i].portfolio
  BY DEF MemberIds
<1>4. MemberIds(p.members) = p.expected
  BY DEF EligibilityPopulation
<1>5. Len(p.members) = Len(p.expected)
  BY <1>2, <1>3, <1>4
<1>6. {m.portfolio : m \in Range(p.members)} = Range(p.expected)
  BY <1>3, <1>4 DEF Range
<1>7. Cardinality(Range(p.expected)) = Len(p.expected)
  BY DEF EligibilityPopulation, SequenceHasDuplicates
<1>8. ASSUME NEW i \in DOMAIN p.members
      PROVE  /\ DOMAIN p.members[i].assessments = 1..3
             /\ p.members[i] \in Range(p.members)
  <2> DEFINE rules == [j \in DOMAIN p.members[i].assessments |->
                          p.members[i].assessments[j].rule]
  <2>1. rules = AssessmentOrder
    BY DEF EligibilityPopulation
  <2>2. DOMAIN rules = DOMAIN p.members[i].assessments
    OBVIOUS
  <2>3. DOMAIN AssessmentOrder = 1..3
    BY DEF AssessmentOrder
  <2> HIDE DEF rules
  <2> QED BY <2>1, <2>2, <2>3 DEF Range
<1> QED BY <1>2, <1>5, <1>6, <1>7, <1>8

\* A month shows a row for each of its members.
LEMMA MembersAreShown ==
    ASSUME NEW d, IsEligibility(d), EligibilityIsAdmitted(d), NEW k \in DOMAIN d.months
    PROVE  Cardinality(RowsOfMonth(d.tables["Members"], k))
             = Len(d.months[k].proposal.members)
<1> DEFINE members(i) == d.months[i].proposal.members
           ss == [i \in DOMAIN d.months |-> MemberRows(d.months[i], i)]
<1>1. DOMAIN d.months = 1..Len(d.months) /\ Len(d.months) \in Nat
  BY LenProperties DEF IsEligibility
<1>2. ASSUME NEW i \in DOMAIN d.months
      PROVE  /\ Len(members(i)) \in Nat /\ ss[i] \in Seq(Nat \X Nat)
             /\ Range(ss[i]) = {i} \X (1..Len(members(i)))
  <2>1. Len(members(i)) \in Nat /\ DOMAIN members(i) = 1..Len(members(i))
    BY MonthsArePinned, MembersAreExpected
  <2>2. ss[i] = [j \in 1..Len(members(i)) |-> <<i, j>>]
    BY <2>1 DEF MemberRows
  <2> HIDE DEF ss, members
  <2>3. i \in Nat /\ ss[i] \in [1..Len(members(i)) -> Nat \X Nat]
    BY <1>1, <2>1, <2>2
  <2>4. ss[i] \in Seq(Nat \X Nat)
    BY <2>1, <2>3, IsASeq
  <2>5. Range(ss[i]) = {<<i, j>> : j \in 1..Len(members(i))}
    BY <2>2 DEF Range
  <2> QED BY <2>1, <2>4, <2>5
<1>3. d.tables["Members"] = FlattenSeq(ss)
  BY TablesOfAReview
<1> HIDE DEF ss, members
<1>4. ss \in Seq(Seq(Nat \X Nat)) /\ DOMAIN ss = DOMAIN d.months
  <2>1. DOMAIN ss = DOMAIN d.months /\ ss \in [1..Len(d.months) -> Seq(Nat \X Nat)]
    BY <1>1, <1>2 DEF ss
  <2> QED BY <1>1, <2>1, IsASeq
<1>5. RowsOfMonth(d.tables["Members"], k) = {k} \X (1..Len(members(k)))
  <2>1. \A i \in DOMAIN ss : \A row \in Range(ss[i]) : row[1] = i
    BY <1>2, <1>4
  <2>2. RowsOfMonth(FlattenSeq(ss), k) = Range(ss[k])
    BY <1>4, <2>1, RowsOfAMonth
  <2> QED BY <1>2, <1>3, <2>2
<1>6. Cardinality({k} \X (1..Len(members(k)))) = Len(members(k))
  <2>1. IsFiniteSet({k}) /\ Cardinality({k}) = 1
    BY FS_Singleton
  <2>2. IsFiniteSet(1..Len(members(k)))
            /\ Cardinality(1..Len(members(k))) = Len(members(k))
    BY <1>2, CountedUp
  <2>3. Cardinality({k} \X (1..Len(members(k))))
          = Cardinality({k}) * Cardinality(1..Len(members(k)))
    BY <2>1, <2>2, FS_Product
  <2>4. Len(members(k)) \in Nat
    BY <1>2
  <2> QED BY <2>1, <2>2, <2>3, <2>4
<1> QED BY <1>5, <1>6 DEF members

\* Every member is counted under its status.
LEMMA StatusesAreCounted ==
    ASSUME NEW p, EligibilityPopulation(p), NEW version, IsProposal(p, version)
    PROVE  p.counts.included + p.counts.excluded + p.counts.pending = Len(p.expected)
<1> DEFINE n == Len(p.members)
           Of(status) == {i \in 1..n : p.members[i].status = status}
<1>1. n \in Nat /\ n = Len(p.expected) /\ DOMAIN p.members = 1..n
  BY MembersAreExpected
<1>2. ASSUME NEW i \in 1..n
      PROVE  p.members[i].status \in {"INCLUDED", "EXCLUDED", "PENDING_REVIEW"}
  BY <1>1, MembersAreExpected DEF IsProposal
<1>3. IsFiniteSet(1..n) /\ Cardinality(1..n) = n
  BY <1>1, CountedUp
<1>4. /\ p.counts.included = Cardinality(Of("INCLUDED"))
      /\ p.counts.excluded = Cardinality(Of("EXCLUDED"))
      /\ p.counts.pending = Cardinality(Of("PENDING_REVIEW"))
  BY <1>1 DEF EligibilityPopulation, PopulationCounts, WithStatus
<1> HIDE DEF n
<1>5. /\ Of("INCLUDED") \cap Of("EXCLUDED") = {}
      /\ (Of("INCLUDED") \cup Of("EXCLUDED")) \cap Of("PENDING_REVIEW") = {}
      /\ Of("INCLUDED") \cup Of("EXCLUDED") \cup Of("PENDING_REVIEW") = 1..n
  BY <1>2
<1>6. \A status : IsFiniteSet(Of(status)) /\ Cardinality(Of(status)) \in Nat
  <2> SUFFICES ASSUME NEW status
               PROVE  IsFiniteSet(Of(status)) /\ Cardinality(Of(status)) \in Nat
    OBVIOUS
  <2>1. Of(status) \in SUBSET (1..n)
    OBVIOUS
  <2> QED BY <1>3, <2>1, FS_Subset, FS_CardinalityType
<1> HIDE DEF Of
<1>7. /\ IsFiniteSet(Of("INCLUDED") \cup Of("EXCLUDED"))
      /\ Cardinality(Of("INCLUDED") \cup Of("EXCLUDED"))
           = Cardinality(Of("INCLUDED")) + Cardinality(Of("EXCLUDED")) - Cardinality({})
  BY <1>5, <1>6, FS_Union
<1>8. Cardinality((Of("INCLUDED") \cup Of("EXCLUDED")) \cup Of("PENDING_REVIEW"))
        = Cardinality(Of("INCLUDED") \cup Of("EXCLUDED"))
            + Cardinality(Of("PENDING_REVIEW")) - Cardinality({})
  BY <1>5, <1>6, <1>7, FS_Union
<1>9. Cardinality({}) = 0
  BY FS_EmptySet
<1>10. Cardinality(1..n)
         = Cardinality((Of("INCLUDED") \cup Of("EXCLUDED")) \cup Of("PENDING_REVIEW"))
  BY <1>5
<1> DEFINE a == Cardinality(Of("INCLUDED"))
           b == Cardinality(Of("EXCLUDED"))
           c == Cardinality(Of("PENDING_REVIEW"))
           ab == Cardinality(Of("INCLUDED") \cup Of("EXCLUDED"))
           abc == Cardinality((Of("INCLUDED") \cup Of("EXCLUDED"))
                                 \cup Of("PENDING_REVIEW"))
<1>11. a \in Nat /\ b \in Nat /\ c \in Nat /\ ab = a + b - 0 /\ abc = ab + c - 0
  BY <1>6, <1>7, <1>8, <1>9
<1>12. n = abc /\ p.counts.included = a /\ p.counts.excluded = b /\ p.counts.pending = c
  BY <1>3, <1>4, <1>10
<1> HIDE DEF a, b, c, ab, abc
<1>13. a + b + c = n
  BY <1>11, <1>12
<1> QED BY <1>1, <1>12, <1>13

\* A month shows three assessments of each of its members.
LEMMA AssessmentsAreShown ==
    ASSUME NEW d, IsEligibility(d), EligibilityIsAdmitted(d), NEW k \in DOMAIN d.months
    PROVE  Cardinality(RowsOfMonth(d.tables["EligibilityAssessments"], k))
             = 3 * Len(d.months[k].proposal.members)
<1> DEFINE members(i) == d.months[i].proposal.members
           ss == [i \in DOMAIN d.months |-> AssessmentRows(d.months[i], i)]
           S == Nat \X Nat \X Nat
           n == Len(members(k))
           shown == {<<k, j, a>> : j \in 1..n, a \in 1..3}
<1>1. DOMAIN d.months = 1..Len(d.months) /\ Len(d.months) \in Nat
  BY LenProperties DEF IsEligibility
<1>2. ASSUME NEW i \in DOMAIN d.months
      PROVE  /\ Len(members(i)) \in Nat /\ ss[i] \in Seq(S)
             /\ Range(ss[i]) = {<<i, j, a>> : j \in 1..Len(members(i)), a \in 1..3}
  <2> DEFINE rows == [j \in 1..Len(members(i)) |-> [a \in 1..3 |-> <<i, j, a>>]]
  <2>1. /\ Len(members(i)) \in Nat /\ DOMAIN members(i) = 1..Len(members(i))
        /\ \A j \in DOMAIN members(i) : DOMAIN members(i)[j].assessments = 1..3
    BY MonthsArePinned, MembersAreExpected
  <2>2. AssessmentRows(d.months[i], i) = FlattenSeq(rows)
    <3>1. [j \in DOMAIN members(i) |->
             [a \in DOMAIN members(i)[j].assessments |-> <<i, j, a>>]] = rows
      BY <2>1
    <3> QED BY <3>1 DEF AssessmentRows
  <2>3. ASSUME NEW j \in 1..Len(members(i))
        PROVE  rows[j] \in Seq(S) /\ Range(rows[j]) = {<<i, j, a>> : a \in 1..3}
    <3>1. i \in Nat /\ j \in Nat /\ rows[j] = [a \in 1..3 |-> <<i, j, a>>]
      BY <1>1, <2>1
    <3> HIDE DEF rows
    <3>2. rows[j] \in [1..3 -> S]
      BY <3>1
    <3>3. rows[j] \in Seq(S)
      BY <3>2, FunctionIsSeq
    <3> QED BY <3>1, <3>3 DEF Range
  <2>4. rows \in Seq(Seq(S)) /\ DOMAIN rows = 1..Len(members(i))
    <3>1. DOMAIN rows = 1..Len(members(i)) /\ rows \in [1..Len(members(i)) -> Seq(S)]
      BY <2>3
    <3> QED BY <2>1, <3>1, IsASeq
  <2> HIDE DEF rows, S, members
  <2>5. /\ FlattenSeq(rows) \in Seq(S)
        /\ Range(FlattenSeq(rows)) = UNION {Range(rows[j]) : j \in DOMAIN rows}
    BY <2>4, FlattenedRange
  <2>6. Range(FlattenSeq(rows)) = {<<i, j, a>> : j \in 1..Len(members(i)), a \in 1..3}
    BY <2>3, <2>4, <2>5
  <2> QED BY <2>1, <2>2, <2>5, <2>6
<1>3. d.tables["EligibilityAssessments"] = FlattenSeq(ss)
  BY TablesOfAReview
<1> HIDE DEF ss, members, S
<1>4. ss \in Seq(Seq(S)) /\ DOMAIN ss = DOMAIN d.months
  <2>1. DOMAIN ss = DOMAIN d.months /\ ss = [i \in DOMAIN d.months |-> ss[i]]
    BY DEF ss
  <2>2. \A i \in DOMAIN d.months : ss[i] \in Seq(S)
    BY <1>2
  <2>3. ss \in [1..Len(d.months) -> Seq(S)]
    BY <1>1, <2>1, <2>2
  <2> QED BY <1>1, <2>1, <2>3, FunctionIsSeq
<1>5. RowsOfMonth(d.tables["EligibilityAssessments"], k) = shown
  <2>1. \A i \in DOMAIN ss : \A row \in Range(ss[i]) : row[1] = i
    BY <1>2, <1>4
  <2>2. RowsOfMonth(FlattenSeq(ss), k) = Range(ss[k])
    BY <1>4, <2>1, RowsOfAMonth
  <2> QED BY SMTT(30), <1>2, <1>3, <2>2
<1>6. n \in Nat
  BY <1>2
<1> HIDE DEF n
<1>7. Cardinality(shown) = n * 3
  <2> DEFINE pairs == (1..n) \X (1..3)
             f == [pair \in pairs |-> <<k, pair[1], pair[2]>>]
  <2>1. IsFiniteSet(1..n) /\ Cardinality(1..n) = n
    BY <1>6, CountedUp
  <2>2. IsFiniteSet(1..3) /\ Cardinality(1..3) = 3
    BY CountedUp
  <2>3. IsFiniteSet(pairs) /\ Cardinality(pairs) = n * 3
    <3>1. /\ IsFiniteSet(pairs)
          /\ Cardinality(pairs) = Cardinality(1..n) * Cardinality(1..3)
      BY <2>1, <2>2, FS_Product
    <3> QED BY <2>1, <2>2, <3>1
  <2>4. f \in [pairs -> shown]
    OBVIOUS
  <2>5. \A x, y \in pairs : f[x] = f[y] => x = y
    OBVIOUS
  <2>6. ASSUME NEW row \in shown PROVE \E x \in pairs : f[x] = row
    <3>1. PICK j \in 1..n, a \in 1..3 : row = <<k, j, a>>
      OBVIOUS
    <3>2. <<j, a>> \in pairs /\ f[<<j, a>>] = <<k, j, a>>
      OBVIOUS
    <3> HIDE DEF f, pairs
    <3> QED BY <3>1, <3>2
  <2> HIDE DEF f, pairs, shown
  <2>7. f \in Bijection(pairs, shown)
    BY <2>4, <2>5, <2>6 DEF Bijection, Injection, Surjection, IsInjective
  <2> QED BY <2>3, <2>7, FS_Bijection DEF ExistsBijection
<1> QED BY <1>5, <1>6, <1>7 DEF n, members

\* A sequence that shows nothing is empty.
LEMMA NothingIsShown ==
    ASSUME NEW S, NEW s \in Seq(S)
    PROVE  s = <<>> <=> Range(s) = {}
<1>1. Len(s) \in Nat /\ DOMAIN s = 1..Len(s) /\ (s = <<>> <=> Len(s) = 0)
  BY LenProperties, EmptySeq
<1>2. Len(s) # 0 => 1 \in DOMAIN s
  BY <1>1
<1>3. Len(s) = 0 => DOMAIN s = {}
  BY <1>1
<1> QED BY <1>1, <1>2, <1>3 DEF Range

\* A place in a flattening of flattenings shows what one of them shows.
LEMMA FlattenedTwice ==
    ASSUME NEW S, NEW sss \in Seq(Seq(Seq(S)))
    PROVE  /\ FlattenSeq(FlattenSeq(sss)) \in Seq(S)
           /\ FlattenSeq(FlattenSeq(sss)) = <<>> <=>
                 \A i \in DOMAIN sss : \A j \in DOMAIN sss[i] : sss[i][j] = <<>>
<1> DEFINE ss == FlattenSeq(sss)
           s == FlattenSeq(ss)
<1>1. ss \in Seq(Seq(S)) /\ Range(ss) = UNION {Range(sss[i]) : i \in DOMAIN sss}
  BY FlattenedRange
<1>2. s \in Seq(S) /\ Range(s) = UNION {Range(ss[q]) : q \in DOMAIN ss}
  <2> HIDE DEF ss
  <2> QED BY <1>1, FlattenedRange
<1> HIDE DEF s, ss
<1>3. s = <<>> <=> Range(s) = {}
  BY <1>2, NothingIsShown
<1>4. Range(s) = {} <=> \A q \in DOMAIN ss : Range(ss[q]) = {}
  BY <1>2
<1>5. ASSUME NEW q \in DOMAIN ss PROVE ss[q] \in Seq(S)
          /\ (ss[q] = <<>> <=> Range(ss[q]) = {})
  BY <1>1, ElementOfSeq, NothingIsShown, LenProperties
<1>6. Range(s) = {} <=> \A t \in Range(ss) : t = <<>>
  BY <1>4, <1>5 DEF Range
<1>7. (\A t \in Range(ss) : t = <<>>) <=>
         \A i \in DOMAIN sss : \A j \in DOMAIN sss[i] : sss[i][j] = <<>>
  <2>1. \A i \in DOMAIN sss : \A j \in DOMAIN sss[i] : sss[i][j] \in Range(sss[i])
    BY DEF Range
  <2>2. \A i \in DOMAIN sss : \A t \in Range(sss[i]) : \E j \in DOMAIN sss[i] :
            t = sss[i][j]
    BY DEF Range
  <2>3. \A t : t \in Range(ss) <=> \E i \in DOMAIN sss : t \in Range(sss[i])
    BY <1>1
  <2>4. ASSUME \A t \in Range(ss) : t = <<>>,
               NEW i \in DOMAIN sss, NEW j \in DOMAIN sss[i]
        PROVE  sss[i][j] = <<>>
    <3>1. sss[i][j] \in Range(ss)
      BY <2>1, <2>3
    <3> QED BY <2>4, <3>1
  <2>5. ASSUME \A i \in DOMAIN sss : \A j \in DOMAIN sss[i] : sss[i][j] = <<>>,
               NEW t \in Range(ss)
        PROVE  t = <<>>
    <3>1. PICK i \in DOMAIN sss : t \in Range(sss[i])
      BY <2>3
    <3>2. PICK j \in DOMAIN sss[i] : t = sss[i][j]
      BY <2>2, <3>1
    <3> QED BY <2>5, <3>2
  <2> QED BY <2>4, <2>5, Zenon
<1> QED BY <1>2, <1>3, <1>6, <1>7 DEF s, ss

\* A month shows a row for each failure and each unknown, or one that there
\* are none.
LEMMA ReasonsAreOccurrences ==
    ASSUME NEW m, NEW k \in Nat, NEW version, EligibilityPopulation(m.proposal),
           IsProposal(m.proposal, version)
    PROVE  /\ ReasonsOf(m, k) \in Seq({k} \X Nat \X Nat \X Nat \X Nat)
           /\ IF \E member \in Range(m.proposal.members) :
                    \E a \in Range(member.assessments) : a.failures + a.unknowns > 0
              THEN \A row \in Range(ReasonsOf(m, k)) : row[2] # 0
              ELSE Range(ReasonsOf(m, k)) = Range(NoReasons(k))
<1> DEFINE members == m.proposal.members
           n == Len(members)
           S == {k} \X (Nat \ {0}) \X Nat \X Nat \X Nat
           failures(i, j) == members[i].assessments[j].failures
           unknowns(i, j) == members[i].assessments[j].unknowns
           cell(i, j) == [o \in 1..failures(i, j) |-> <<k, i, j, 1, o>>]
                            \o [o \in 1..unknowns(i, j) |-> <<k, i, j, 2, o>>]
           sss == [i \in 1..n |-> [j \in 1..3 |-> cell(i, j)]]
<1>1. /\ n \in Nat /\ DOMAIN members = 1..n
      /\ \A i \in 1..n : DOMAIN members[i].assessments = 1..3
             /\ members[i] \in Range(members)
  BY MembersAreExpected
<1>2. ASSUME NEW i \in 1..n, NEW j \in 1..3
      PROVE  failures(i, j) \in Nat /\ unknowns(i, j) \in Nat
  <2>1. members[i].assessments[j] \in Range(members[i].assessments)
    BY <1>1 DEF Range
  <2> QED BY <1>1, <2>1 DEF IsProposal
<1>3. Occurrences(m, k) = FlattenSeq(FlattenSeq(sss))
  <2> DEFINE own == [i \in DOMAIN members |-> [j \in DOMAIN members[i].assessments |->
                LET assessment == members[i].assessments[j]
                IN  [o \in 1..assessment.failures |-> <<k, i, j, 1, o>>]
                      \o [o \in 1..assessment.unknowns |-> <<k, i, j, 2, o>>]]]
  <2>1. own = sss
    <3>1. \A i \in 1..n : own[i] = sss[i]
      BY <1>1
    <3>2. DOMAIN own = 1..n /\ DOMAIN sss = 1..n
      BY <1>1
    <3>3. own = [i \in 1..n |-> own[i]] /\ sss = [i \in 1..n |-> sss[i]]
      BY <3>2
    <3> HIDE DEF own, sss, n
    <3> QED BY <3>1, <3>3
  <2> HIDE DEF sss
  <2> QED BY <2>1 DEF Occurrences
<1> HIDE DEF n, members
<1>4. ASSUME NEW i \in 1..n, NEW j \in 1..3
      PROVE  /\ cell(i, j) \in Seq(S)
             /\ cell(i, j) = <<>> <=> failures(i, j) + unknowns(i, j) = 0
  <2> DEFINE f == [o \in 1..failures(i, j) |-> <<k, i, j, 1, o>>]
             u == [o \in 1..unknowns(i, j) |-> <<k, i, j, 2, o>>]
  <2>1. failures(i, j) \in Nat /\ unknowns(i, j) \in Nat
    BY <1>2
  <2>2. i \in Nat \ {0} /\ j \in Nat
    BY <1>1
  <2> HIDE DEF failures, unknowns
  <2>3. f \in [1..failures(i, j) -> S] /\ u \in [1..unknowns(i, j) -> S]
    BY <2>1, <2>2
  <2>4. /\ f \in Seq(S) /\ DOMAIN f = 1..failures(i, j)
        /\ u \in Seq(S) /\ DOMAIN u = 1..unknowns(i, j)
    <3> HIDE DEF f, u, S
    <3> QED BY <2>1, <2>3, FunctionIsSeq
  <2> HIDE DEF f, u, S
  <2>5. Len(f) = failures(i, j) /\ Len(u) = unknowns(i, j)
    BY <2>1, <2>4, LenProperties
  <2>6. f \o u \in Seq(S) /\ Len(f \o u) = failures(i, j) + unknowns(i, j)
    BY <2>4, <2>5, ConcatProperties
  <2>7. f \o u = <<>> <=> Len(f \o u) = 0
    BY <2>6, EmptySeq
  <2> QED BY <2>6, <2>7 DEF f, u
<1>5. sss \in Seq(Seq(Seq(S))) /\ DOMAIN sss = 1..n
         /\ \A i \in 1..n : DOMAIN sss[i] = 1..3 /\ \A j \in 1..3 : sss[i][j] = cell(i, j)
  <2> HIDE DEF cell, S
  <2>1. ASSUME NEW i \in 1..n PROVE sss[i] \in Seq(Seq(S))
    <3>1. sss[i] \in [1..3 -> Seq(S)]
      BY <1>4
    <3> HIDE DEF sss
    <3> QED BY <3>1, FunctionIsSeq
  <2>2. /\ DOMAIN sss = 1..n /\ sss \in [1..n -> Seq(Seq(S))]
        /\ \A i \in 1..n : DOMAIN sss[i] = 1..3 /\ \A j \in 1..3 : sss[i][j] = cell(i, j)
    BY <2>1
  <2> HIDE DEF sss
  <2> QED BY <1>1, <2>2, FunctionIsSeq
<1> HIDE DEF sss, cell, S
<1>6. /\ Occurrences(m, k) \in Seq(S)
      /\ Occurrences(m, k) = <<>> <=>
            \A i \in 1..n : \A j \in 1..3 : failures(i, j) + unknowns(i, j) = 0
  <2>1. /\ FlattenSeq(FlattenSeq(sss)) \in Seq(S)
        /\ FlattenSeq(FlattenSeq(sss)) = <<>> <=>
              \A i \in DOMAIN sss : \A j \in DOMAIN sss[i] : sss[i][j] = <<>>
    BY <1>5, FlattenedTwice
  <2> HIDE DEF failures, unknowns
  <2>2. (\A i \in DOMAIN sss : \A j \in DOMAIN sss[i] : sss[i][j] = <<>>)
           <=> \A i \in 1..n : \A j \in 1..3 : cell(i, j) = <<>>
    BY <1>5, ZenonT(30)
  <2>3. (\A i \in 1..n : \A j \in 1..3 : cell(i, j) = <<>>)
           <=> \A i \in 1..n : \A j \in 1..3 : failures(i, j) + unknowns(i, j) = 0
    BY <1>4, Zenon
  <2> QED BY <1>3, <2>1, <2>2, <2>3
<1>7. (\E member \in Range(members) : \E a \in Range(member.assessments) :
          a.failures + a.unknowns > 0)
        <=> \E i \in 1..n : \E j \in 1..3 : failures(i, j) + unknowns(i, j) > 0
  BY <1>1 DEF Range
<1>8. (\E i \in 1..n : \E j \in 1..3 : failures(i, j) + unknowns(i, j) > 0)
        <=> Occurrences(m, k) # <<>>
  <2> HIDE DEF failures, unknowns
  <2>1. \A i \in 1..n, j \in 1..3 :
           failures(i, j) + unknowns(i, j) > 0 <=> failures(i, j) + unknowns(i, j) # 0
    BY <1>2
  <2> QED BY <1>6, <2>1
<1>9. NoReasons(k) \in Seq({k} \X Nat \X Nat \X Nat \X Nat)
  <2>1. <<k, 0, 0, 0, 0>> \in {k} \X Nat \X Nat \X Nat \X Nat
    OBVIOUS
  <2> QED BY <2>1 DEF NoReasons
<1>10. Occurrences(m, k) \in Seq({k} \X Nat \X Nat \X Nat \X Nat)
  <2>1. S \subseteq {k} \X Nat \X Nat \X Nat \X Nat
    BY DEF S
  <2> QED BY <1>6, <2>1, SeqMonotonic
<1>11. \A row \in Range(Occurrences(m, k)) : row[2] # 0
  <2>1. \A row \in S : row[2] # 0
    BY DEF S
  <2>2. Range(Occurrences(m, k)) \subseteq S
    BY <1>6, LenProperties, ElementOfSeq DEF Range
  <2> QED BY <2>1, <2>2
<1> QED BY <1>7, <1>8, <1>9, <1>10, <1>11 DEF ReasonsOf, members

\* Every month of the horizon is shown with each of its members, of their
\* statuses and of their reasons.
LEMMA PopulationIsShown ==
    ASSUME NEW d, IsEligibility(d)
    PROVE  EligibilityIsAccounted(d)
<1> SUFFICES ASSUME EligibilityIsAdmitted(d),
                    NEW month \in Month(d.selection.start)..Month(d.selection.end)
             PROVE  \E k \in DOMAIN d.months :
                LET p == d.months[k].proposal
                    reasons == RowsOfMonth(d.tables["EligibilityReasons"], k)
                IN  /\ p.month = month
                    /\ Cardinality(RowsOfMonth(d.tables["Members"], k))
                         = Cardinality({m.portfolio : m \in Range(p.members)})
                    /\ {m.portfolio : m \in Range(p.members)} = Range(p.expected)
                    /\ p.counts.included + p.counts.excluded + p.counts.pending
                         = Len(p.expected)
                    /\ Cardinality(RowsOfMonth(d.tables["EligibilityAssessments"], k))
                         = 3 * Len(p.expected)
                    /\ IF \E m \in Range(p.members) : \E a \in Range(m.assessments) :
                             a.failures + a.unknowns > 0
                       THEN \A row \in reasons : row[2] # 0
                       ELSE reasons = Range(NoReasons(k))
  BY DEF EligibilityIsAccounted
<1>1. PICK k \in DOMAIN d.months : d.months[k].proposal.month = month
  BY MonthsAreTheHorizon
<1> DEFINE p == d.months[k].proposal
<1>2. EligibilityPopulation(p) /\ IsProposal(p, d.version)
  BY MonthsArePinned
<1>3. /\ {m.portfolio : m \in Range(p.members)} = Range(p.expected)
      /\ Len(p.members) = Len(p.expected)
             /\ Cardinality(Range(p.expected)) = Len(p.expected)
  BY <1>2, MembersAreExpected
<1>4. Cardinality(RowsOfMonth(d.tables["Members"], k)) = Len(p.members)
  BY MembersAreShown
<1>5. p.counts.included + p.counts.excluded + p.counts.pending = Len(p.expected)
  BY <1>2, StatusesAreCounted
<1>6. Cardinality(RowsOfMonth(d.tables["EligibilityAssessments"], k)) = 3 * Len(p.members)
  BY AssessmentsAreShown
<1>7. RowsOfMonth(d.tables["EligibilityReasons"], k) = Range(ReasonsOf(d.months[k], k))
  <2> DEFINE ss == [i \in DOMAIN d.months |-> ReasonsOf(d.months[i], i)]
             Rows(i) == {i} \X Nat \X Nat \X Nat \X Nat
             S == Nat \X Nat \X Nat \X Nat \X Nat
  <2>1. DOMAIN d.months = 1..Len(d.months) /\ Len(d.months) \in Nat
    BY LenProperties DEF IsEligibility
  <2>2. ASSUME NEW i \in DOMAIN d.months
        PROVE  ss[i] \in Seq(S) /\ \A row \in Range(ss[i]) : row[1] = i
    <3>1. i \in Nat
      BY <2>1
    <3>2. EligibilityPopulation(d.months[i].proposal)
             /\ IsProposal(d.months[i].proposal, d.version)
      BY MonthsArePinned
    <3>3. ss[i] = ReasonsOf(d.months[i], i)
      OBVIOUS
    <3> HIDE DEF ss, Rows
    <3>4. ss[i] \in Seq(Rows(i))
      BY <3>1, <3>2, <3>3, ReasonsAreOccurrences DEF Rows
    <3>5. Rows(i) \subseteq S /\ \A row \in Rows(i) : row[1] = i
      BY <3>1 DEF Rows
    <3>6. Range(ss[i]) \subseteq Rows(i)
      BY <3>4, LenProperties, ElementOfSeq DEF Range
    <3> HIDE DEF S
    <3> QED BY <3>4, <3>5, <3>6, SeqMonotonic
  <2>3. DOMAIN ss = DOMAIN d.months /\ d.tables["EligibilityReasons"] = FlattenSeq(ss)
           /\ ss[k] = ReasonsOf(d.months[k], k)
    BY TablesOfAReview
  <2>4. ss = [i \in DOMAIN d.months |-> ss[i]]
    OBVIOUS
  <2> HIDE DEF ss, S
  <2>5. ss \in [1..Len(d.months) -> Seq(S)]
    BY <2>1, <2>2, <2>4
  <2>6. ss \in Seq(Seq(S))
    BY <2>1, <2>5, FunctionIsSeq
  <2> QED BY <2>2, <2>3, <2>6, RowsOfAMonth
<1>8. k \in Nat
  BY LenProperties DEF IsEligibility
<1>9. IF \E m \in Range(p.members) : \E a \in Range(m.assessments) :
            a.failures + a.unknowns > 0
      THEN \A row \in Range(ReasonsOf(d.months[k], k)) : row[2] # 0
      ELSE Range(ReasonsOf(d.months[k], k)) = Range(NoReasons(k))
  BY <1>2, <1>8, ReasonsAreOccurrences
<1> QED BY <1>1, <1>3, <1>4, <1>5, <1>6, <1>7, <1>9, Zenon

\* The proposals of a month are its own and those of what it corrects.
LEMMA ProposalsAre ==
    ASSUME NEW m, m.lineage \in Seq(Range(m.lineage))
    PROVE  LET n == Len(m.lineage)
           IN  /\ n \in Nat /\ DOMAIN m.lineage = 1..n
               /\ DOMAIN ProposalsOf(m) = 1..(n + 1) /\ Len(ProposalsOf(m)) = n + 1
               /\ ProposalsOf(m) \in Seq(Range(ProposalsOf(m)))
               /\ ProposalsOf(m)[1] = m.proposal
               /\ \A i \in 1..n : ProposalsOf(m)[i + 1] = m.lineage[i].proposal
<1> DEFINE n == Len(m.lineage)
           rest == [i \in DOMAIN m.lineage |-> m.lineage[i].proposal]
           S == {m.proposal} \cup {m.lineage[i].proposal : i \in DOMAIN m.lineage}
           own == <<m.proposal>>
           all == own \o rest
<1>1. n \in Nat /\ DOMAIN m.lineage = 1..n
  BY LenProperties
<1>2. rest \in [1..n -> S] /\ own \in Seq(S) /\ Len(own) = 1 /\ own[1] = m.proposal
  BY <1>1
<1>3. \A i \in 1..n : rest[i] = m.lineage[i].proposal
  BY <1>1
<1> HIDE DEF rest, S, n, own
<1>4. rest \in Seq(S) /\ DOMAIN rest = 1..n
  BY <1>1, <1>2, FunctionIsSeq
<1>5. Len(rest) = n
  BY <1>1, <1>4, LenProperties
<1>6. all \in Seq(S) /\ Len(all) = n + 1
         /\ \A i \in 1..(n + 1) : all[i] = IF i <= 1 THEN own[i] ELSE rest[i - 1]
  <2>1. /\ all \in Seq(S) /\ Len(all) = Len(own) + Len(rest)
        /\ \A i \in 1..(Len(own) + Len(rest)) :
              all[i] = IF i <= Len(own) THEN own[i] ELSE rest[i - Len(own)]
    BY <1>2, <1>4, ConcatProperties
  <2>2. Len(own) + Len(rest) = n + 1
    BY <1>1, <1>2, <1>5
  <2> HIDE DEF all
  <2> QED BY <1>2, <2>1, <2>2
<1> HIDE DEF all
<1>7. DOMAIN all = 1..(n + 1) /\ all \in Seq(Range(all))
  <2>1. DOMAIN all = 1..(n + 1)
    BY <1>6, LenProperties
  <2>2. all \in [1..(n + 1) -> Range(all)]
    BY <1>6, <2>1, LenProperties DEF Range
  <2> QED BY <1>1, <2>1, <2>2, FunctionIsSeq
<1>8. all[1] = m.proposal
  BY <1>1, <1>2, <1>6
<1>9. ASSUME NEW i \in 1..n PROVE all[i + 1] = m.lineage[i].proposal
  <2>1. i + 1 \in 1..(n + 1) /\ ~(i + 1 <= 1) /\ (i + 1) - 1 = i
    BY <1>1
  <2> QED BY <1>3, <1>6, <2>1
<1>10. ProposalsOf(m) = all
  BY DEF ProposalsOf, all, own, rest
<1> QED BY <1>1, <1>6, <1>7, <1>8, <1>9, <1>10 DEF n

\* What a month of an admitted review is bound to: each of its corrections
\* follows what it expects, and what it corrects is no newer than that.
LEMMA CorrectionsAreBound ==
    ASSUME NEW d, IsEligibility(d), EligibilityIsAdmitted(d), NEW m \in Range(d.months),
           m.lineage # <<>>
    PROVE  LET n == Len(m.lineage)
               proposals == ProposalsOf(m)
           IN  /\ \A i \in 1..n :
                     /\ m.lineage[i].receipt.sequence \in Int
                     /\ proposals[i].amendment.expected \in Int
                     /\ proposals[i].amendment.expected >= m.lineage[i].receipt.sequence
                     /\ proposals[i].policy = proposals[i + 1].policy
                     /\ proposals[i].expected = proposals[i + 1].expected
               /\ \A i \in 1..(n - 1) :
                     m.lineage[i].receipt.sequence > proposals[i + 1].amendment.expected
               /\ m.kind = "PUBLISHED" =>
                     /\ m.publication.sequence \in Int
                     /\ m.publication.sequence > proposals[1].amendment.expected
               /\ \A i \in 1..n : proposals[i + 1].revision # proposals[1].revision
<1> DEFINE n == Len(m.lineage)
           proposals == ProposalsOf(m)
           s == d.selection
           generation == Generations[d.version]
<1>1. PICK k \in DOMAIN d.months : m = d.months[k]
  BY DEF Range
<1> DEFINE pin == s.months[k]
<1>2. /\ MonthIsPinned(m, pin, s, d.version) /\ m.lineage \in Seq(Range(m.lineage))
  BY <1>1, MonthsArePinned
<1>3. LineageIsBound(m, pin, s, generation) /\ m.kind = pin.kind
  BY <1>2 DEF MonthIsPinned
<1>4. /\ n \in Nat /\ DOMAIN m.lineage = 1..n
      /\ DOMAIN proposals = 1..(n + 1) /\ Len(proposals) = n + 1
      /\ proposals \in Seq(Range(proposals)) /\ proposals[1] = m.proposal
      /\ \A i \in 1..n : proposals[i + 1] = m.lineage[i].proposal
  BY <1>2, ProposalsAre
<1>5. n # 0
  BY <1>2, <1>4, EmptySeq
<1>6. /\ \A r \in Range(m.lineage) : r.receipt.sequence \in Int
      /\ \A p \in Range(proposals) : IsProposal(p, d.version)
      /\ m.kind = "PUBLISHED" => m.publication.sequence \in Int
  BY DEF IsEligibility
<1>7. ASSUME NEW i \in 1..n
      PROVE  /\ RetainedIsPinned(m.lineage[i], pin.lineage[i], pin.month, s, generation)
             /\ proposals[i].version = generation.correction
             /\ LinkIsBound(proposals[i], m.lineage[i], Last(m.lineage))
  BY <1>3, <1>4 DEF LineageIsBound
<1> HIDE DEF proposals, n, s, pin, generation
<1>8. ASSUME NEW i \in 1..n
      PROVE  /\ m.lineage[i].receipt.sequence \in Int
             /\ proposals[i].amendment.expected \in Int
             /\ proposals[i].amendment.expected >= m.lineage[i].receipt.sequence
             /\ proposals[i].policy = proposals[i + 1].policy
             /\ proposals[i].expected = proposals[i + 1].expected
  <2>1. i \in 1..(n + 1) /\ proposals[i] \in Range(proposals)
    BY <1>4 DEF Range
  <2>2. m.lineage[i].receipt.sequence \in Int
    BY <1>4, <1>6 DEF Range
  <2>3. proposals[i].amendment.expected \in Int
    BY <1>6, <1>7, <2>1 DEF IsProposal, generation
  <2> QED BY <1>4, <1>7, <2>2, <2>3 DEF LinkIsBound
<1>9. \A sequence, expected \in Int :
         Follows(generation, sequence, expected) => sequence > expected
  BY DEF Follows
<1>pinned. \A r, pins, month : RetainedIsPinned(r, pins, month, s, generation) =>
              /\ r.version = r.proposal.version
              /\ r.version = generation.correction =>
                    Follows(generation, r.receipt.sequence, r.proposal.amendment.expected)
  BY Zenon DEF RetainedIsPinned
<1>10. ASSUME NEW i \in 1..(n - 1)
       PROVE  m.lineage[i].receipt.sequence > proposals[i + 1].amendment.expected
  <2>1. i \in 1..n /\ i + 1 \in 1..n
    BY <1>4
  <2>2. /\ proposals[i + 1] = m.lineage[i].proposal
        /\ proposals[i + 1].version = generation.correction
    BY <1>4, <1>7, <2>1
  <2>3. m.lineage[i].version = generation.correction
    BY <1>7, <1>pinned, <2>1, <2>2
  <2>4. Follows(generation, m.lineage[i].receipt.sequence,
                m.lineage[i].proposal.amendment.expected)
    BY <1>7, <1>pinned, <2>1, <2>3
  <2> QED BY <1>8, <1>9, <2>1, <2>2, <2>4
<1>11. ASSUME m.kind = "PUBLISHED"
       PROVE  m.publication.sequence > proposals[1].amendment.expected
  <2>1. Follows(generation, m.publication.sequence, m.proposal.amendment.expected)
    BY <1>3, <1>11 DEF LineageIsBound
  <2>2. 1 \in 1..n
    BY <1>4, <1>5
  <2> QED BY <1>4, <1>6, <1>8, <1>9, <1>11, <2>1, <2>2
<1>12. ASSUME NEW i \in 1..n PROVE proposals[i + 1].revision # proposals[1].revision
  <2> DEFINE revisions == [j \in 1..(n + 1) |-> proposals[j].revision]
  <2>1. ~SequenceHasDuplicates(revisions)
    BY <1>3, <1>4 DEF LineageIsBound, proposals
  <2>2. n + 1 \in Nat /\ revisions \in [1..(n + 1) -> Range(revisions)]
    BY <1>4 DEF Range
  <2>3. 1 \in 1..(n + 1) /\ i + 1 \in 1..(n + 1) /\ i + 1 # 1
    BY <1>4
  <2>4. /\ DOMAIN revisions = 1..(n + 1) /\ revisions[1] = proposals[1].revision
        /\ revisions[i + 1] = proposals[i + 1].revision
    BY <2>3
  <2> HIDE DEF revisions
  <2>5. OnlyOnce(revisions)
    <3>1. revisions \in Seq(Range(revisions))
      BY <2>2, FunctionIsSeq
    <3> QED BY <2>1, <3>1, OnceIsCounted DEF SequenceHasDuplicates
  <2> QED BY <2>3, <2>4, <2>5 DEF OnlyOnce
<1> QED BY <1>6, <1>8, <1>10, <1>11, <1>12 DEF n, proposals

\* A correction is published after all it corrects, under the same policy and
\* of the same population.
LEMMA CorrectionsFollow ==
    ASSUME NEW d, IsEligibility(d)
    PROVE  CorrectionsAreOrdered(d)
<1> SUFFICES ASSUME EligibilityIsAdmitted(d), NEW m \in Range(d.months)
             PROVE  LET receipts == m.lineage
                        newer(i) == receipts[i].receipt.sequence
                    IN  /\ \A i \in 1..(Len(receipts) - 1) : newer(i) > newer(i + 1)
                        /\ m.kind = "PUBLISHED" /\ receipts # <<>> =>
                              m.publication.sequence > newer(1)
                        /\ \A r \in Range(receipts) :
                              /\ r.proposal.policy = m.proposal.policy
                              /\ r.proposal.expected = m.proposal.expected
                              /\ r.proposal.revision # m.proposal.revision
  BY DEF CorrectionsAreOrdered
<1> DEFINE n == Len(m.lineage)
           proposals == ProposalsOf(m)
<1>1. m.lineage \in Seq(Range(m.lineage))
  BY DEF IsEligibility
<1>2. /\ n \in Nat /\ DOMAIN m.lineage = 1..n /\ proposals[1] = m.proposal
      /\ \A i \in 1..n : proposals[i + 1] = m.lineage[i].proposal
  BY <1>1, ProposalsAre
<1>3. CASE m.lineage = <<>>
  <2>1. Range(m.lineage) = {} /\ Len(m.lineage) = 0
    BY <1>3 DEF Range
  <2> QED BY <1>3, <2>1
<1>4. CASE m.lineage # <<>>
  <2>1. /\ \A i \in 1..n :
              /\ m.lineage[i].receipt.sequence \in Int
              /\ proposals[i].amendment.expected \in Int
              /\ proposals[i].amendment.expected >= m.lineage[i].receipt.sequence
              /\ proposals[i].policy = proposals[i + 1].policy
              /\ proposals[i].expected = proposals[i + 1].expected
        /\ \A i \in 1..(n - 1) :
              m.lineage[i].receipt.sequence > proposals[i + 1].amendment.expected
        /\ m.kind = "PUBLISHED" =>
              /\ m.publication.sequence \in Int
              /\ m.publication.sequence > proposals[1].amendment.expected
        /\ \A i \in 1..n : proposals[i + 1].revision # proposals[1].revision
    BY <1>4, CorrectionsAreBound
  <2>2. n # 0
    BY <1>1, <1>2, <1>4, EmptySeq
  <2> HIDE DEF n, proposals
  <2>3. ASSUME NEW i \in 1..(n - 1)
        PROVE  m.lineage[i].receipt.sequence > m.lineage[i + 1].receipt.sequence
    <3>1. i \in 1..n /\ i + 1 \in 1..n
      BY <1>2
    <3> QED BY <2>1, <3>1
  <2>4. ASSUME m.kind = "PUBLISHED"
            PROVE m.publication.sequence > m.lineage[1].receipt.sequence
    <3>1. 1 \in 1..n
      BY <1>2, <2>2
    <3>2. proposals[1].amendment.expected >= m.lineage[1].receipt.sequence
      BY <2>1, <3>1
    <3> QED BY <2>1, <2>4, <3>1, <3>2
  <2> DEFINE T == {i \in Nat : i <= n => /\ proposals[i + 1].policy = m.proposal.policy
                                         /\ proposals[i + 1].expected
                                                = m.proposal.expected}
  <2>5. 0 \in T
    BY <1>2
  <2>6. ASSUME NEW i \in 0..n, NEW j \in 0..n, i \in T, j = i + 1 PROVE j \in T
    <3>1. j \in 1..n /\ i <= n
      BY <1>2, <2>6
    <3>2. /\ proposals[j].policy = proposals[j + 1].policy
          /\ proposals[j].expected = proposals[j + 1].expected
      BY <2>1, <3>1
    <3> QED BY <2>6, <3>1, <3>2
  <2> HIDE DEF T
  <2>7. ASSUME NEW i \in 1..n PROVE i \in T
    <3>1. 0..i \subseteq 0..n /\ i \in Nat
      BY <1>2
    <3>2. \A j, k \in 0..i : j \in T /\ k = j + 1 => k \in T
      BY <2>6, <3>1
    <3> QED BY <2>5, <3>1, <3>2, Climb
  <2>8. ASSUME NEW r \in Range(m.lineage)
        PROVE  /\ r.proposal.policy = m.proposal.policy
               /\ r.proposal.expected = m.proposal.expected
               /\ r.proposal.revision # m.proposal.revision
    <3>1. PICK i \in 1..n : r = m.lineage[i]
      BY <1>2 DEF Range
    <3>2. r.proposal = proposals[i + 1] /\ i <= n
      BY <1>2, <3>1
    <3> QED BY <1>2, <2>1, <2>7, <3>2 DEF T
  <2> QED BY <2>3, <2>4, <2>8 DEF n
<1> QED BY <1>3, <1>4

\* What v7 shows as admitted was admitted while its proof was valid.
LEMMA AdmissionsHold ==
    ASSUME NEW d, IsEligibility(d)
    PROVE  AdmissionsWereCurrent(d)
<1> SUFFICES ASSUME EligibilityIsAdmitted(d), d.version = "v7", NEW m \in Range(d.months),
                    NEW i \in DOMAIN ProposalsOf(m)
             PROVE  LET p == ProposalsOf(m)[i]
                    IN  /\ p.policy.originalAt[2] < FirstOf(p.month)
                        /\ p.at \in p.proof.checked..(p.proof.expires - 1)
                        /\ i > 1 => m.lineage[i - 1].approval.by # p.by
  BY DEF AdmissionsWereCurrent
<1> DEFINE n == Len(m.lineage)
           proposals == ProposalsOf(m)
           p == proposals[i]
<1>1. PICK k \in DOMAIN d.months : m = d.months[k]
  BY DEF Range
<1> DEFINE pin == d.selection.months[k]
           generation == Generations[d.version]
<1>2. MonthIsPinned(m, pin, d.selection, d.version) /\ m.lineage \in Seq(Range(m.lineage))
  BY <1>1, MonthsArePinned
<1>3. /\ n \in Nat /\ DOMAIN m.lineage = 1..n /\ DOMAIN proposals = 1..(n + 1)
      /\ proposals[1] = m.proposal
      /\ \A j \in 1..n : proposals[j + 1] = m.lineage[j].proposal
  BY <1>2, ProposalsAre
<1>4. generation.correction = "v4"
  BY DEF Generations
<1>5. {p.at, p.proof.checked, p.proof.admitted, p.proof.expires} \subseteq Int
  BY DEF IsEligibility, IsProposal, Range
<1> HIDE DEF n, proposals, p, pin, generation
<1>6. PolicyIsProven(p) /\ (i > 1 => m.lineage[i - 1].approval.by # p.by)
  <2>1. CASE i = 1
    BY <1>2, <1>3, <2>1 DEF MonthIsPinned, p
  <2>2. CASE i # 1
    <3>1. i \in 1..(n + 1) /\ i - 1 \in 1..n /\ (i - 1) + 1 = i
      BY <1>3, <2>2 DEF proposals
    <3> DEFINE r == m.lineage[i - 1]
    <3>2. p = r.proposal
      BY <1>3, <3>1 DEF p
    <3>3. m.lineage # <<>>
      BY <1>3, <3>1
    <3>4. LineageIsBound(m, pin, d.selection, generation)
      BY <1>2, <3>3 DEF MonthIsPinned, generation
    <3>5. RetainedIsPinned(r, pin.lineage[i - 1], pin.month, d.selection, generation)
      BY <1>3, <3>1, <3>4 DEF LineageIsBound
    <3> HIDE DEF r
    <3>6. PolicyIsProven(r.proposal) /\ ApprovalIsProven(r)
      BY <1>4, <3>5 DEF RetainedIsPinned
    <3> QED BY <3>2, <3>6 DEF ApprovalIsProven, r
  <2> QED BY <2>1, <2>2
<1>7. /\ p.policy.originalAt[2] < FirstOf(p.month)
      /\ p.proof.checked <= p.at /\ p.at <= p.proof.admitted
      /\ p.proof.admitted < p.proof.expires
  BY <1>6 DEF PolicyIsProven, ProofIsBound
<1>8. p.at \in p.proof.checked..(p.proof.expires - 1)
  BY <1>5, <1>7
<1> QED BY <1>6, <1>7, <1>8 DEF p, proposals

-----------------------------------------------------------------------------
(* Texts in cells *)

\* The place up to which the first i fragments go.
Reach(i, length) == IF i * ChunkUnits < length THEN i * ChunkUnits ELSE length

\* Fragments go on from one another, the last to the end and each to a
\* place beyond the one before it, by no more than a fragment.
LEMMA ReachIs ==
    ASSUME NEW length \in Nat \ {0}
    PROVE  /\ ChunkCount(length) \in Nat \ {0}
           /\ Reach(0, length) = 0 /\ Reach(ChunkCount(length), length) = length
           /\ \A i \in 1..ChunkCount(length) :
                 /\ Reach(i, length) \in Nat /\ Reach(i - 1, length) \in Nat
                 /\ Reach(i - 1, length) = (i - 1) * ChunkUnits
                 /\ Reach(i - 1, length) < Reach(i, length)
                 /\ Reach(i, length) <= Reach(i - 1, length) + ChunkUnits
                 /\ Reach(i, length) <= length
<1> DEFINE C == ChunkUnits
           N == ChunkCount(length)
<1>1. C \in Nat \ {0}
  BY ChunkAssumption
<1>2. N \in Int /\ N * C <= length + C - 1 /\ length + C - 1 < N * C + C
  <2> DEFINE a == length + C - 1
  <2>1. a \in Nat
    BY <1>1
  <2>2. N = a \div C
    BY DEF ChunkCount
  <2> HIDE DEF a, N, C
  <2>3. a \div C \in Int /\ (a \div C) * C <= a /\ a < (a \div C) * C + C
    BY <1>1, <2>1
  <2> QED BY <2>2, <2>3 DEF a
<1> HIDE DEF N, C
<1>3. \A x, y \in Int : x <= y => x * C <= y * C
  BY <1>1
<1>4. \A x \in Int : x * C \in Int /\ (x - 1) * C = x * C - C /\ (x + 1) * C = x * C + C
  BY <1>1
<1>5. 0 * C = 0
  BY <1>1
<1>6. N \in Nat \ {0}
  <2>1. N * C > 0
    BY <1>1, <1>2, <1>4
  <2>2. N <= 0 => N * C <= 0 * C
    BY <1>2, <1>3
  <2> QED BY <1>2, <1>5, <2>1, <2>2, <1>4
<1>7. length <= N * C /\ (N - 1) * C < length
  BY <1>1, <1>2, <1>4, <1>6
<1>8. Reach(0, length) = 0 /\ Reach(N, length) = length
  BY <1>5, <1>4, <1>6, <1>7 DEF Reach, C
<1>9. ASSUME NEW i \in 1..N
      PROVE  /\ Reach(i, length) \in Nat /\ Reach(i - 1, length) \in Nat
             /\ Reach(i - 1, length) = (i - 1) * C
             /\ Reach(i - 1, length) < Reach(i, length)
             /\ Reach(i, length) <= Reach(i - 1, length) + C
             /\ Reach(i, length) <= length
  <2>1. i \in Int /\ i - 1 \in Int /\ 0 <= i - 1 /\ i - 1 <= N - 1 /\ N - 1 \in Int
    BY <1>6
  <2>2. 0 <= (i - 1) * C /\ (i - 1) * C <= (N - 1) * C
    BY <1>3, <1>5, <2>1
  <2>3. (i - 1) * C < length /\ (i - 1) * C \in Nat /\ i * C = (i - 1) * C + C
    BY <1>1, <1>4, <1>7, <2>1, <2>2
  <2> DEFINE x == (i - 1) * C
             y == i * C
  <2>4. /\ Reach(i - 1, length) = IF x < length THEN x ELSE length
        /\ Reach(i, length) = IF y < length THEN y ELSE length
    BY DEF Reach, C
  <2> HIDE DEF x, y
  <2>5. x < length /\ x \in Nat /\ y = x + C
    BY <2>3 DEF x, y
  <2> QED BY <1>1, <2>4, <2>5 DEF x
<1> QED BY <1>6, <1>8, <1>9 DEF N, C

\* The fragments of a text: none longer than a fragment, and the text when put
\* together again (identity.py:31-42).
LEMMA ChunksAre ==
    ASSUME NEW text, IsText(text), text # <<>>
    PROVE  /\ Chunks(text) \in Seq(Seq(Range(text)))
           /\ DOMAIN Chunks(text) = 1..ChunkCount(Len(text))
           /\ \A i \in DOMAIN Chunks(text) : Len(Chunks(text)[i]) <= ChunkUnits
           /\ FlattenSeq(Chunks(text)) = text
<1> DEFINE S == Range(text)
           L == Len(text)
           N == ChunkCount(L)
           E(i) == Reach(i, L)
           ss == Chunks(text)
<1>1. text \in Seq(S) /\ L \in Nat \ {0}
  BY EmptySeq, LenProperties DEF IsText
<1>2. /\ N \in Nat \ {0} /\ E(0) = 0 /\ E(N) = L
      /\ \A i \in 1..N : /\ E(i) \in Nat /\ E(i - 1) \in Nat
                         /\ E(i - 1) = (i - 1) * ChunkUnits
                         /\ E(i - 1) < E(i) /\ E(i) <= E(i - 1) + ChunkUnits /\ E(i) <= L
  BY <1>1, ReachIs
<1>3. ss = [i \in 1..N |-> SubSeq(text, E(i - 1) + 1, E(i))]
  <2>1. \A i \in 1..N : SubSeq(text, (i - 1) * ChunkUnits + 1,
               IF i * ChunkUnits < L THEN i * ChunkUnits ELSE L)
                 = SubSeq(text, E(i - 1) + 1, E(i))
    BY <1>2 DEF Reach
  <2> QED BY <2>1 DEF Chunks
<1> HIDE DEF S, L, N, E, ss
<1>4. ASSUME NEW i \in 1..N
      PROVE  /\ SubSeq(text, E(i - 1) + 1, E(i)) \in Seq(S)
             /\ Len(SubSeq(text, E(i - 1) + 1, E(i))) <= ChunkUnits
  <2> DEFINE a == E(i - 1)
             b == E(i)
  <2>0. a \in Nat /\ b \in Nat /\ a < b /\ b <= a + ChunkUnits
    BY <1>2
  <2> HIDE DEF a, b
  <2>a. a + 1 \in Int /\ b \in Int /\ a + 1 <= b /\ b - (a + 1) + 1 <= ChunkUnits
    BY <2>0, ChunkAssumption
  <2>1. E(i - 1) + 1 \in Int /\ E(i) \in Int /\ E(i - 1) + 1 <= E(i)
          /\ E(i) - (E(i - 1) + 1) + 1 <= ChunkUnits
    BY <2>a DEF a, b
  <2>2. \A k \in (E(i - 1) + 1)..E(i) : text[k] \in S
    <3>1. \A k \in (E(i - 1) + 1)..E(i) : k \in 1..L
      BY <1>1, <1>2
    <3> QED BY <1>1, <3>1, ElementOfSeq DEF L
  <2> QED BY <2>1, <2>2, SubSeqProperties
<1>5. ss \in Seq(Seq(S)) /\ DOMAIN ss = 1..N
  <2>1. ss \in [1..N -> Seq(S)]
    BY <1>3, <1>4
  <2> QED BY <1>2, <2>1, FunctionIsSeq
<1>6. \A i \in 1..N : Len(ss[i]) <= ChunkUnits
  BY <1>3, <1>4
<1>7. Len(ss) = N /\ ss # <<>>
  BY <1>2, <1>5, LenProperties, EmptySeq
<1>8. PICK f \in [1..Len(ss) -> Seq(S)] :
         IsFlattening(f, ss, Len(ss)) /\ FlattenSeq(ss) = f[Len(ss)]
  BY <1>5, <1>7, FlatteningIs
<1> DEFINE T == {k \in Nat : k + 1 <= N => f[k + 1] = SubSeq(text, 1, E(k + 1))}
<1>9. 0 \in T
  <2>1. 1 \in 1..N /\ 1 - 1 = 0 /\ E(0) + 1 = 1 /\ 0 + 1 = 1
    BY <1>2
  <2>2. ss[1] = SubSeq(text, E(1 - 1) + 1, E(1))
    BY <1>3, <2>1
  <2>3. f[1] = ss[1]
    BY <1>8 DEF IsFlattening
  <2>4. f[1] = SubSeq(text, 1, E(1))
    BY <2>1, <2>2, <2>3
  <2> QED BY <2>1, <2>4
<1>10. ASSUME NEW k \in 0..(N - 1), NEW m \in 0..(N - 1), k \in T, m = k + 1
       PROVE  m \in T
  <2>1. k \in Nat /\ m \in Nat /\ k + 1 <= N /\ m \in 1..N /\ m + 1 \in 2..N
          /\ m + 1 \in 1..N /\ (m + 1) - 1 = m
    BY <1>2, <1>10
  <2>2. f[m] = SubSeq(text, 1, E(m))
    BY <1>10, <2>1
  <2>3. ss[m + 1] = SubSeq(text, E(m) + 1, E(m + 1))
    BY <1>3, <2>1
  <2>4. f[m + 1] = f[m] \o ss[m + 1]
    BY <1>7, <1>8, <2>1 DEF IsFlattening
  <2>5. 1 \in 1..(Len(text) + 1) /\ E(m) \in (1 - 1)..Len(text)
          /\ E(m + 1) \in E(m)..Len(text)
    BY <1>1, <1>2, <2>1 DEF L
  <2>6. SubSeq(text, 1, E(m)) \o SubSeq(text, E(m) + 1, E(m + 1)) = SubSeq(text, 1, E(m + 1))
    BY <1>1, <2>5, ConcatAdjacentSubSeq
  <2> QED BY <2>1, <2>2, <2>3, <2>4, <2>6
<1>11. N - 1 \in T
  <2> HIDE DEF T
  <2> QED BY <1>2, <1>9, <1>10, Climb
<1>12. FlattenSeq(ss) = text
  <2>1. (N - 1) + 1 = N /\ N - 1 \in Nat
    BY <1>2
  <2>2. f[N] = SubSeq(text, 1, L)
    BY <1>2, <1>11, <2>1
  <2>3. SubSeq(text, 1, L) = text
    BY <1>1, SubSeqFull DEF L
  <2> QED BY <1>7, <1>8, <2>2, <2>3
<1> QED BY <1>5, <1>6, <1>12 DEF S, L, N, ss

\* No text is shortened or lost: its rows fit their cells, whatever has to be
\* escaped, and a reader gets it back (identity.py:17-42).
LEMMA FragmentsHold ==
    ASSUME NEW text, IsText(text)
    PROVE  FragmentsAreLossless(text)
<1> DEFINE stored == IdentityRows(text)
           S == Range(text)
           L == Len(text)
           N == ChunkCount(L)
           ss == Chunks(text)
<1>1. CASE L <= CellUnits
  <2>1. stored = <<[key |-> "value", text |-> text]>>
    BY <1>1 DEF IdentityRows
  <2>2. stored[1] = [key |-> "value", text |-> text] /\ DOMAIN stored = 1..1
    BY <2>1
  <2> HIDE DEF stored
  <2>3. stored[1].key = "value" /\ stored[1].text = text
    BY <2>2
  <2>4. Reassembled(stored) = text
    BY <2>3 DEF Reassembled
  <2>5. \A i \in DOMAIN stored : stored[i].key = "value"
    BY <2>2, <2>3
  <2> QED BY <2>3, <2>4, <2>5 DEF FragmentsAreLossless, stored
<1>2. CASE ~(L <= CellUnits)
  <2>1. text # <<>> /\ L \in Nat
    BY <1>2, LenProperties, ChunkAssumption DEF IsText
  <2>2. /\ ss \in Seq(Seq(S)) /\ DOMAIN ss = 1..N /\ FlattenSeq(ss) = text
        /\ \A i \in 1..N : Len(ss[i]) <= ChunkUnits
    BY <2>1, ChunksAre
  <2>3. N \in Nat \ {0}
    <3>1. L \in Nat \ {0}
      BY <2>1, EmptySeq DEF IsText
    <3> QED BY <3>1, ReachIs
  <2> DEFINE first == [key |-> "chunks", count |-> N, length |-> L]
             row(i) == [key |-> "chunk", text |-> ss[i]]
             rest == [i \in 1..N |-> row(i)]
             R == {first} \cup {row(i) : i \in 1..N}
  <2>4. stored = <<first>> \o rest
    BY <1>2, <2>2 DEF IdentityRows
  <2>5. /\ first.key = "chunks" /\ first.count = N
        /\ \A i \in 1..N : row(i).key = "chunk" /\ row(i).text = ss[i]
    OBVIOUS
  <2> HIDE DEF first, row, ss, N, L, S, stored
  <2>6. rest \in Seq(R) /\ DOMAIN rest = 1..N
    <3>1. rest \in [1..N -> R]
      OBVIOUS
    <3> HIDE DEF rest, R
    <3> QED BY <2>3, <3>1, FunctionIsSeq
  <2>7. <<first>> \in Seq(R) /\ Len(<<first>>) = 1 /\ <<first>>[1] = first
    OBVIOUS
  <2>8. \A i \in 1..N : rest[i] = row(i)
    OBVIOUS
  <2> HIDE DEF rest, R
  <2>9. Len(rest) = N
    BY <2>3, <2>6, LenProperties
  <2>10. /\ stored \in Seq(R) /\ Len(stored) = 1 + N /\ stored[1] = first
         /\ \A i \in 1..N : stored[1 + i] = rest[i]
    <3> DEFINE one == <<first>>
    <3>1. one \in Seq(R) /\ Len(one) = 1 /\ one[1] = first
      BY <2>7
    <3> HIDE DEF one
    <3>2. 1 \in 1..Len(one) /\ stored = one \o rest
      BY <2>4, <3>1 DEF one
    <3>3. one \in Seq(R) /\ rest \in Seq(R)
      BY <2>6, <3>1
    <3>4. /\ one \o rest \in Seq(R) /\ Len(one \o rest) = Len(one) + Len(rest)
          /\ \A i \in 1..Len(one) : (one \o rest)[i] = one[i]
          /\ \A i \in 1..Len(rest) : (one \o rest)[Len(one) + i] = rest[i]
      BY <3>3, Appended
    <3> QED BY <2>9, <3>1, <3>2, <3>4
  <2>11. DOMAIN stored = 1..(1 + N)
    BY <2>10, LenProperties
  <2>12. \A i \in 1..N : stored[i + 1].text = ss[i] /\ stored[i + 1].key = "chunk"
    <3>1. \A i \in 1..N : i + 1 = 1 + i
      BY <2>3
    <3> QED BY <2>5, <2>8, <2>10, <3>1
  <2>13. stored[1].key = "chunks" /\ stored[1].count = N
    BY <2>5, <2>10
  <2>14. Len(stored) - 1 = N
    BY <2>3, <2>10
  <2>15. Reassembled(stored) = text
    <3>1. ss = [i \in 1..N |-> ss[i]]
      BY <2>2, LenProperties
    <3>2. [i \in 1..(Len(stored) - 1) |-> stored[i + 1].text] = [i \in 1..N |-> ss[i]]
      BY <2>12, <2>14
    <3> QED BY <2>2, <2>13, <3>1, <3>2 DEF Reassembled
  <2>16. ASSUME NEW i \in DOMAIN stored, stored[i].key = "chunk"
         PROVE  Quoted(stored[i].text) <= CellUnits
    <3>1. i # 1 /\ i \in 1..(1 + N)
      BY <2>11, <2>13, <2>16
    <3>2. i - 1 \in 1..N /\ (i - 1) + 1 = i
      BY <2>3, <3>1
    <3> DEFINE c == ss[i - 1]
    <3>a. i - 1 \in 1..Len(ss) /\ ss \in Seq(Seq(S))
      BY <2>2, <3>2, LenProperties
    <3>b. c \in Seq(S)
      BY <3>a, ElementOfSeq
    <3>3. c \in Seq(S) /\ Len(c) <= ChunkUnits /\ stored[i].text = c
      BY <2>2, <2>12, <3>2, <3>b
    <3> HIDE DEF c
    <3> DEFINE Q == {k \in DOMAIN c : c[k] = "q"}
    <3>4. Len(c) \in Nat /\ Q \in SUBSET (1..Len(c))
      BY <3>3, LenProperties
    <3>5. IsFiniteSet(1..Len(c)) /\ Cardinality(1..Len(c)) = Len(c)
      BY <3>4, CountedUp
    <3>6. Quoted(c) = Len(c) + 2 + Cardinality(Q)
      BY DEF Quoted
    <3> HIDE DEF Q
    <3>7. IsFiniteSet(Q) /\ Cardinality(Q) <= Cardinality(1..Len(c))
      BY <3>4, <3>5, FS_Subset
    <3>8. Cardinality(Q) \in Nat /\ Cardinality(Q) <= Len(c)
      BY <3>5, <3>7, FS_CardinalityType
    <3> QED BY <3>3, <3>4, <3>6, <3>8, ChunkAssumption
  <2> QED BY <2>13, <2>14, <2>15, <2>16 DEF FragmentsAreLossless, stored
<1> QED BY <1>1, <1>2

\* A number that is not refused fits (numeric_display.py:18-23).
LEMMA MagnitudesFit ==
    ASSUME NEW magnitude \in Int, NEW percent
    PROVE  ShownFits(magnitude, percent)
BY ChunkAssumption DEF ShownFits, ShownDigits, TooWide

\* A text ends where its length says, so what is framed before another text
\* can be told from it.
LEMMA FramesAreApart ==
    ASSUME NEW S, NEW a \in Seq(S), NEW b \in Seq(S), NEW c \in Seq(S), NEW d \in Seq(S),
           Len(a) = Len(b), a \o c = b \o d
    PROVE  a = b /\ c = d
<1>1. Len(a) \in Nat
  BY LenProperties
<1>2. \A i \in 1..Len(a) : (a \o c)[i] = a[i] /\ (b \o d)[i] = b[i]
  BY Appended
<1>3. \A i \in 1..Len(a) : a[i] = b[i]
  BY <1>2
<1>4. a = [i \in 1..Len(a) |-> a[i]] /\ b = [i \in 1..Len(a) |-> b[i]]
  BY LenProperties
<1>5. a = b
  BY <1>3, <1>4
<1> QED BY <1>5, ConcatSimplifications

\* What is framed of a single member.
LEMMA FrameOfOne ==
    ASSUME NEW S, Nat \subseteq S, NEW name \in Seq(S), NEW payload \in Seq(S)
    PROVE  Fingerprinted(<<name>>, [n \in {name} |-> payload])
             = <<1>> \o (<<Len(name)>> \o (name \o (<<Len(payload)>> \o payload)))
<1> DEFINE names == <<name>>
           given == [n \in {name} |-> payload]
           frame == Frame(name, payload)
           ss == [i \in DOMAIN names |-> Frame(names[i], given[names[i]])]
           x == <<Len(name)>>
           y == <<Len(payload)>>
<1>1. DOMAIN names = 1..1 /\ Len(names) = 1 /\ names[1] = name /\ given[name] = payload
  OBVIOUS
<1>2. x \in Seq(S) /\ y \in Seq(S)
  <2>1. Len(name) \in S /\ Len(payload) \in S
    BY LenProperties
  <2> QED BY <2>1
<1>3. Fingerprinted(names, given) = <<1>> \o FlattenSeq(ss)
  BY <1>1 DEF Fingerprinted
<1>4. frame = ((x \o name) \o y) \o payload
  BY DEF Frame
<1>5. ss = [i \in 1..1 |-> frame]
  BY <1>1
<1> HIDE DEF names, given, frame, ss, x, y
<1>6. x \o name \in Seq(S) /\ y \o payload \in Seq(S)
  BY <1>2, ConcatProperties
<1>7. (x \o name) \o y \in Seq(S)
  BY <1>2, <1>6, ConcatProperties
<1>8. frame \in Seq(S)
  BY <1>4, <1>7, ConcatProperties
<1>9. frame = x \o (name \o (y \o payload))
  <2>1. ((x \o name) \o y) \o payload = (x \o name) \o (y \o payload)
    BY <1>2, <1>6, ConcatAssociative, SMTT(30)
  <2> DEFINE rest == y \o payload
  <2>2. rest \in Seq(S)
    BY <1>6
  <2>3. ((x \o name) \o y) \o payload = (x \o name) \o rest
    BY <2>1
  <2> HIDE DEF rest
  <2>4. (x \o name) \o rest = x \o (name \o rest)
    BY <1>2, <2>2, ConcatAssociative, SMTT(30)
  <2>5. frame = x \o (name \o rest)
    BY <1>4, <2>3, <2>4
  <2> QED BY <2>5 DEF rest
<1>10. FlattenSeq(ss) = frame
  <2>1. ss \in [1..1 -> Seq(S)] /\ ss[1] = frame
    BY <1>5, <1>8
  <2>2. ss \in Seq(Seq(S)) /\ DOMAIN ss = 1..1
    BY <2>1, FunctionIsSeq
  <2>3. Len(ss) = 1 /\ ss # <<>>
    <3>1. Len(ss) \in Nat /\ DOMAIN ss = 1..Len(ss)
      BY <2>2, LenProperties
    <3>2. Len(ss) = 1
      BY <2>2, <3>1
    <3>3. (ss = <<>>) <=> (Len(ss) = 0)
      BY <2>2, EmptySeq
    <3> QED BY <3>2, <3>3
  <2>4. PICK f \in [1..Len(ss) -> Seq(S)] :
           IsFlattening(f, ss, Len(ss)) /\ FlattenSeq(ss) = f[Len(ss)]
    BY <2>2, <2>3, FlatteningIs
  <2> QED BY <2>1, <2>3, <2>4 DEF IsFlattening
<1> QED BY <1>3, <1>9, <1>10 DEF names, given, x, y

\* Different members are hashed as different bytes (fingerprint.py:10-29).
LEMMA FramingHolds ==
    ASSUME NEW name, IsText(name), NEW payload, IsText(payload),
           NEW otherName, IsText(otherName), NEW otherPayload, IsText(otherPayload)
    PROVE  FramingIsInjective(name, payload, otherName, otherPayload)
<1> SUFFICES ASSUME Fingerprinted(<<name>>, [n \in {name} |-> payload])
                      = Fingerprinted(<<otherName>>, [n \in {otherName} |-> otherPayload])
             PROVE  name = otherName /\ payload = otherPayload
  BY DEF FramingIsInjective
<1> DEFINE S == Nat \cup Range(name) \cup Range(payload) \cup Range(otherName)
                    \cup Range(otherPayload)
<1>1. ASSUME NEW s, IsText(s), Range(s) \subseteq S PROVE s \in Seq(S)
  <2>1. Len(s) \in Nat /\ s \in [1..Len(s) -> Range(s)]
    BY <1>1, LenProperties DEF IsText
  <2> HIDE DEF S
  <2>2. s \in [1..Len(s) -> S]
    BY <1>1, <2>1
  <2> QED BY <2>1, <2>2, FunctionIsSeq
<1>2. /\ name \in Seq(S) /\ payload \in Seq(S)
      /\ otherName \in Seq(S) /\ otherPayload \in Seq(S)
  BY <1>1
<1>3. Nat \subseteq S
  OBVIOUS
<1> HIDE DEF S
<1> DEFINE tail == <<Len(payload)>> \o payload
           other == <<Len(otherPayload)>> \o otherPayload
           x == <<Len(name)>>
           y == <<Len(otherName)>>
<1>4. <<1>> \o (x \o (name \o tail)) = <<1>> \o (y \o (otherName \o other))
  <2>1. Fingerprinted(<<name>>, [n \in {name} |-> payload]) = <<1>> \o (x \o (name \o tail))
    BY <1>2, <1>3, FrameOfOne
  <2>2. Fingerprinted(<<otherName>>, [n \in {otherName} |-> otherPayload])
          = <<1>> \o (y \o (otherName \o other))
    BY <1>2, <1>3, FrameOfOne
  <2> HIDE DEF tail, other, x, y
  <2> QED BY <2>1, <2>2
<1>5. /\ x \in Seq(S) /\ y \in Seq(S) /\ <<1>> \in Seq(S)
      /\ <<Len(payload)>> \in Seq(S) /\ <<Len(otherPayload)>> \in Seq(S)
  <2>1. /\ Len(name) \in S /\ Len(payload) \in S /\ 1 \in S
        /\ Len(otherName) \in S /\ Len(otherPayload) \in S
    BY <1>2, <1>3, LenProperties
  <2> QED BY <2>1
<1>6. Len(x) = Len(y) /\ x[1] = Len(name) /\ y[1] = Len(otherName)
  OBVIOUS
<1>7. tail \in Seq(S) /\ other \in Seq(S)
  BY <1>2, <1>5, ConcatProperties
<1> HIDE DEF tail, other, x, y
<1>8. name \o tail \in Seq(S) /\ otherName \o other \in Seq(S)
  BY <1>2, <1>7, ConcatProperties
<1>9. x \o (name \o tail) \in Seq(S) /\ y \o (otherName \o other) \in Seq(S)
  BY <1>5, <1>8, ConcatProperties
<1>10. x \o (name \o tail) = y \o (otherName \o other)
  <2> DEFINE one == <<1>>
             p == x \o (name \o tail)
             q == y \o (otherName \o other)
  <2>1. one \in Seq(S) /\ p \in Seq(S) /\ q \in Seq(S) /\ one \o p = one \o q
    BY <1>4, <1>5, <1>9
  <2> HIDE DEF one, p, q
  <2>2. Len(one) = Len(one)
    OBVIOUS
  <2>3. p = q
    BY <2>1, <2>2, FramesAreApart
  <2> QED BY <2>3 DEF p, q
<1>11. x = y /\ name \o tail = otherName \o other
  <2> DEFINE p == name \o tail
             q == otherName \o other
  <2>1. p \in Seq(S) /\ q \in Seq(S) /\ x \o p = y \o q
    BY <1>8, <1>10
  <2> HIDE DEF p, q
  <2>2. x = y /\ p = q
    BY <1>5, <1>6, <2>1, FramesAreApart
  <2> QED BY <2>2 DEF p, q
<1>12. name = otherName /\ tail = other
  <2>1. Len(name) = Len(otherName) /\ name \o tail = otherName \o other
    BY <1>6, <1>11
  <2> QED BY <1>2, <1>7, <2>1, FramesAreApart
<1>13. payload = otherPayload
  <2> DEFINE v == <<Len(payload)>>
             w == <<Len(otherPayload)>>
  <2>1. v \in Seq(S) /\ w \in Seq(S) /\ v \o payload = w \o otherPayload
    BY <1>5, <1>12 DEF tail, other
  <2>2. Len(v) = Len(w)
    OBVIOUS
  <2> HIDE DEF v, w
  <2> QED BY <1>2, <2>1, <2>2, FramesAreApart
<1> QED BY <1>12, <1>13

-----------------------------------------------------------------------------
(* The tables of the workbook *)

\* The policies of a table are in one piece, in the order of its columns.
LEMMA PoliciesAre ==
    ASSUME NEW content, IsContent(content), ContentIsIdentified(content),
           NEW t \in DOMAIN content.tables
    PROVE  LET policy == ColumnPolicy(content)
               columns == content.tables[t].columns
           IN  \E first \in 0..Len(policy) :
                  /\ {k \in DOMAIN policy : policy[k].table = content.tables[t].id}
                        = (first + 1)..(first + Len(columns))
                  /\ \A c \in 1..Len(columns) : policy[first + c].column = columns[c]
<1> DEFINE tables == content.tables
           D == DOMAIN tables
           Policy(i, c) == [table |-> tables[i].id, column |-> tables[i].columns[c]]
           S == {Policy(i, c) : i \in D, c \in Nat}
           ss == [i \in D |-> [c \in DOMAIN tables[i].columns |-> Policy(i, c)]]
           policy == ColumnPolicy(content)
           n(i) == Len(tables[i].columns)
<1>1. /\ D = 1..Len(tables) /\ Len(tables) \in Nat
      /\ \A i \in D : n(i) \in Nat /\ DOMAIN tables[i].columns = 1..n(i)
  BY LenProperties DEF IsContent
<1>2. \A i, j \in D : tables[i].id = tables[j].id => i = j
  BY DEF ContentIsIdentified, Distinct, IsInjective
<1>3. policy = FlattenSeq(ss)
  BY DEF ColumnPolicy
<1>4. \A i \in D, c \in Nat : /\ Policy(i, c) \in S
                             /\ Policy(i, c).table = tables[i].id
                             /\ Policy(i, c).column = tables[i].columns[c]
  OBVIOUS
<1> HIDE DEF Policy, S
<1>5. \A i \in D : /\ ss[i] \in Seq(S) /\ Len(ss[i]) = n(i)
                   /\ \A c \in 1..n(i) : ss[i][c] = Policy(i, c)
  <2> SUFFICES ASSUME NEW i \in D
               PROVE  /\ ss[i] \in Seq(S) /\ Len(ss[i]) = n(i)
                      /\ \A c \in 1..n(i) : ss[i][c] = Policy(i, c)
    OBVIOUS
  <2> DEFINE g == [c \in 1..n(i) |-> Policy(i, c)]
  <2>1. ss[i] = g
    BY <1>1
  <2>2. g \in [1..n(i) -> S] /\ n(i) \in Nat
    BY <1>1, <1>4
  <2>3. \A c \in 1..n(i) : g[c] = Policy(i, c)
    OBVIOUS
  <2> HIDE DEF g, ss, n
  <2>4. g \in Seq(S) /\ DOMAIN g = 1..n(i)
    BY <2>2, FunctionIsSeq
  <2>5. Len(g) = n(i)
    BY <2>2, <2>4, LenProperties
  <2> QED BY <2>1, <2>3, <2>4, <2>5
<1>6. ss \in Seq(Seq(S)) /\ DOMAIN ss = D
  <2>1. ss \in [D -> Seq(S)]
    <3>1. \A i \in D : ss[i] \in Seq(S)
      BY <1>5
    <3> QED BY <3>1
  <2> HIDE DEF ss
  <2> QED BY <1>1, <2>1, FunctionIsSeq
<1> HIDE DEF ss, policy
<1>7. PICK at \in [D -> Nat] : ArePlaces(at, ss, policy)
  BY <1>3, <1>6, FlattenedPlaces
<1>8. policy \in Seq(S) /\ DOMAIN policy = 1..Len(policy) /\ Len(policy) \in Nat
  <2>1. policy \in Seq(S)
    BY <1>3, <1>6, FlattenedRange
  <2> QED BY <2>1, LenProperties
<1>9. ASSUME NEW i \in D, NEW c \in 1..n(i)
      PROVE  at[i] + c \in 1..Len(policy) /\ policy[at[i] + c] = Policy(i, c)
  <2>1. i \in DOMAIN ss /\ c \in 1..Len(ss[i]) /\ ss[i][c] = Policy(i, c)
    BY <1>5, <1>6
  <2> QED BY <1>7, <2>1 DEF ArePlaces
<1>10. ASSUME NEW k \in 1..Len(policy) PROVE \E i \in D : \E c \in 1..n(i) : k = at[i] + c
  <2>1. PICK i \in D : \E j \in 1..Len(ss[i]) : k = at[i] + j
    BY <1>6, <1>7 DEF ArePlaces
  <2>2. Len(ss[i]) = n(i)
    BY <1>5
  <2> QED BY <2>1, <2>2
<1> DEFINE Of == {k \in DOMAIN policy : policy[k].table = tables[t].id}
<1>11. t \in D
  OBVIOUS
<1> HIDE DEF D, n
<1>12. ASSUME NEW k \in Of PROVE \E c \in 1..n(t) : k = at[t] + c
  <2>1. k \in 1..Len(policy) /\ policy[k].table = tables[t].id
    BY <1>8
  <2>2. PICK i \in D : \E c \in 1..n(i) : k = at[i] + c
    BY <1>10, <2>1
  <2>3. PICK c \in 1..n(i) : k = at[i] + c
    BY <2>2
  <2>4. policy[k] = Policy(i, c) /\ c \in Nat
    BY <1>1, <1>9, <2>3
  <2>5. i = t
    BY <1>2, <1>4, <1>11, <2>1, <2>4
  <2> QED BY <2>3, <2>5
<1>13. ASSUME NEW c \in 1..n(t)
       PROVE  /\ at[t] + c \in Of /\ at[t] + c \in 1..Len(policy)
              /\ policy[at[t] + c].column = tables[t].columns[c]
  <2>1. at[t] + c \in 1..Len(policy) /\ policy[at[t] + c] = Policy(t, c) /\ c \in Nat
    BY <1>1, <1>9, <1>11
  <2> QED BY <1>4, <1>8, <1>11, <2>1
<1> DEFINE first == IF n(t) = 0 THEN 0 ELSE at[t]
<1>14. n(t) \in Nat /\ at[t] \in Nat
  BY <1>1, <1>11
<1>15. first \in 0..Len(policy)
  <2>1. CASE n(t) = 0
    BY <1>8, <2>1
  <2>2. CASE n(t) # 0
    <3>1. 1 \in 1..n(t)
      BY <1>14, <2>2
    <3>2. at[t] + 1 \in 1..Len(policy)
      BY <1>13, <3>1
    <3> QED BY <1>8, <1>14, <2>2, <3>2
  <2> QED BY <2>1, <2>2
<1>16. Of = (first + 1)..(first + n(t))
  <2>1. ASSUME NEW k \in Of PROVE k \in (first + 1)..(first + n(t))
    <3>1. PICK c \in 1..n(t) : k = at[t] + c
      BY <1>12
    <3> QED BY <1>14, <3>1
  <2>2. ASSUME NEW k \in (first + 1)..(first + n(t)) PROVE k \in Of
    <3>1. n(t) # 0 /\ k - at[t] \in 1..n(t) /\ at[t] + (k - at[t]) = k
      BY <1>8, <1>14, <1>15
    <3> HIDE DEF Of, first
    <3> QED BY <1>13, <3>1
  <2> HIDE DEF Of, first
  <2> QED BY <2>1, <2>2
<1>17. \A c \in 1..n(t) : policy[first + c].column = tables[t].columns[c]
  BY <1>13, <1>14
<1> HIDE DEF first, Of
<1> QED BY <1>15, <1>16, <1>17 DEF n, policy, Of

\* The evidence has the cell of every column of every row of every table, once.
LEMMA EvidenceIs ==
    ASSUME NEW content, IsContent(content), ContentIsIdentified(content),
           NEW t \in DOMAIN content.tables,
           NEW r \in DOMAIN content.tables[t].rows,
           NEW c \in DOMAIN content.tables[t].columns
    PROVE  LET table == content.tables[t]
               evidence == CellEvidence(content)
               id == table.columns[c].id
           IN  \E k \in DOMAIN evidence :
                  /\ {l \in DOMAIN evidence :
                          /\ evidence[l].table = table.id
                          /\ evidence[l].row = table.rows[r].id
                          /\ evidence[l].column = id} = {k}
                  /\ evidence[k].cell = table.rows[r].cells[id]
<1> DEFINE tables == content.tables
           D == DOMAIN tables
           C(i) == DOMAIN tables[i].columns
           R(i) == DOMAIN tables[i].rows
           Entry(i, j, l) == [table |-> tables[i].id, row |-> tables[i].rows[j].id,
                              column |-> tables[i].columns[l].id,
                              cell |-> tables[i].rows[j].cells[tables[i].columns[l].id]]
           S == {Entry(i, j, l) : i \in D, j \in Nat, l \in Nat}
           Row(i, j) == [l \in C(i) |-> Entry(i, j, l)]
           Rows(i) == [j \in R(i) |-> Row(i, j)]
           ss == [i \in D |-> FlattenSeq(Rows(i))]
           evidence == CellEvidence(content)
<1>1. /\ D = 1..Len(tables) /\ Len(tables) \in Nat
      /\ \A i \in D : /\ Len(tables[i].columns) \in Nat /\ C(i) = 1..Len(tables[i].columns)
                      /\ Len(tables[i].rows) \in Nat /\ R(i) = 1..Len(tables[i].rows)
  BY LenProperties DEF IsContent
<1>2. /\ \A i, j \in D : tables[i].id = tables[j].id => i = j
      /\ \A i \in D : /\ \A j, l \in C(i) :
                            tables[i].columns[j].id = tables[i].columns[l].id => j = l
                      /\ \A j, l \in R(i) :
                            tables[i].rows[j].id = tables[i].rows[l].id => j = l
  BY DEF ContentIsIdentified, TableIsIdentified, Distinct, IsInjective
<1>3. evidence = FlattenSeq(ss)
  BY DEF CellEvidence
<1>c. \A i \in D, j, l \in Nat :
        LET e == Entry(i, j, l)
        IN  /\ e.table = tables[i].id /\ e.row = tables[i].rows[j].id
            /\ e.column = tables[i].columns[l].id
            /\ e.cell = tables[i].rows[j].cells[tables[i].columns[l].id]
  OBVIOUS
<1> HIDE DEF Entry
<1>4. \A i \in D, j, l \in Nat :
        /\ Entry(i, j, l) \in S
        /\ Entry(i, j, l).table = tables[i].id /\ Entry(i, j, l).row = tables[i].rows[j].id
        /\ Entry(i, j, l).column = tables[i].columns[l].id
        /\ Entry(i, j, l).cell = tables[i].rows[j].cells[tables[i].columns[l].id]
  <2>1. \A i \in D, j, l \in Nat : Entry(i, j, l) \in S
    OBVIOUS
  <2> HIDE DEF S, D
  <2>2. ASSUME NEW i \in D, NEW j \in Nat, NEW l \in Nat
        PROVE  /\ Entry(i, j, l).table = tables[i].id
               /\ Entry(i, j, l).row = tables[i].rows[j].id
               /\ Entry(i, j, l).column = tables[i].columns[l].id
               /\ Entry(i, j, l).cell = tables[i].rows[j].cells[tables[i].columns[l].id]
    BY <1>c, ZenonT(30)
  <2> QED BY <2>1, <2>2
<1>a. t \in D /\ r \in R(t) /\ c \in C(t)
  OBVIOUS
<1> HIDE DEF S, D, C, R, evidence
<1>5. \A i \in D : C(i) \subseteq Nat /\ R(i) \subseteq Nat
  BY <1>1
<1>b. ASSUME NEW i \in D, NEW j \in R(i), NEW m \in C(i),
             Entry(i, j, m).table = tables[t].id,
             Entry(i, j, m).row = tables[t].rows[r].id,
             Entry(i, j, m).column = tables[t].columns[c].id
      PROVE  i = t /\ j = r /\ m = c
  <2>1. j \in Nat /\ m \in Nat
    BY <1>5
  <2>2. /\ tables[i].id = tables[t].id /\ tables[i].rows[j].id = tables[t].rows[r].id
        /\ tables[i].columns[m].id = tables[t].columns[c].id
    <3>1. /\ Entry(i, j, m).table = tables[i].id /\ Entry(i, j, m).row = tables[i].rows[j].id
          /\ Entry(i, j, m).column = tables[i].columns[m].id
      BY <1>4, <2>1, ZenonT(30)
    <3> QED BY <1>b, <3>1, ZenonT(30)
  <2>3. i = t
    BY <1>2, <1>a, <2>2
  <2>4. j \in R(t) /\ m \in C(t)
    BY <2>3
  <2> QED BY <1>2, <1>a, <2>2, <2>3, <2>4
<1>6. ASSUME NEW i \in D, NEW j \in R(i)
      PROVE  Row(i, j) \in Seq(S) /\ 1..Len(Row(i, j)) = C(i)
  <2> DEFINE g == Row(i, j)
             n == Len(tables[i].columns)
  <2>1. n \in Nat /\ C(i) = 1..n
    BY <1>1
  <2>2. g \in [1..n -> S]
    BY <1>4, <1>5, <2>1
  <2> HIDE DEF g, n
  <2>3. g \in Seq(S) /\ DOMAIN g = 1..n
    BY <2>1, <2>2, FunctionIsSeq
  <2>4. Len(g) = n
    BY <2>1, <2>3, LenProperties
  <2> QED BY <2>1, <2>3, <2>4 DEF g
<1>7. \A i \in D : \A j \in R(i) : \A l \in C(i) : Row(i, j)[l] = Entry(i, j, l)
  OBVIOUS
<1> HIDE DEF Row
<1>8. ASSUME NEW i \in D
      PROVE  /\ Rows(i) \in Seq(Seq(S)) /\ DOMAIN Rows(i) = R(i)
             /\ \A j \in R(i) : Rows(i)[j] = Row(i, j)
  <2> DEFINE g == Rows(i)
             n == Len(tables[i].rows)
  <2>1. n \in Nat /\ R(i) = 1..n
    BY <1>1
  <2>2. g \in [1..n -> Seq(S)]
    BY <1>6, <2>1
  <2>3. \A j \in R(i) : g[j] = Row(i, j)
    OBVIOUS
  <2> HIDE DEF g, n
  <2>4. g \in Seq(Seq(S)) /\ DOMAIN g = 1..n
    BY <2>1, <2>2, FunctionIsSeq
  <2> QED BY <2>1, <2>3, <2>4 DEF g
<1>9. \A i \in D : ss[i] = FlattenSeq(Rows(i))
  OBVIOUS
<1> HIDE DEF Rows
<1>10. ss \in Seq(Seq(S)) /\ DOMAIN ss = D
  <2>1. ss \in [D -> Seq(S)]
    <3>1. \A i \in D : FlattenSeq(Rows(i)) \in Seq(S)
      BY <1>8, FlattenedRange
    <3> QED BY <3>1
  <2> HIDE DEF ss
  <2> QED BY <1>1, <2>1, FunctionIsSeq
<1> HIDE DEF ss
<1>11. PICK at \in [D -> Nat] : ArePlaces(at, ss, evidence)
  BY <1>3, <1>10, FlattenedPlaces
<1>12. evidence \in Seq(S) /\ DOMAIN evidence = 1..Len(evidence)
  <2>1. evidence \in Seq(S)
    BY <1>3, <1>10, FlattenedRange
  <2> QED BY <2>1, LenProperties
\* The places of one table, and what is there.
<1>13. ASSUME NEW i \in D
       PROVE  \E in \in [R(i) -> Nat] :
                 /\ \A j \in R(i) : \A l \in C(i) :
                       /\ at[i] + (in[j] + l) \in 1..Len(evidence)
                       /\ evidence[at[i] + (in[j] + l)] = Entry(i, j, l)
                 /\ \A k \in 1..Len(ss[i]) : \E j \in R(i) : \E l \in C(i) : k = in[j] + l
  <2>1. Rows(i) \in Seq(Seq(S)) /\ DOMAIN Rows(i) = R(i)
    BY <1>8
  <2>2. PICK in \in [R(i) -> Nat] : ArePlaces(in, Rows(i), ss[i])
    BY <1>9, <2>1, FlattenedPlaces
  <2>3. \A j \in R(i) : 1..Len(Rows(i)[j]) = C(i)
    BY <1>6, <1>8
  <2>4. ASSUME NEW j \in R(i), NEW l \in C(i)
        PROVE  /\ at[i] + (in[j] + l) \in 1..Len(evidence)
               /\ evidence[at[i] + (in[j] + l)] = Entry(i, j, l)
    <3>1. in[j] + l \in 1..Len(ss[i]) /\ ss[i][in[j] + l] = Rows(i)[j][l]
      BY <2>1, <2>2, <2>3 DEF ArePlaces
    <3>2. Rows(i)[j][l] = Entry(i, j, l)
      BY <1>7, <1>8
    <3>3. /\ at[i] + (in[j] + l) \in 1..Len(evidence)
          /\ evidence[at[i] + (in[j] + l)] = ss[i][in[j] + l]
      BY <1>10, <1>11, <3>1 DEF ArePlaces
    <3> QED BY <3>1, <3>2, <3>3
  <2>5. ASSUME NEW k \in 1..Len(ss[i])
        PROVE  \E j \in R(i) : \E l \in C(i) : k = in[j] + l
    <3>1. PICK j \in R(i) : \E l \in 1..Len(Rows(i)[j]) : k = in[j] + l
      BY <2>1, <2>2 DEF ArePlaces
    <3> QED BY <2>3, <3>1
  <2> QED BY <2>4, <2>5
<1> DEFINE Sought == {l \in DOMAIN evidence :
                        /\ evidence[l].table = tables[t].id
                        /\ evidence[l].row = tables[t].rows[r].id
                        /\ evidence[l].column = tables[t].columns[c].id}
<1>14. PICK in \in [R(t) -> Nat] :
          /\ \A j \in R(t) : \A l \in C(t) :
                /\ at[t] + (in[j] + l) \in 1..Len(evidence)
                /\ evidence[at[t] + (in[j] + l)] = Entry(t, j, l)
          /\ \A k \in 1..Len(ss[t]) : \E j \in R(t) : \E l \in C(t) : k = in[j] + l
  BY <1>13, <1>a
<1> DEFINE k == at[t] + (in[r] + c)
<1>15. k \in DOMAIN evidence /\ evidence[k] = Entry(t, r, c)
  BY <1>12, <1>14, <1>a
<1>16. k \in Sought /\ evidence[k].cell = tables[t].rows[r].cells[tables[t].columns[c].id]
  <2>1. r \in Nat /\ c \in Nat
    BY <1>5, <1>a
  <2>2. /\ Entry(t, r, c).table = tables[t].id /\ Entry(t, r, c).row = tables[t].rows[r].id
        /\ Entry(t, r, c).column = tables[t].columns[c].id
        /\ Entry(t, r, c).cell = tables[t].rows[r].cells[tables[t].columns[c].id]
    BY <1>4, <1>a, <2>1, ZenonT(30)
  <2> HIDE DEF k
  <2> QED BY <1>15, <2>2, ZenonT(30)
<1>17. ASSUME NEW l \in Sought PROVE l = k
  <2>1. /\ l \in 1..Len(evidence) /\ evidence[l].table = tables[t].id
        /\ evidence[l].row = tables[t].rows[r].id
        /\ evidence[l].column = tables[t].columns[c].id
    BY <1>12
  <2>2. PICK i \in D : \E j \in 1..Len(ss[i]) : l = at[i] + j
    BY <1>10, <1>11, <2>1 DEF ArePlaces
  <2>3. PICK p \in 1..Len(ss[i]) : l = at[i] + p
    BY <2>2
  <2>4. PICK on \in [R(i) -> Nat] :
           /\ \A j \in R(i) : \A m \in C(i) :
                 /\ at[i] + (on[j] + m) \in 1..Len(evidence)
                 /\ evidence[at[i] + (on[j] + m)] = Entry(i, j, m)
           /\ \A q \in 1..Len(ss[i]) : \E j \in R(i) : \E m \in C(i) : q = on[j] + m
    BY <1>13
  <2>5. PICK j \in R(i) : \E m \in C(i) : p = on[j] + m
    BY <2>3, <2>4
  <2>6. PICK m \in C(i) : p = on[j] + m
    BY <2>5
  <2>7. evidence[l] = Entry(i, j, m)
    BY <2>3, <2>4, <2>6
  <2>8. i = t
    BY <1>b, <2>1, <2>7
  <2>10. p \in 1..Len(ss[t]) /\ l = at[t] + p
    BY <2>3, <2>8
  <2>12. PICK j2 \in R(t) : \E m2 \in C(t) : p = in[j2] + m2
    BY <1>14, <2>10
  <2>13. PICK m2 \in C(t) : p = in[j2] + m2
    BY <2>12
  <2>14. evidence[l] = Entry(t, j2, m2)
    BY <1>14, <2>10, <2>12, <2>13
  <2>15. j2 = r /\ m2 = c
    BY <1>b, <1>a, <2>1, <2>14
  <2> QED BY <2>10, <2>13, <2>15
<1>18. Sought = {k}
  <2> HIDE DEF Sought, k
  <2> QED BY <1>16, <1>17
<1> HIDE DEF Sought, k
<1> QED BY <1>15, <1>16, <1>18 DEF Sought, evidence

\* The fragments of any text put together are the text.
LEMMA TextIsPinned ==
    ASSUME NEW text, IsText(text)
    PROVE  FlattenSeq(Chunks(text)) = text
<1>1. CASE text = <<>>
  <2>1. ChunkCount(Len(text)) = 0
    <3>1. Len(text) = 0
      BY <1>1
    <3> QED BY <3>1, ChunkAssumption DEF ChunkCount
  <2>2. Chunks(text) = <<>>
    <3> DEFINE n == ChunkCount(Len(text))
               piece(i) == SubSeq(text, (i - 1) * ChunkUnits + 1,
                               IF i * ChunkUnits < Len(text) THEN i * ChunkUnits ELSE Len(text))
    <3>1. Chunks(text) = [i \in 1..n |-> piece(i)]
      BY DEF Chunks
    <3> HIDE DEF piece, n
    <3>2. 1..n = {}
      BY <2>1 DEF n
    <3> QED BY <3>1, <3>2
  <2> QED BY <1>1, <2>2 DEF FlattenSeq
<1>2. CASE text # <<>>
  BY <1>2, ChunksAre
<1> QED BY <1>1, <1>2

\* A row as it is shown: what it is called, then a cell for every column.
LEMMA ShownRow ==
    ASSUME NEW family, NEW table, NEW r \in DOMAIN table.rows,
           table.columns \in Seq(Range(table.columns))
    PROVE  LET row == VisibleTable(family, table).rows[r]
           IN  /\ Len(row) = Len(table.columns) + 1 /\ row[1] = table.rows[r].id
               /\ \A c \in 1..Len(table.columns) :
                     row[c + 1] = DisplayCell(family, table.columns[c],
                                       table.rows[r].cells[table.columns[c].id])
<1> DEFINE n == Len(table.columns)
           id == table.rows[r].id
           shown(c) == DisplayCell(family, table.columns[c],
                                   table.rows[r].cells[table.columns[c].id])
           cells == [c \in DOMAIN table.columns |-> shown(c)]
           S == {id} \cup {shown(c) : c \in 1..n}
           row == VisibleTable(family, table).rows[r]
<1>1. n \in Nat /\ DOMAIN table.columns = 1..n
  BY LenProperties
<1>2. row = <<id>> \o cells
  BY DEF VisibleTable
<1>3. cells \in [1..n -> S] /\ \A c \in 1..n : cells[c] = shown(c)
  <2> HIDE DEF shown
  <2> QED BY <1>1
<1>a. id \in S
  OBVIOUS
<1> HIDE DEF cells, shown, n, S, row
<1>4. cells \in Seq(S) /\ Len(cells) = n
  BY <1>1, <1>3, FunctionIsSeq, LenProperties
<1> DEFINE one == <<id>>
<1>5. one \in Seq(S) /\ Len(one) = 1 /\ one[1] = id
  BY <1>a
<1>6. row = one \o cells
  BY <1>2
<1> HIDE DEF one
<1>7. /\ Len(row) = 1 + n /\ row[1] = one[1]
      /\ \A c \in 1..n : row[1 + c] = cells[c]
  <2>a. one \in Seq(S) /\ cells \in Seq(S)
    BY <1>4, <1>5
  <2>1. /\ Len(one \o cells) = Len(one) + Len(cells)
        /\ \A i \in 1..Len(one) : (one \o cells)[i] = one[i]
        /\ \A i \in 1..Len(cells) : (one \o cells)[Len(one) + i] = cells[i]
    BY <2>a, Appended
  <2> QED BY <1>4, <1>5, <1>6, <2>1
<1>8. \A c \in 1..n : row[c + 1] = shown(c)
  <2>1. \A c \in 1..n : c + 1 = 1 + c
    BY <1>1
  <2> QED BY <1>3, <1>7, <2>1
<1> QED BY <1>1, <1>5, <1>7, <1>8 DEF n, shown, row

\* The workbook alone is enough (projection.py:19-160, source_cells.py:136-157).
LEMMA ContentHolds ==
    ASSUME NEW content, IsContent(content)
    PROVE  ContentIsRecoverable(content)
<1> SUFFICES ASSUME ContentIsIdentified(content) PROVE ContentIsRecoverable(content)
  BY DEF ContentIsRecoverable
<1> DEFINE workbook == WorkbookTables(content)
           family == Family(content.version)
           Of(sheet) == {k \in DOMAIN workbook.policy : workbook.policy[k].table = sheet.name}
           Evidenced(sheet, row, column) ==
              {k \in DOMAIN workbook.evidence :
                  LET e == workbook.evidence[k]
                  IN  e.table = sheet.name /\ e.row = row /\ e.column = column}
<1>1. /\ DOMAIN workbook.visible = DOMAIN content.tables
      /\ \A t \in DOMAIN content.tables :
            workbook.visible[t] = VisibleTable(family, content.tables[t])
      /\ workbook.policy = ColumnPolicy(content) /\ workbook.evidence = CellEvidence(content)
      /\ workbook.pinned = Chunks(content.text)
  BY DEF WorkbookTables
<1>2. FlattenSeq(workbook.pinned) = content.text
  BY <1>1, TextIsPinned DEF IsContent
<1> HIDE DEF workbook
<1>3. ASSUME NEW t \in DOMAIN workbook.visible, NEW r \in DOMAIN workbook.visible[t].rows
      PROVE  LET sheet == workbook.visible[t]
             IN  \E first \in 0..Len(workbook.policy) :
                    /\ Of(sheet) = (first + 1)..(first + Len(sheet.rows[r]) - 1)
                    /\ \A c \in 1..(Len(sheet.rows[r]) - 1) :
                          LET column == workbook.policy[first + c].column
                          IN  \E k \in DOMAIN workbook.evidence :
                                /\ Evidenced(sheet, sheet.rows[r][1], column.id) = {k}
                                /\ sheet.rows[r][c + 1] =
                                      DisplayCell(family, column, workbook.evidence[k].cell)
  <2> DEFINE table == content.tables[t]
             sheet == workbook.visible[t]
             n == Len(table.columns)
             shown == sheet.rows[r]
  <2>1. t \in DOMAIN content.tables /\ sheet = VisibleTable(family, table)
    BY <1>1
  <2>2. sheet.name = table.id /\ DOMAIN sheet.rows = DOMAIN table.rows
    <3> DEFINE rows == [i \in DOMAIN table.rows |->
                          <<table.rows[i].id>>
                            \o [c \in DOMAIN table.columns |->
                                  DisplayCell(family, table.columns[c],
                                      table.rows[i].cells[table.columns[c].id])]]
    <3>1. sheet = [name |-> table.id, rows |-> rows]
      BY <2>1 DEF VisibleTable
    <3>2. DOMAIN rows = DOMAIN table.rows
      OBVIOUS
    <3> HIDE DEF rows, table, sheet
    <3> QED BY <3>1, <3>2
  <2>3. r \in DOMAIN table.rows /\ table.columns \in Seq(Range(table.columns))
    BY <2>1, <2>2 DEF IsContent
  <2>4. /\ Len(shown) = n + 1 /\ shown[1] = table.rows[r].id
        /\ \A c \in 1..n :
              shown[c + 1] = DisplayCell(family, table.columns[c],
                                table.rows[r].cells[table.columns[c].id])
    <3> HIDE DEF family, table
    <3> QED BY <2>1, <2>3, ShownRow
  <2>5. n \in Nat /\ DOMAIN table.columns = 1..n
    BY <2>3, LenProperties
  <2>6. PICK first \in 0..Len(workbook.policy) :
           /\ {k \in DOMAIN workbook.policy : workbook.policy[k].table = table.id}
                 = (first + 1)..(first + n)
           /\ \A c \in 1..n : workbook.policy[first + c].column = table.columns[c]
    BY <1>1, <2>1, PoliciesAre
  <2>a. ASSUME NEW c \in 1..n
        PROVE  \E k \in DOMAIN workbook.evidence :
                  /\ {l \in DOMAIN workbook.evidence :
                         /\ workbook.evidence[l].table = table.id
                         /\ workbook.evidence[l].row = table.rows[r].id
                         /\ workbook.evidence[l].column = table.columns[c].id} = {k}
                  /\ workbook.evidence[k].cell = table.rows[r].cells[table.columns[c].id]
    <3>1. c \in DOMAIN table.columns /\ r \in DOMAIN table.rows
      BY <2>3, <2>5
    <3>2. workbook.evidence = CellEvidence(content)
      BY <1>1
    <3>3. \E k \in DOMAIN CellEvidence(content) :
             /\ {l \in DOMAIN CellEvidence(content) :
                    /\ CellEvidence(content)[l].table = content.tables[t].id
                    /\ CellEvidence(content)[l].row = content.tables[t].rows[r].id
                    /\ CellEvidence(content)[l].column = content.tables[t].columns[c].id} = {k}
             /\ CellEvidence(content)[k].cell
                  = content.tables[t].rows[r].cells[content.tables[t].columns[c].id]
      BY <2>1, <3>1, EvidenceIs
    <3> QED BY <3>2, <3>3
  <2> HIDE DEF table, n, shown, sheet, family
  <2>7. first \in Nat
    OBVIOUS
  <2>8. Len(shown) - 1 = n /\ first + Len(shown) - 1 = first + n
    BY <2>4, <2>5, <2>7
  <2>9. Of(sheet) = (first + 1)..(first + Len(shown) - 1)
    BY <2>2, <2>6, <2>8
  <2>10. ASSUME NEW c \in 1..(Len(shown) - 1)
         PROVE  LET column == workbook.policy[first + c].column
                IN  \E k \in DOMAIN workbook.evidence :
                      /\ Evidenced(sheet, shown[1], column.id) = {k}
                      /\ shown[c + 1] = DisplayCell(family, column, workbook.evidence[k].cell)
    <3>1. c \in 1..n
      BY <2>8
    <3> DEFINE column == workbook.policy[first + c].column
    <3>2. column = table.columns[c]
      BY <2>6, <3>1
    <3>3. PICK k \in DOMAIN workbook.evidence :
             /\ {l \in DOMAIN workbook.evidence :
                    /\ workbook.evidence[l].table = table.id
                    /\ workbook.evidence[l].row = table.rows[r].id
                    /\ workbook.evidence[l].column = table.columns[c].id} = {k}
             /\ workbook.evidence[k].cell = table.rows[r].cells[table.columns[c].id]
      BY <2>a, <3>1
    <3> HIDE DEF column
    <3>4. Evidenced(sheet, shown[1], column.id) = {k}
      BY <2>2, <2>4, <3>2, <3>3
    <3>5. shown[c + 1] = DisplayCell(family, column, workbook.evidence[k].cell)
      BY <2>4, <3>1, <3>2, <3>3
    <3> QED BY <3>4, <3>5 DEF column
  <2> HIDE DEF Of, Evidenced
  <2> QED BY <2>9, <2>10 DEF shown, sheet
<1> QED BY <1>2, <1>3 DEF ContentIsRecoverable, workbook

-----------------------------------------------------------------------------
(* Documents *)

DocumentsInv == (input = NoInput /\ RenderInv) \/ input \in Inputs

\* A behaviour is of a package that keeps the writer's invariant, or of one
\* of the inputs.
LEMMA DocumentsInvariant == DocumentsSpec => []DocumentsInv
<1>1. DocumentsInit => DocumentsInv
  BY RenderStarts DEF DocumentsInit, DocumentsInv
<1>2. DocumentsInv /\ [DocumentsNext]_documentsVars => DocumentsInv'
  <2> SUFFICES ASSUME DocumentsInv, [DocumentsNext]_documentsVars PROVE DocumentsInv'
    OBVIOUS
  <2>1. CASE input = NoInput /\ RenderInv /\ DocumentsNext
    BY <2>1, RenderStep DEF DocumentsNext, DocumentsInv
  <2>2. CASE input \in Inputs /\ DocumentsNext
    BY <2>2, InputsAssumption DEF DocumentsNext, NoInput
  <2>3. CASE UNCHANGED documentsVars
    <3>1. book' = book /\ writer' = writer /\ temporary' = temporary /\ input' = input
      BY <2>3 DEF documentsVars, renderVars
    <3>2. RenderInv = RenderInv'
      BY <3>1 DEF RenderInv, AtTheEnd, Table
    <3> QED BY <3>1, <3>2 DEF DocumentsInv
  <2> QED BY <2>1, <2>2, <2>3 DEF DocumentsInv
<1> QED BY <1>1, <1>2, PTL DEF DocumentsSpec

\* A text too long for a cell is given whole by fragments that each fit one, a
\* number that is not refused fits the digits of a cell, and texts that are
\* framed as the members of an identity are never taken for others
\* (composite_workbook/identity.py, numeric_display.py, fingerprint.py).
THEOREM TextIsNeverCut == DocumentsSpec => []NothingIsCut
<1>1. DocumentsInv => NothingIsCut
  <2> SUFFICES ASSUME DocumentsInv PROVE NothingIsCut
    OBVIOUS
  <2>1. Is("text") => IsText(Given)
    BY InputsAssumption DEF DocumentsInv, Is, Given, NoInput
  <2>2. Is("magnitude") => Given.magnitude \in Int
    BY InputsAssumption DEF DocumentsInv, Is, Given, NoInput
  <2>3. Is("members") => \A i \in 1..4 : IsText(Given[i])
    BY InputsAssumption DEF DocumentsInv, Is, Given, NoInput
  <2>4. Is("members") => IsText(Given[1]) /\ IsText(Given[2]) /\ IsText(Given[3]) /\ IsText(Given[4])
    BY <2>3
  <2> QED BY <2>1, <2>2, <2>4, FragmentsHold, MagnitudesFit, FramingHolds DEF NothingIsCut
<1> QED BY <1>1, DocumentsInvariant, PTL

\* A number is displayed as the nearest of the places it is displayed with, from
\* a half away from zero and a loss as its gain; the evidence of a body shows each of
\* its leaves once, at a pointer that is read back whatever characters its keys
\* are made of, and leaves none out; and a workbook alone gives every cell of its
\* dataset back, in its unit (composite_workbook/numeric_display.py,
\* pooled_tables.py:111-121, source_values.py:11-28, projection.py,
\* presentation.py, eligibility_display.py).
THEOREM CellsStayTrue == DocumentsSpec => []CellsShowTheirValues
<1>1. DocumentsInv => CellsShowTheirValues
  <2> SUFFICES ASSUME DocumentsInv PROVE CellsShowTheirValues
    OBVIOUS
  <2>1. Is("number") => IsDecimal(Given.decimal) /\ Given.places \in Int
    BY InputsAssumption DEF DocumentsInv, Is, Given, NoInput
  <2>2. Is("body") => IsBody(Given)
    BY InputsAssumption DEF DocumentsInv, Is, Given, NoInput
  <2>3. Is("content") => IsContent(Given)
    BY InputsAssumption DEF DocumentsInv, Is, Given, NoInput
  <2> QED BY <2>1, <2>2, <2>3, NumbersHold, EvidenceHolds, ContentHolds, UnitsHold
          DEF CellsShowTheirValues
<1> QED BY <1>1, DocumentsInvariant, PTL

\* A rendered workbook holds every row of every table once, within every
\* limit; what preflight admits the writer does not refuse before the file is
\* closed and what the writer wrote preflight would have admitted; whatever
\* ends a render leaves no temporary files; and no cell of it is cut
\* (capacity.py:30-74, literal_writer.py:56-164, identity.py:30-42).
THEOREM WorkbooksStayWhole == DocumentsSpec => []WorkbooksAreWhole
<1>1. DocumentsInv /\ NothingIsCut => WorkbooksAreWhole
  <2> SUFFICES ASSUME DocumentsInv, Is("none") PROVE RenderInv
    BY WorkbookParts DEF WorkbooksAreWhole
  <2> QED BY InputsAssumption DEF DocumentsInv, Is
<1> QED BY <1>1, DocumentsInvariant, TextIsNeverCut, PTL

-----------------------------------------------------------------------------
(* What admitted packages show *)

\* A portfolio review draws what was asked for, explains what it draws, and
\* states no figure its rows do not: every panel's part of ReviewsAreTrue
\* (section_selection.py, appendix_glossary.py, allocation_values.py,
\* portfolio_charts.py, attribution_bridge.py, risk_attribution.py,
\* risk_trend.py, drawdown_panel.py).
THEOREM ReviewsStayTrue == DocumentsSpec => []ReviewsAreTrue
<1>1. DocumentsInv => ReviewsAreTrue
  <2> SUFFICES ASSUME DocumentsInv PROVE ReviewsAreTrue
    OBVIOUS
  <2>1. /\ Is("review") => IsReview(Given)
        /\ Is("subjects") => IsReviewData(Given)
        /\ Is("groups") => IsGrouping(Given)
        /\ Is("series") => IsSeries(Given)
    BY InputsAssumption DEF DocumentsInv, Is, Given, NoInput
  <2>2. /\ Is("bridge") => IsBridge(Given)
        /\ Is("risk") => IsRiskSet(Given)
        /\ Is("trend") => IsTrend(Given)
        /\ Is("drawdown") => IsDrawdown(Given)
    BY InputsAssumption DEF DocumentsInv, Is, Given, NoInput
  <2> QED BY <2>1, <2>2, ScopeHolds, AppendixHolds, AllocationHolds, AxisHolds,
             BridgeHolds, DecompositionHolds, TrendHolds, DrawdownHolds
          DEF ReviewsAreTrue
<1> QED BY <1>1, DocumentsInvariant, PTL

\* The windows of an admitted review of returns or of linked contributions
\* cover every day of its horizon once, every figure it shows is a cell of the
\* selected source, its members are counted once, and its products and its
\* custody cover what is shown (composite_workbook/source_products.py,
\* product_tables.py, linked_source.py, linked_tables.py, linked_custody.py).
THEOREM ReturnsStaySourced == DocumentsSpec => []ReturnsAreSourced
<1>1. DocumentsInv => ReturnsAreSourced
  <2> SUFFICES ASSUME DocumentsInv PROVE ReturnsAreSourced
    OBVIOUS
  <2>1. Is("returns") => IsReturns(Given)
    BY InputsAssumption DEF DocumentsInv, Is, Given, NoInput
  <2>2. Is("linked") => IsLinked(Given)
    BY InputsAssumption DEF DocumentsInv, Is, Given, NoInput
  <2> QED BY <2>1, <2>2, HorizonHolds, FiguresHold, ProductsHold, PopulationHolds,
             LinkedPopulationHolds, CustodyHolds DEF ReturnsAreSourced
<1> QED BY <1>1, DocumentsInvariant, PTL

\* A pooled return is shown of members whose flows and valuations are all of
\* a body pinned for the period, only for a root found alone or for the
\* elected fallback, and in the tables of its layout
\* (composite_workbook/pooled_source.py, pooled_policy.py, pooled_tables.py).
THEOREM PooledReturnStaysQualified == DocumentsSpec => []PooledReturnIsQualified
<1>1. DocumentsInv => PooledReturnIsQualified
  <2> SUFFICES ASSUME DocumentsInv PROVE PooledReturnIsQualified
    OBVIOUS
  <2>1. Is("pooled") => IsPooled(Given)
    BY InputsAssumption DEF DocumentsInv, Is, Given, NoInput
  <2> QED BY <2>1, PopulationsAreCovered, ReturnsQualify, TablesFit
          DEF PooledReturnIsQualified
<1> QED BY <1>1, DocumentsInvariant, PTL

\* A source context shows a return since inception of a whole and ready
\* vector alone, every decision of every window of its history once, and the
\* tables its layout names (composite_workbook/source_context.py,
\* source_context_tables.py).
THEOREM ContextStaysWhole == DocumentsSpec => []ContextIsWhole
<1>1. DocumentsInv => ContextIsWhole
  <2> SUFFICES ASSUME DocumentsInv PROVE ContextIsWhole
    OBVIOUS
  <2>1. Is("context") => IsContext(Given)
    BY InputsAssumption DEF DocumentsInv, Is, Given, NoInput
  <2> QED BY <2>1, SinceInceptionHolds, HistoryHolds, ContextTablesFit
          DEF ContextIsWhole
<1> QED BY <1>1, DocumentsInvariant, PTL

\* An eligibility review shows every month of its horizon with each of its
\* members, statuses, assessments and reasons; its corrections are published
\* in order under one policy; and what v7 shows as admitted was admitted while
\* its proof was valid (composite_workbook/eligibility_rows.py,
\* eligibility_population.py, amendment_lineage.py, historical_lineage.py,
\* historical_proof.py).
THEOREM EligibilityStaysShown == DocumentsSpec => []EligibilityIsShown
<1>1. DocumentsInv => EligibilityIsShown
  <2> SUFFICES ASSUME DocumentsInv PROVE EligibilityIsShown
    OBVIOUS
  <2>1. Is("eligibility") => IsEligibility(Given)
    BY InputsAssumption DEF DocumentsInv, Is, Given, NoInput
  <2> QED BY <2>1, PopulationIsShown, CorrectionsFollow, AdmissionsHold
          DEF EligibilityIsShown
<1> QED BY <1>1, DocumentsInvariant, PTL

\* A notice shows every cell of both of its generations where its index says
\* it is, and is of one step between archived documents
\* (composite_workbook/notice_*.py).
THEOREM NoticeStaysWhole == DocumentsSpec => []NoticeIsWhole
<1>1. DocumentsInv => NoticeIsWhole
  <2> SUFFICES ASSUME DocumentsInv PROVE NoticeIsWhole
    OBVIOUS
  <2>1. Is("notice") => IsNotice(Given)
    BY InputsAssumption DEF DocumentsInv, Is, Given, NoInput
  <2> QED BY <2>1, BothSidesHold, CorrectionHolds DEF NoticeIsWhole
<1> QED BY <1>1, DocumentsInvariant, PTL

-----------------------------------------------------------------------------
(* Readiness *)

\* What the probe, /metadata and the scrape say of a process agrees.
LEMMA PosturesAgree == \A p \in Postures : ReadinessAgrees(p)
<1> SUFFICES ASSUME NEW p \in Postures PROVE ReadinessAgrees(p)
  OBVIOUS
<1>1. p.store \in {"ready", "refuses", "raises"} /\ p.draining \in BOOLEAN
          /\ p.runtime \in BOOLEAN /\ p.counted \in BOOLEAN
  BY DEF Postures
<1>2. CASE p.draining
  BY <1>1, <1>2 DEF ReadinessAgrees, ReadinessStatus, MetadataState, Refreshed,
         Supportability
<1>3. CASE ~p.draining
  BY <1>1, <1>3 DEF ReadinessAgrees, ReadinessStatus, MetadataState, Refreshed,
         Supportability
<1> QED BY <1>2, <1>3

\* While the store can be asked, the readiness probe, /metadata and the scrape
\* agree whether this process takes work, and when it cannot, no probe says it
\* does (render_foundation.py:53-151, system.py:67-135).
THEOREM ReadinessIsAlwaysOne == DocumentsSpec => []ReadinessIsOne
<1>1. DocumentsInv => ReadinessIsOne
  BY PosturesAgree, InputsAssumption DEF DocumentsInv, ReadinessIsOne, Is, Given, NoInput
<1> QED BY <1>1, DocumentsInvariant, PTL

=============================================================================
