---------------------------- MODULE ReviewPanels -----------------------------
(***************************************************************************)
(* The figures a portfolio review draws: allocation groups, the ring, the  *)
(* chart's axis, the attribution bridge, risk attribution, the risk trend  *)
(* and drawdowns.  src/app/services/{allocation_values,portfolio_charts,   *)
(* chart_geometry,attribution_bridge,risk_attribution,risk_trend,          *)
(* drawdown_panel}.py and typst_tables.py.                                 *)
(*                                                                         *)
(* A figure is a set: of one integer, in the unit its panel rounds to, or  *)
(* empty where it is missing or is not a finite number.  Two panels let    *)
(* what is not finite through: theirs is a reading, of what it is and of   *)
(* the integer it is when it is a number.                                  *)
(***************************************************************************)
EXTENDS ReviewScope

CONSTANT
    PanelLimits     \* rows of a grouping, colours, slices a ring can name
                    \* however thin, and the least weight it names beyond

ASSUME PanelLimitsAssumption ==
    /\ {PanelLimits.rows, PanelLimits.colours} \subseteq Nat \ {0}
    /\ {PanelLimits.uncrowded, PanelLimits.nameable} \subseteq Int

Value(figure) == CHOOSE n \in figure : TRUE
Total(numbers) ==
    LET sum[n \in 0..Len(numbers)] == IF n = 0 THEN 0 ELSE sum[n - 1] + numbers[n]
    IN  sum[Len(numbers)]
Highest(numbers) == CHOOSE n \in Range(numbers) : \A m \in Range(numbers) : m <= n
Lowest(numbers) == CHOOSE n \in Range(numbers) : \A m \in Range(numbers) : n <= m

\* Sorted by their keys, those with the same key as they came.
SortedBy(seq, keys) ==
    LET Before(i) == {j \in DOMAIN seq : \/ keys[j] < keys[i]
                                         \/ (keys[j] = keys[i] /\ j < i)}
    IN  [place \in DOMAIN seq |->
            seq[CHOOSE i \in DOMAIN seq : Cardinality(Before(i)) = place - 1]]

-----------------------------------------------------------------------------
(* Allocation: rows of a label, a weight and a value *)

\* Mutant of QualifiedSum: what is missing counts as zero.
SumOfTheSupplied(figures) ==
    {Total([i \in DOMAIN figures |-> IF figures[i] = {} THEN 0 ELSE Value(figures[i])])}

\* A sum is known when every one of its parts is.
QualifiedSum(figures) ==
    IF {} \in Range(figures) THEN {}
    ELSE {Total([i \in DOMAIN figures |-> Value(figures[i])])}

Weights(buckets) == [i \in DOMAIN buckets |-> buckets[i].weight]
Values(buckets) == [i \in DOMAIN buckets |-> buckets[i].value]

AllocationBuckets(rows) ==
    LET labels == Once([i \in DOMAIN rows |-> rows[i].label])
        Of(label) == Picked(rows, {i \in DOMAIN rows : rows[i].label = label})
    IN  [i \in DOMAIN labels |->
            [label |-> labels[i], weight |-> QualifiedSum(Weights(Of(labels[i]))),
             value |-> QualifiedSum(Values(Of(labels[i])))]]

Complete(bucket) == bucket.weight # {} /\ bucket.value # {}

\* The buckets that are complete, and those that are not.
Known(buckets) == Picked(buckets, {i \in DOMAIN buckets : Complete(buckets[i])})
Unknown(buckets) == Picked(buckets, {i \in DOMAIN buckets : ~Complete(buckets[i])})

Heaviest(buckets) == SortedBy(buckets, [i \in DOMAIN buckets |-> -Value(buckets[i].weight)])

OtherOf(buckets) ==
    [label |-> "Other", weight |-> QualifiedSum(Weights(buckets)),
     value |-> QualifiedSum(Values(buckets))]

\* Every group that is not fully known is kept; of the others the smallest
\* are shown as one.
FoldedBuckets(buckets) ==
    LET unknown == Unknown(buckets)
        known == Heaviest(Known(buckets))
        room == PanelLimits.rows - Len(unknown) - 1
        kept == IF room > 0 THEN room ELSE 0
    IN  CASE Len(buckets) <= PanelLimits.rows -> [shown |-> unknown \o known, folded |-> 0]
          [] Len(buckets) > PanelLimits.rows ->
                IF kept >= Len(known) THEN [shown |-> unknown, folded |-> 0]
                ELSE [shown |-> unknown \o SubSeq(known, 1, kept)
                                  \o <<OtherOf(SubSeq(known, kept + 1, Len(known)))>>,
                      folded |-> Len(known) - kept]

\* The share of the portfolio a grouping states, and what it folded.
CompositionNote(buckets) ==
    [coverage |-> QualifiedSum(Weights(buckets)), folded |-> FoldedBuckets(buckets).folded]

-----------------------------------------------------------------------------
(* The ring *)

RingEntries(rows) ==
    LET buckets == AllocationBuckets(rows)
    IN  Heaviest(Picked(buckets,
            {i \in DOMAIN buckets : /\ buckets[i].label # ""
                                    /\ Complete(buckets[i])
                                    /\ Value(buckets[i].weight) > 0}))

NameableCount(entries) ==
    LET visible == {i \in DOMAIN entries : Value(entries[i].weight) >= PanelLimits.nameable}
        named == IF Len(entries) > PanelLimits.uncrowded THEN Cardinality(visible)
                 ELSE Len(entries)
    IN  IF named < Len(entries) \/ named > PanelLimits.colours
        THEN IF named < PanelLimits.colours THEN named ELSE PanelLimits.colours - 1
        ELSE named

RingSlices(rows) ==
    LET entries == RingEntries(rows)
        named == NameableCount(entries)
    IN  SubSeq(entries, 1, named)
          \o IF named = Len(entries) THEN <<>>
             ELSE <<OtherOf(SubSeq(entries, named + 1, Len(entries)))>>

-----------------------------------------------------------------------------
(* The axis of the chart: figures and steps are tenths of a percent *)

TickCount == 5

FloorPercent(thousandths) == thousandths \div 1000
CeilingPercent(thousandths) == -((-thousandths) \div 1000)

\* Whole percents about the series and zero, with a padding.
ChartBounds(series) ==
    LET values == <<0>> \o series
        spread == 15 * (Highest(values) - Lowest(values))
        padding == IF spread > 800 THEN spread ELSE 800
    IN  [low |-> FloorPercent(100 * Lowest(values) - padding),
         high |-> CeilingPercent(100 * Highest(values) + padding)]

\* The round steps of a chart of up to 400 percent.
NiceSteps == <<5, 10, 20, 25, 50, 100, 200, 250, 500, 1000>>

NiceStep(span) ==
    NiceSteps[CHOOSE i \in DOMAIN NiceSteps :
                 /\ span <= NiceSteps[i] * (TickCount - 1)
                 /\ \A j \in 1..(i - 1) : span > NiceSteps[j] * (TickCount - 1)]

NiceTicks(bounds) ==
    LET step == NiceStep(10 * (bounds.high - bounds.low))
        first == ((10 * bounds.low) \div step) * step
        \* The last tick is within half a step of the bound, on either side.
        last == (2 * (10 * bounds.high - first) + step) \div (2 * step)
    IN  [i \in 1..(last + 1) |-> first + (i - 1) * step]

ChartAxis(series) ==
    LET bounds == ChartBounds(series)
        ticks == NiceTicks(bounds)
    IN  IF Len(ticks) < 2 THEN <<10 * bounds.low, 10 * bounds.high>> ELSE ticks

-----------------------------------------------------------------------------
(* The attribution bridge: the effects, the residual and the stated total *)

BridgeSegments(block) ==
    LET figures == block.effects \o <<block.residual>>
    IN  Picked(figures, {i \in DOMAIN figures : figures[i] # {}})

BridgeDropped(block) == Cardinality({i \in DOMAIN block.effects : block.effects[i] = {}})

\* Where each segment starts, and where the last one ends.
BridgePositions(block) ==
    LET parts == BridgeSegments(block)
    IN  [i \in 1..(Len(parts) + 1) |->
            Total([j \in 1..(i - 1) |-> Value(parts[j])])]

BridgeTrack(block) ==
    LET places == BridgePositions(block) \o <<Value(block.total)>>
        high == Highest(places)
    IN  [low |-> Lowest(places), high |-> IF high = Lowest(places) THEN high + 1 ELSE high]

BridgeIsDrawn(block) == block.posture = "ready" /\ block.total # {}

-----------------------------------------------------------------------------
(* Risk attribution: figures in halves of the last place stated            *)

ContributorIsRead(row) ==
    row.named /\ row.component # {} /\ row.percent # {} /\ row.extras # "unreadable"

\* As many half places as there were roundings; an infinity, or a text that
\* is shown as it came, is no sum.
ContributionsReconcile(set) ==
    LET total == Total([i \in DOMAIN set.rows |-> Value(set.rows[i].component)])
        gap == total - set.reconciled.of
    IN  set.reconciled.is = "number" /\ -Len(set.rows) <= gap /\ gap <= Len(set.rows)

RiskSet(set) ==
    CASE set.posture = "empty" -> "not included"
      [] set.posture = "unavailable" -> "not available"
      [] set.posture = "unrecognised" -> "no posture"
      [] set.posture = "ready" ->
            IF set.unit \notin {"decimal_ratio", "unitless"} THEN "no unit"
            ELSE IF \/ set.rows = <<>>
                    \/ \E row \in Range(set.rows) : ~ContributorIsRead(row)
                    \/ {} \in {set.residual, set.total} \/ set.reconciled.is = "none"
                 THEN "unreadable"
            \* The comparison of a nan is not caught.
            ELSE IF set.reconciled.is = "nan" THEN "raises"
            ELSE IF ContributionsReconcile(set) THEN "drawn" ELSE "does not sum"

-----------------------------------------------------------------------------
(* The risk trend: slots of a date and a figure, or a gap that is stated *)

SlotIsGap(slot) == slot.posture # "" \/ (slot.value = {} /\ ~slot.unread)

SlotIsRead(slot) ==
    /\ slot.date # {}
    /\ IF SlotIsGap(slot)
       THEN slot.posture = "not_computed" /\ slot.value = {} /\ ~slot.unread
       ELSE ~slot.unread

TrendIsPlaced(series) ==
    /\ \A slot \in Range(series) : SlotIsRead(slot)
    /\ \A i \in 1..(Len(series) - 1) : Value(series[i].date) <= Value(series[i + 1].date)
    /\ Cardinality({i \in DOMAIN series : ~SlotIsGap(series[i])}) >= 2

\* A dot has the place of its slot and its height below the highest.
TrendDots(series) ==
    LET order == Picked([i \in DOMAIN series |-> i],
                        {i \in DOMAIN series : ~SlotIsGap(series[i])})
        heights == [i \in DOMAIN order |-> Value(series[order[i]].value)]
    IN  [i \in DOMAIN order |->
            [at |-> order[i], below |-> Highest(heights) - heights[i]]]

-----------------------------------------------------------------------------
(* Drawdowns: a depth is read with float(), in tenths of a percent, and    *)
(* minus infinity is an integer below every number's                       *)

\* What is not above zero, which nan and minus infinity are not either.
IsDepth(d) == d.is \in {"nan", "-inf"} \/ (d.is = "number" /\ d.of <= 0)

\* Nothing is less than nan, and nan is not less than anything.
Less(d, e) == d.is # "nan" /\ e.is # "nan" /\ d.of < e.of

DepthPlaces(depths) == {i \in DOMAIN depths : IsDepth(depths[i])}

DrawdownPoints(points) == Picked(points, DepthPlaces(points))

\* min() keeps a nan it starts with and passes by any other: the gridlines of
\* nan and of infinity cannot be counted, and a nan that is plotted is a name
\* Typst does not know.
UnderwaterChart(points) ==
    CASE Len(points) < 2 -> "none"
      [] Len(points) >= 2 ->
            IF points[1].is = "nan" \/ \E p \in Range(points) : p.is = "-inf" THEN "raises"
            ELSE IF \E p \in Range(points) : p.is = "nan" THEN "does not compile"
            ELSE "drawn"

AxisSteps == <<10, 20, 50, 100, 200, 500, 1000>>

\* The first step that reaches the deepest in four.
AxisStep(depth) ==
    LET reaching == {i \in DOMAIN AxisSteps : depth <= 4 * AxisSteps[i]}
    IN  IF reaching = {} THEN Last(AxisSteps)
        ELSE AxisSteps[CHOOSE i \in reaching : \A j \in reaching : i <= j]

GridlineCount(depth) ==
    LET count == (depth + AxisStep(depth) - 1) \div AxisStep(depth)
    IN  IF count = 0 THEN 1 ELSE count

PresentedEpisodeLimit == 3

Depths(episodes) == [i \in DOMAIN episodes |-> episodes[i].depth]

\* How many of a sorted list a binary search for an episode leaves before it.
Insertion(list, episode) ==
    LET before[l, r \in 0..Len(list)] ==
            LET middle == (l + r) \div 2
            IN  IF l = r THEN l
                ELSE IF Less(episode.depth, list[middle + 1].depth)
                     THEN before[l, middle] ELSE before[middle + 1, r]
    IN  before[0, Len(list)]

\* list.sort of fewer than 64: the run the list starts with, turned over when
\* it falls, and each of the others inserted by a search of those before it.
ListSort(episodes) ==
    LET Falls(i) == Less(episodes[i].depth, episodes[i - 1].depth)
        run == CHOOSE n \in DOMAIN episodes :
                  /\ \A i \in 2..n : Falls(i) = Falls(2)
                  /\ n < Len(episodes) => n > 1 /\ Falls(n + 1) # Falls(2)
        start == SubSeq(episodes, 1, run)
        sorted[n \in run..Len(episodes)] ==
            IF n > run
            THEN InsertAt(sorted[n - 1], Insertion(sorted[n - 1], episodes[n]) + 1, episodes[n])
            ELSE IF run > 1 /\ Falls(2) THEN Reverse(start) ELSE start
    IN  sorted[Len(episodes)]

\* Where every two depths compare, a sort of them is the stable one.
SortedEpisodes(episodes) ==
    LET usable == Picked(episodes, DepthPlaces(Depths(episodes)))
    IN  IF \E e \in Range(usable) : e.depth.is = "nan" THEN ListSort(usable)
        ELSE SortedBy(usable, [i \in DOMAIN usable |-> usable[i].depth.of])

PresentedEpisodes(episodes) ==
    LET sorted == SortedEpisodes(episodes)
        count == IF Len(sorted) > PresentedEpisodeLimit THEN PresentedEpisodeLimit
                 ELSE Len(sorted)
    IN  [shown |-> SubSeq(sorted, 1, count),
         of |-> IF Len(sorted) > PresentedEpisodeLimit THEN {Len(sorted)} ELSE {}]

-----------------------------------------------------------------------------
(* What a panel may be given: figures, in sequences, whatever they are *)

IsFigure(figure) == figure \subseteq Int /\ \A m, n \in figure : m = n

IsReading(r) == r.is \in {"number", "nan", "inf", "-inf", "text", "none"} /\ r.of \in Int

IsGrouping(rows) ==
    /\ rows \in Seq(Range(rows))
    /\ \A row \in Range(rows) : IsFigure(row.weight) /\ IsFigure(row.value)

\* The series of a chart its round steps are for.
IsSeries(series) ==
    /\ series \in Seq(Int)
    /\ 10 * (ChartBounds(series).high - ChartBounds(series).low)
          <= Last(NiceSteps) * (TickCount - 1)

IsBridge(block) ==
    /\ block.effects \in Seq(Range(block.effects))
    /\ \A figure \in Range(block.effects) \cup {block.residual, block.total} : IsFigure(figure)

IsRiskSet(set) ==
    /\ set.posture \in {"empty", "unavailable", "unrecognised", "ready"}
    /\ set.rows \in Seq(Range(set.rows))
    /\ \A row \in Range(set.rows) : IsFigure(row.component)
    /\ IsReading(set.reconciled)

IsTrend(series) ==
    /\ series \in Seq(Range(series))
    /\ \A slot \in Range(series) : /\ IsFigure(slot.date) /\ IsFigure(slot.value)
                                  /\ slot.unread \in BOOLEAN

IsDrawdown(panel) ==
    /\ panel.points \in Seq(Range(panel.points))
    /\ panel.episodes \in Seq(Range(panel.episodes))
    /\ LET depths == Range(panel.points) \cup Range(Depths(panel.episodes))
       IN  /\ \A d \in depths : IsReading(d)
           /\ \A d, e \in depths : d.is = "-inf" /\ e.is = "number" => d.of < e.of

-----------------------------------------------------------------------------
(* Properties *)

\* A grouping loses nothing: what is not fully known is named, the rest adds
\* up to what it was, and only the smallest are shown as one; a share that
\* is stated is of every row, and the ring has a colour for each slice
\* (allocation_values.py:34-94, portfolio_charts.py:157-241,
\* typst_tables.py:473-543).
AllocationIsWhole(rows) ==
    LET buckets == AllocationBuckets(rows)
        folded == FoldedBuckets(buckets)
        shown == folded.shown
        slices == RingSlices(rows)
    IN  /\ \A row \in Range(rows) :
              Complete(row) \/ \E b \in Range(shown) : b.label = row.label /\ ~Complete(b)
        /\ QualifiedSum(Weights(Known(shown))) = QualifiedSum(Weights(Known(buckets)))
        /\ QualifiedSum(Values(Known(shown))) = QualifiedSum(Values(Known(buckets)))
        /\ \/ Len(shown) <= PanelLimits.rows
           \/ Len(Known(shown)) <= 1
        /\ folded.folded > 0 =>
              \A b \in Range(Known(shown)) \ {Last(shown)} : \A other \in Range(Known(buckets)) :
                 Value(other.weight) > Value(b.weight) =>
                    \E c \in Range(shown) : c.label = other.label
        /\ CompositionNote(buckets).coverage # {} => \A row \in Range(rows) : row.weight # {}
        /\ Len(slices) <= PanelLimits.colours
        /\ QualifiedSum(Weights(slices)) = QualifiedSum(Weights(RingEntries(rows)))

\* Every segment of a bridge, and its total, is on the track between its
\* ends, and an effect that cannot be placed is counted as dropped
\* (attribution_bridge.py:65-93, 184-239).
BridgeIsOnTheTrack(block) ==
    BridgeIsDrawn(block) =>
        LET track == BridgeTrack(block)
            places == BridgePositions(block)
        IN  /\ track.low < track.high
            /\ \A place \in {0, Value(block.total)} \cup Range(places) :
                  track.low <= place /\ place <= track.high
            /\ Len(BridgeSegments(block)) + BridgeDropped(block)
                  = Len(block.effects) + Cardinality(block.residual)

\* A decomposition that is drawn is drawn whole and adds up, to within the
\* rounding of its rows, to the sum printed beside it
\* (risk_attribution.py:129-213).
DecompositionAddsUp(set) ==
    RiskSet(set) = "drawn" =>
        /\ \A row \in Range(set.rows) : row.component # {} /\ row.percent # {}
        /\ set.residual # {} /\ set.total # {}
        /\ LET total == Total([i \in DOMAIN set.rows |-> Value(set.rows[i].component)])
           IN  /\ set.reconciled.is = "number"
               /\ set.reconciled.of \in (total - Len(set.rows))..(total + Len(set.rows))

\* A trend that is drawn has a dot for every slot that was computed and a
\* hole for every other, in the order of their dates, and equal figures at
\* equal heights (risk_trend.py:284-387).
TrendIsStated(series) ==
    TrendIsPlaced(series) =>
        LET dots == TrendDots(series)
        IN  /\ Len(dots) >= 2
            /\ \A i \in DOMAIN series :
                  (\E d \in Range(dots) : d.at = i) <=> series[i].value # {}
            /\ \A i, j \in DOMAIN dots :
                  i < j => /\ dots[i].at < dots[j].at
                           /\ Value(series[dots[i].at].date) <= Value(series[dots[j].at].date)
            /\ \A d, e \in Range(dots) :
                  Value(series[d.at].value) - Value(series[e.at].value) = e.below - d.below

\* No episode that is left out is deeper than one that is shown.
DeepestAreShown(panel) ==
    LET presented == PresentedEpisodes(panel.episodes)
    IN  \A shown \in Range(presented.shown) : \A e \in Range(panel.episodes) :
           IsDepth(e.depth) /\ Less(e.depth, shown.depth) => e \in Range(presented.shown)

\* A chart that is drawn has a number at each of its points, all of them on
\* the axis, which has four steps or fewer unless all was lost; and when no
\* depth is nan the episodes shown are the deepest, whose number is stated
\* when there are more (drawdown_panel.py:60-215).
DrawdownsAreTheDeepest(panel) ==
    LET points == DrawdownPoints(panel.points)
        depths == [i \in DOMAIN points |-> -points[i].of]
        presented == PresentedEpisodes(panel.episodes)
        sorted == SortedEpisodes(panel.episodes)
    IN  /\ UnderwaterChart(points) = "drawn" =>
              LET deepest == Highest(depths)
                  axis == GridlineCount(deepest) * AxisStep(deepest)
              IN  /\ \A p \in Range(points) : p.is = "number" /\ p.of \in (-axis)..0
                  /\ deepest <= 1000 => GridlineCount(deepest) <= 4
        /\ (\A e \in Range(panel.episodes) : e.depth.is # "nan") =>
              /\ DeepestAreShown(panel)
              /\ presented.of = {} <=> Len(sorted) = Len(presented.shown)

\* A tick of the chart's axis is at zero (portfolio_charts.py:244-341).
AxisHasZero(series) == 0 \in Range(ChartAxis(series))

\* The series lies between the ends of its axis, so no point of it is drawn
\* at the edge in place of where it is.
SeriesLiesInItsAxis(series) ==
    LET axis == ChartAxis(series)
    IN  \A v \in Range(series) : axis[1] <= v /\ v <= Last(axis)

=============================================================================
