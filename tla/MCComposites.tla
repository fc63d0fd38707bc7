---------------------------- MODULE MCComposites ----------------------------
(***************************************************************************)
(* Datasets of v3 and v5: one that is right, and what it becomes by one or *)
(* two edits of its source, after which it is pinned and shown again, or   *)
(* by an edit of its pins or its tables.                                   *)
(***************************************************************************)
EXTENDS MCReview

WithoutLast(s) == SubSeq(s, 1, Len(s) - 1)

-----------------------------------------------------------------------------
(* Linked contributions: m1 in both windows, m2 in the second *)

LinkedWindowsOf == <<Win(0), Win(1)>>

LinkedPeriod(member, w) ==
    [portfolio |-> member, start |-> w.start, end |-> w.end, seq |-> w.seq,
     version |-> w.id, calculation |-> "k"]

LinkedBase ==
    LET range == [composite |-> "c", start |-> 0, end |-> LastOf(1), method |-> "m"]
    IN  [tenant |-> "t",
         selection |->
            [tenant |-> "t", request |-> [materializations |-> <<0, 1>>] @@ range,
             windows |-> LinkedWindowsOf, engine |-> "e"],
         source |->
            [cumulative |-> 3,
             manifest |-> [windows |-> LinkedWindowsOf, engine |-> "e"],
             members |-> <<[portfolio |-> "m1", linked |-> 1, count |-> 2],
                           [portfolio |-> "m2", linked |-> 2, count |-> 1]>>,
             periods |-> <<LinkedPeriod("m1", Win(0)), LinkedPeriod("m1", Win(1)),
                           LinkedPeriod("m2", Win(1))>>] @@ range,
         facts |->
            [disclosures |-> SetToSeq({[code |-> c] : c \in RequiredDisclosures}),
             uncaptured |-> SetToSeq({[product |-> p, value |-> NoText] :
                                         p \in UncapturedProducts})]]

LinkedEdit(d, edit) ==
    CASE edit = "uncounted"  -> [d EXCEPT !.source.members[2].count = 2]
      [] edit = "twice"      -> [d EXCEPT !.source.members[2].portfolio = "m1"]
      [] edit = "repeated"   -> [d EXCEPT !.source.periods[2] = d.source.periods[1]]
      [] edit = "dropped"    -> [d EXCEPT !.source.periods = WithoutLast(@)]
      [] edit = "added"      -> [d EXCEPT !.source.periods =
                                     Append(@, LinkedPeriod("m2", Win(0)))]
      [] edit = "stranger"   -> [d EXCEPT !.source.periods =
                                     Append(@, LinkedPeriod("m3", Win(0)))]
      [] edit = "remade"     -> [d EXCEPT !.source.periods[1].seq = 2]
      [] edit = "unknown"    -> [d EXCEPT !.source.periods[1].calculation = NoText]
      [] edit = "range"      -> [d EXCEPT !.source.end = LastOf(2)]
      [] edit = "undisclosed" -> [d EXCEPT !.facts.disclosures = WithoutLast(@)]
      [] edit = "renamed"    -> [d EXCEPT !.facts.uncaptured[1].product = "Risk"]
      [] edit = "tenant"     -> [d EXCEPT !.tenant = "u"]

LinkedEdits ==
    {"uncounted", "twice", "repeated", "dropped", "added", "stranger", "remade", "unknown",
     "range", "undisclosed", "renamed", "tenant"}

LinkedShown(d, id) ==
    [id |-> id,
     columns |-> [k \in DOMAIN LinkedColumns[id] |->
                     <<LinkedColumns[id][k], ColumnType(LinkedColumns[id][k])>>],
     rows |-> [i \in DOMAIN LinkedRows(d, id) |->
                 [column \in Range(LinkedColumns[id]) |->
                    LET value == LinkedRows(d, id)[i][column]
                        missing == column \in {"calculation", "value"} /\ value = NoText
                    IN  [at |-> <<id, i, column>>, value |-> value,
                         reasons |-> IF missing THEN {LinkedReason(id, column)} ELSE {}]]]]

TableEdit(tables, edit) ==
    CASE edit = "short" -> [tables EXCEPT ![3].rows = WithoutLast(@)]
      [] edit = "order" -> [tables EXCEPT ![3].rows = Reverse(@)]
      [] edit = "text"  -> [tables EXCEPT ![2].columns[2][2] = "TEXT"]
      [] edit = "value" -> [tables EXCEPT ![2].rows[1]["count"].value = 1]
      [] edit = "table" -> WithoutLast(tables)
      [] OTHER -> tables

LinkedDatasets ==
    (Edits(LinkedEdits) \X {"none"})
      \cup ({{}} \X {"short", "order", "text", "value", "table", "portfolio", "year"})

LinkedOf(code) ==
    LET d == Edited(LinkedBase, code[1], LinkedEdit)
        pinned == [d EXCEPT !.selection = [digest |-> d.source] @@ @]
        tables == [k \in DOMAIN LinkedTableNames |-> LinkedShown(d, LinkedTableNames[k])]
        data == [digest |-> d.source, tables |-> TableEdit(tables, code[2])] @@ pinned
        scope == CustodyScope(data, "c", 0, d.selection.request.end)
    IN  [data |-> data, revision |-> "v", snapshot |-> "n", lineage |-> <<"n", "v">>,
         archive |->
            [identity |-> data.selection, revision |-> "v",
             scope |-> CASE code[2] = "portfolio" -> [scope EXCEPT !.portfolio = "m1"]
                         [] code[2] = "year" -> [scope EXCEPT !.end = LastOf(3)]
                         [] OTHER -> scope]]

-----------------------------------------------------------------------------
(* A pooled return over days 1 to 4 of two members *)

PooledPin(id) ==
    [id |-> id, from |-> 0, to |-> 5, pages |-> <<1, 2>>, pageCount |-> 2,
     digest |-> id]

Money(member, pin) == [portfolio |-> member, currency |-> "CHF", pin |-> pin]

Covered(member) ==
    [portfolio |-> member, complete |-> TRUE, pin |-> "p2", from |-> 1, to |-> 4]

PooledPolicyOf == [fallback |-> "ALLOW_MODIFIED_DIETZ", dayCount |-> "ACT365"]

PooledScope ==
    [tenant |-> "t", composite |-> "c", currency |-> "CHF", start |-> 1, end |-> 4]

PooledBundle ==
    [complete |-> TRUE, count |-> 2, expected |-> <<"m1", "m2">>,
     pins |-> <<PooledPin("p1"), PooledPin("p2")>>, compatible |-> <<"p2", "p1">>,
     populationPin |-> "p1", bodies |-> [id \in {"p1", "p2"} |-> id],
     policy |-> PooledPolicyOf,
     membership |-> <<[portfolio |-> "m1", status |-> "INCLUDED", from |-> 1, to |-> 4]>>,
     valuations |-> <<Money("m1", "p1"), Money("m2", "p1")>>, flows |-> <<>>,
     coverage |-> <<Covered("m1"), Covered("m2")>>] @@ PooledScope

XirrOutcome ==
    [availability |-> "AVAILABLE", method |-> "XIRR", value |-> 1, annualized |-> 2,
     holding |-> 3, reasons |-> {}, interval |-> <<1, 4>>, dayCount |-> "ACT365",
     solver |-> <<"CALCULATED", "XIRR">>, fallbackFrom |-> NoText,
     convergence |-> [converged |-> TRUE, unique |-> TRUE, nonSimple |-> FALSE,
                      roots |-> 1, iterations |-> 3, maxIterations |-> 3,
                      dayCount |-> "ACT365"]]

DietzOutcome ==
    [XirrOutcome EXCEPT
        !.availability = "FALLBACK_ANALYSIS", !.method = "MODIFIED_DIETZ",
        !.annualized = Absent, !.holding = Absent, !.fallbackFrom = "XIRR",
        !.solver = <<"FALLBACK_USED", "MODIFIED_DIETZ">>, !.convergence.roots = 2]

NoOutcome ==
    [XirrOutcome EXCEPT
        !.availability = "NOT_CALCULABLE", !.method = NoText, !.value = Absent,
        !.annualized = Absent, !.holding = Absent, !.reasons = {"NO_ROOT"},
        !.dayCount = NoText, !.solver = <<"FAILED", "XIRR">>, !.convergence.roots = 0]

PooledResponse(calculation, corrects, outcome) ==
    [calculation |-> calculation, composite |-> "c", manifest |-> "mf",
     corrects |-> corrects, outcome |-> outcome,
     observation |-> [manifest |-> "mf", controls |-> {"m1", "m2"},
                      flowDates |-> <<2>>, bundle |-> PooledBundle] @@ PooledScope,
     body |-> <<"object", <<<<<<"a">>, <<"leaf", 1>>>>, <<<<"/">>, <<"array", <<>>>>>>>>>>]

PooledBase(outcome, parent) ==
    [tenant |-> "t",
     selection |->
        [calculation |-> "k2",
         corrects |-> IF parent = NoDocument THEN NoText ELSE "k1",
         manifest |-> "mf", policy |-> PooledPolicyOf, expected |-> <<"m1", "m2">>,
         pins |-> PooledBundle.pins] @@ PooledScope,
     source |->
        PooledResponse("k2", IF parent = NoDocument THEN NoText ELSE "k1", outcome),
     predecessor |-> parent]

PooledEdit(p, edit) ==
    CASE edit = "incomplete" -> [p EXCEPT !.source.observation.bundle.complete = FALSE]
      [] edit = "member"     -> [p EXCEPT !.source.observation.bundle.coverage[2] =
                                     Covered("m1")]
      [] edit = "partial"    -> [p EXCEPT !.source.observation.bundle.coverage[2].to = 3]
      [] edit = "body"       -> [p EXCEPT !.source.observation.bundle.bodies["p1"] = "x"]
      [] edit = "early"      -> [p EXCEPT !.source.observation.bundle.pins[1].from = 2,
                                          !.selection.pins[1].from = 2]
      [] edit = "page"       -> [p EXCEPT !.source.observation.bundle.pins[1].pages = <<1>>,
                                          !.selection.pins[1].pages = <<1>>]
      [] edit = "currency"   -> [p EXCEPT
                                     !.source.observation.bundle.valuations[2].currency = "USD"]
      [] edit = "amountless" -> [p EXCEPT !.source.observation.bundle.valuations = <<>>]
      [] edit = "flow"       -> [p EXCEPT !.source.observation.flowDates = <<2, 5>>]
      [] edit = "late"       -> [p EXCEPT !.source.outcome.convergence.iterations = 4]
      [] edit = "roots"      -> [p EXCEPT !.source.outcome.convergence.roots = 2]
      [] edit = "unreasoned" -> [p EXCEPT !.source.outcome.reasons = {}]
      [] edit = "available"  -> [p EXCEPT !.source.outcome.availability = "AVAILABLE"]
      [] edit = "rejected"   -> [p EXCEPT !.source.outcome.availability = "NOT_CALCULABLE"]
      [] edit = "noFallback" -> [p EXCEPT !.source.observation.bundle.policy.fallback = "DENY",
                                          !.selection.policy.fallback = "DENY"]
      [] edit = "forgotten"  -> [p EXCEPT !.predecessor = NoDocument]
      [] edit = "control"    -> [p EXCEPT !.source.observation.controls = {"m1"}]
      [] edit = "manifest"   -> [p EXCEPT !.source.manifest = "mg"]

PooledEdits ==
    {"incomplete", "member", "partial", "body", "early", "page", "currency",
     "amountless", "flow", "late", "roots", "unreasoned", "available", "rejected",
     "noFallback", "forgotten", "control", "manifest"}

PooledOutcomes == <<XirrOutcome, DietzOutcome, NoOutcome>>

\* What a predecessor may be: none, or by its outcome.
Predecessor(i) ==
    IF i = 0 THEN NoDocument ELSE PooledResponse("k1", NoText, PooledOutcomes[i])

PooledDatasets ==
    ((1..3) \X (0..3) \X Edits(PooledEdits) \X {"none"})
      \cup ((1..3) \X {0, 1} \X {{}} \X {"short", "reordered", "digest"})

PooledOf(code) ==
    LET p == Edited(PooledBase(PooledOutcomes[code[1]], Predecessor(code[2])),
                    code[3], PooledEdit)
        digest == IF code[4] = "digest" THEN Predecessor(1) ELSE p.source
        pinned == [p EXCEPT !.selection =
                      [digest |-> digest, bundleDigest |-> p.source.observation.bundle,
                       predecessorDigest |-> Predecessor(code[2])] @@ @]
        tables == PooledTables(pinned)
    IN  [tables |-> CASE code[4] = "short" -> WithoutLast(tables)
                      [] code[4] = "reordered" -> Reverse(tables)
                      [] OTHER -> tables] @@ pinned

\* Bodies: what an object or an array of leaves, objects and arrays may be.
BodyLeaves == {<<"leaf", 1>>, <<"object", <<>>>>, <<"array", <<>>>>}
BodyKeys == {<<"a">>, <<"~">>, <<"/">>, <<"~", "1">>, <<"~", "0">>, <<"1">>}

ObjectOf(key, tree) == <<"object", <<<<key, tree>>>>>>

Wide ==
    {<<"array", s>> : s \in [1..2 -> BodyLeaves]}
      \cup {<<"object", <<<<k, t>>, <<l, <<"leaf", 1>>>>>>>> :
               <<k, l>> \in {p \in BodyKeys \X BodyKeys : p[1] # p[2]}, t \in BodyLeaves}

Bodies ==
    BodyLeaves \cup Wide \cup {ObjectOf(k, t) : k \in BodyKeys, t \in Wide}
      \cup {<<"array", <<t, u>>>> : t \in Wide, u \in BodyLeaves}

=============================================================================
