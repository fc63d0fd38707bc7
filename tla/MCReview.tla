------------------------------ MODULE MCReview ------------------------------
(***************************************************************************)
(* Datasets of v1, v2 and v8: two years of two months, everything pinned,  *)
(* then edited.                                                            *)
(***************************************************************************)
EXTENDS Documents

Win(i) == [id |-> i, start |-> FirstOf(i), end |-> LastOf(i), seq |-> 1]

\* Up to two of the edits of a dataset.
Edits(names) == {{}} \cup {{e, f} : e, f \in names}

Edited(d, edits, Edit(_, _)) == FoldLeft(Edit, d, SetToSeq(edits))

Mem(w) == [portfolio |-> "m1", start |-> w.start, end |-> w.end, seq |-> w.seq,
           fingerprint |-> "f1"]

Per(w) == [start |-> w.start, end |-> w.end, seq |-> w.seq, status |-> "READY",
           return |-> 1, cumulative |-> 2, count |-> 2,
           members |-> <<Mem(w), [Mem(w) EXCEPT !.portfolio = "m2"]>>,
           fingerprints |-> {"f1"}, view |-> "GROSS", currency |-> "CHF"]

Sel(windows) ==
    [tenant |-> "t", composite |-> "c", start |-> windows[1].start,
     end |-> Last(windows).end, currency |-> "CHF", view |-> "GROSS",
     engine |-> "e", windows |-> windows]

Src(windows) ==
    [composite |-> "c", start |-> windows[1].start, end |-> Last(windows).end,
     manifest |-> [windows |-> windows, engine |-> "e"], status |-> "READY",
     cumulative |-> 2, periods |-> [i \in DOMAIN windows |-> Per(windows[i])]]

\* A selection with the digest of the source it selects.
Pinned(s, source) == [digest |-> source] @@ s

Prod(key, kind, windows) ==
    [key |-> key, kind |-> kind, year |-> 1, months |-> Len(windows),
     selection |-> Pinned(Sel(windows), Src(windows)), source |-> Src(windows),
     digest |-> Src(windows)]

Cell(of, i, field, type, value) ==
    [available |-> TRUE, value |-> value, reasons |-> {}, type |-> type,
     at |-> [of |-> of, i |-> i, field |-> field]]

Dataset(version, windows, year, trailing) ==
    [version |-> version, tenant |-> "t",
     selection |-> Pinned(Sel(windows), Src(windows)),
     source |-> Src(windows), digest |-> Src(windows),
     products |-> IF version = "v1" THEN <<>>
                  ELSE <<Prod("year", "CALENDAR_RETURN", year),
                         Prod("tail", "TRAILING_RETURN", trailing)>>,
     facts |-> [authority |-> NotAttested, note |-> 3, return |-> 4],
     cells |-> {Cell("series", 1, "cumulative", "DECIMAL_RETURN", 2)}]

MonthWindows == <<Win(0), Win(1), Win(2), Win(3)>>

\* Vectors of windows: as they are, with a gap, in another materialization.
Vectors ==
    <<MonthWindows, <<Win(2), Win(3)>>,
      <<Win(0), [Win(1) EXCEPT !.end = @ - 1], Win(2), Win(3)>>,
      <<Win(0), Win(1), Win(3)>>>>

Tails == <<<<Win(2), Win(3)>>, <<Win(3)>>, <<Win(2), [Win(3) EXCEPT !.seq = 2]>>,
           <<Win(1), Win(2)>>>>

Years == <<<<Win(2), Win(3)>>, <<Win(1), Win(2)>>>>

\* Periods of a source, by what a producer may get wrong.
EditedPeriod(p, edit) ==
    CASE edit = "none"    -> p
      [] edit = "twice"   -> [p EXCEPT !.members[2].portfolio = "m1"]
      [] edit = "missing" -> [p EXCEPT !.members = <<@[1]>>]
      [] edit = "blocked" -> [p EXCEPT !.status = "BLOCKED", !.return = Absent,
                                       !.cumulative = Absent]
      [] edit = "valued"  -> [p EXCEPT !.status = "BLOCKED"]
      [] edit = "foreign" -> [p EXCEPT !.members[1].fingerprint = "f2"]
      [] edit = "view"    -> [p EXCEPT !.view = NoText]

PeriodEdits == {"none", "twice", "missing", "blocked", "valued", "foreign", "view"}

WithPeriod(d, edit) ==
    LET n == Len(d.source.periods)
        period == EditedPeriod(d.source.periods[n], edit)
        source == [d.source EXCEPT
                     !.periods[n] = period,
                     !.cumulative = period.cumulative,
                     !.status = period.status]
    IN  [d EXCEPT !.source = source, !.digest = source, !.selection.digest = source]

ExtraCells ==
    <<Cell("facts", 1, "note", "TEXT", 3), Cell("facts", 1, "return", "TEXT", 4),
     Cell("facts", 1, "return", "DECIMAL_RETURN", 4),
     Cell("period", 1, "return", "TEXT", 1),
     Cell("period", 1, "return", "DECIMAL_RETURN", 1),
     Cell("period", 1, "return", "DECIMAL_RETURN", 9),
     Cell("period", 1, "count", "COUNT", 2),
     [Cell("series", 1, "cumulative", "DECIMAL_RETURN", Absent) EXCEPT
        !.available = FALSE, !.reasons = {"BLOCKED"}]>>

\* A dataset by its version, vector, year, tail, edit of a period and cell.
ReviewDatasets ==
    {<<v, w, y, t, "none", 0>> : v \in {"v1", "v2"}, w \in 1..4, y \in 1..2, t \in 1..4}
      \cup {<<"v2", w, 1, 1, e, 0>> : w \in 1..4, e \in PeriodEdits}
      \cup {<<v, 1, 1, 1, e, c>> : v \in {"v1", "v2"}, e \in PeriodEdits,
                                   c \in 1..Len(ExtraCells)}

DatasetOf(code) ==
    LET d == WithPeriod(Dataset(code[1], Vectors[code[2]], Years[code[3]], Tails[code[4]]),
                        code[5])
    IN  IF code[6] = 0 THEN d ELSE [d EXCEPT !.cells = {ExtraCells[code[6]]}]

-----------------------------------------------------------------------------
(* v8: the definition begins with the first window; the last two windows   *)
(* are of a membership that supersedes the one of the first two            *)

ContextDefinition ==
    [tenant |-> "t", composite |-> "c", currency |-> "CHF", version |-> "d1",
     inception |-> 0, termination |-> Absent]

MembershipOf(revision, supersedes, affected, decisions) ==
    [revision |-> revision, tenant |-> "t", composite |-> "c", definition |-> "d1",
     supersedes |-> supersedes, affected |-> affected, decisions |-> decisions]

FirstMembership ==
    MembershipOf("r1", NoText, <<>>, <<[from |-> 0, to |-> 3], [from |-> 4, to |-> Absent]>>)
SecondMembership == MembershipOf("r2", "r1", <<2, 3>>, <<[from |-> 4, to |-> Absent]>>)

Hashed(raw) == [hash |-> raw, raw |-> raw]

ContextWindow(i) ==
    [definition |-> ContextDefinition,
     membership |-> IF i < 2 THEN FirstMembership ELSE SecondMembership] @@ Win(i)

\* From the first month on, with or without products and memberships.
ContextBase(first, products, memberships) ==
    LET windows == [k \in 1..(4 - first) |-> ContextWindow(first + k - 1)]
        tail == <<ContextWindow(2), ContextWindow(3)>>
    IN  [version |-> "v8", tenant |-> "t", selection |-> Sel(windows),
         source |-> Src(windows), definition |-> Hashed(ContextDefinition),
         products |-> CASE products = "none" -> <<>>
                        [] products = "tail" -> <<Prod("tail", "TRAILING_RETURN", tail)>>
                        [] products = "both" -> <<Prod("year", "CALENDAR_RETURN", tail),
                                                  Prod("tail", "TRAILING_RETURN", tail)>>,
         memberships |-> CASE memberships = 0 -> <<>>
                           [] memberships = 1 -> <<Hashed(SecondMembership)>>
                           [] memberships = 2 -> <<Hashed(FirstMembership),
                                                   Hashed(SecondMembership)>>,
         sinceInception |-> TRUE, captured |-> "within"]

ContextEdit(c, edit) ==
    CASE edit = "unwanted"   -> [c EXCEPT !.sinceInception = FALSE]
      [] edit = "blocked"    -> [c EXCEPT !.source.periods[1] =
                                     EditedPeriod(@, "blocked")]
      [] edit = "degraded"   -> [c EXCEPT !.source.status = "DEGRADED"]
      [] edit = "later"      -> [c EXCEPT !.definition = Hashed([@.raw EXCEPT
                                     !.inception = 1])]
      [] edit = "ended"      -> [c EXCEPT !.definition = Hashed([@.raw EXCEPT
                                     !.termination = 5])]
      [] edit = "rehashed"   -> [c EXCEPT !.definition.raw.version = "d2"]
      [] edit = "engine"     -> [c EXCEPT !.selection.engine = "e2",
                                          !.source.manifest.engine = "e2"]
      [] edit = "orphan"     -> [c EXCEPT !.memberships = Append(@, Hashed(
                                     MembershipOf("r3", NoText, <<>>, <<>>)))]
      [] edit = "chained"    -> [c EXCEPT !.memberships = Append(@, Hashed(
                                     MembershipOf("r3", "r2", <<1, 2>>, <<>>)))]
      [] edit = "again"      -> [c EXCEPT !.memberships = @ \o @]
      [] edit = "unaffected" -> [c EXCEPT !.memberships =
                                     [k \in DOMAIN @ |-> [@[k] EXCEPT !.hash.affected = <<>>,
                                                                      !.raw.affected = <<>>]]]
      [] edit = "backwards"  -> [c EXCEPT !.memberships =
                                     [k \in DOMAIN @ |-> [@[k] EXCEPT !.raw.decisions[1].to = -2]]]
      [] edit = "large"      -> [c EXCEPT !.captured = "over"]
      [] edit = "tenant"     -> [c EXCEPT !.tenant = "u"]

ContextEdits ==
    {"unwanted", "blocked", "degraded", "later", "ended", "rehashed", "engine", "orphan",
     "chained", "again", "unaffected", "backwards", "large", "tenant"}

ContextDatasets ==
    ((0..2) \X {"none", "tail", "both"} \X (0..2) \X Edits(ContextEdits) \X {"none"})
      \cup ({0} \X {"both"} \X {2} \X {{}} \X {"value", "reason", "short", "extra", "identity"})

ContextOf(code) ==
    LET edited == Edited(ContextBase(code[1], code[2], code[3]), code[4], ContextEdit)
        c == [selection |-> Pinned(edited.selection, edited.source),
              digest |-> edited.source] @@ edited
        tables == ContextTables(c)
        facts == SinceInceptionFacts(c)
    IN  [tables |-> CASE code[5] = "short" -> [tables EXCEPT !["MembershipHistory"] = <<>>]
                      [] code[5] = "extra" -> [Other |-> Single] @@ tables
                      [] OTHER -> tables,
         facts |-> CASE code[5] = "value"  -> [facts EXCEPT !.value = 9]
                     [] code[5] = "reason" -> [facts EXCEPT !.reason = "other"]
                     [] OTHER -> facts,
         identity |-> IF code[5] = "identity" THEN [ContextCustody(c) EXCEPT !.wanted = FALSE]
                      ELSE ContextCustody(c)] @@ c

=============================================================================
