-------------------------- MODULE CompositeContext --------------------------
(***************************************************************************)
(* v8, the source context: a vector of returns with the definition it was  *)
(* computed under, the memberships its windows name, and the return since  *)
(* inception.  src/app/services/composite_workbook/source_context{,_primary*)
(* ,_tables,_custody}.py and contracts/composite_source_context.py.        *)
(*                                                                         *)
(* A content hash and a response digest are the content they are of.  A    *)
(* table is the sequence of its rows, and a row the pair of indices its    *)
(* pointers name in the source, 0 where there is none.                     *)
(***************************************************************************)
EXTENDS CompositeSource

-----------------------------------------------------------------------------
(* The definition and the vectors *)

DefinitionIsPinned(c) ==
    LET raw == c.definition.raw
        s == c.selection
    IN  /\ c.definition.hash = raw
        /\ <<raw.tenant, raw.composite, raw.currency>> = <<s.tenant, s.composite, s.currency>>
        /\ s.start >= raw.inception
        /\ raw.termination = Absent \/ s.end <= raw.termination

VectorsOf(c) ==
    <<c.selection>> \o [i \in DOMAIN c.products |-> c.products[i].selection]

VectorsAreOfTheDefinition(c) ==
    /\ ProductsArePinned(c)
    /\ \A vector \in Range(VectorsOf(c)) :
          /\ vector.engine = c.selection.engine
          /\ \A w \in Range(vector.windows) : w.definition = c.definition.hash

-----------------------------------------------------------------------------
(* The memberships *)

Referenced(c) ==
    UNION {{w.membership : w \in Range(vector.windows)} : vector \in Range(VectorsOf(c))}

Revisions(c) == {c.memberships[i].raw.revision : i \in DOMAIN c.memberships}

\* The captured membership of a revision.
CapturedAs(c, revision) ==
    CHOOSE m \in Range(c.memberships) : m.raw.revision = revision

MembershipIsPinned(c, m) ==
    /\ m.hash = m.raw
    /\ <<m.raw.tenant, m.raw.composite, m.raw.definition>>
         = <<c.selection.tenant, c.selection.composite, c.definition.raw.version>>
    /\ \A d \in Range(m.raw.decisions) : d.to = Absent \/ d.to >= d.from

\* The first of its kind affects nothing; another supersedes a captured one
\* that is the first of its kind.
ParentIsCaptured(c, m) ==
    IF m.raw.supersedes = NoText THEN m.raw.affected = <<>>
    ELSE /\ m.raw.supersedes \in Revisions(c) \ {m.raw.revision}
         /\ CapturedAs(c, m.raw.supersedes).raw.supersedes = NoText
         /\ Len(m.raw.affected) = 2 /\ m.raw.affected[1] <= m.raw.affected[2]

\* What a window names, and what that supersedes.
Linked(c) ==
    Referenced(c)
      \cup {CapturedAs(c, m.raw.supersedes).hash :
               m \in {m \in Range(c.memberships) :
                         m.hash \in Referenced(c) /\ m.raw.supersedes # NoText}}

MembershipsAreUsed(c) == {m.hash : m \in Range(c.memberships)} = Linked(c)

MembershipsArePinned(c) ==
    c.memberships # <<>> =>
        /\ Cardinality(Revisions(c)) = Len(c.memberships)
        /\ Referenced(c) \subseteq {m.hash : m \in Range(c.memberships)}
        /\ \A m \in Range(c.memberships) : MembershipIsPinned(c, m) /\ ParentIsCaptured(c, m)
        /\ MembershipsAreUsed(c)

\* validate_source_context: the captures are within their bytes.
ContextIsPinned(c) ==
    /\ SelectionIsPinned(c.selection) /\ c.tenant = c.selection.tenant
    /\ DigestIsPinned(c.selection, c.source, c.digest)
    /\ SourceIsPinned(c.selection, c.source)
    /\ c.sinceInception \/ c.memberships # <<>>
    /\ DefinitionIsPinned(c)
    /\ VectorsAreOfTheDefinition(c)
    /\ MembershipsArePinned(c)
    /\ c.captured = "within"

-----------------------------------------------------------------------------
(* The tables *)

\* Why the return since inception cannot be shown.
SinceInceptionReason(c) ==
    CASE c.selection.start # c.definition.raw.inception ->
            "SOURCE_VECTOR_BEGINS_AFTER_PINNED_INCEPTION"
      [] \/ c.source.status # "READY"
         \/ \E p \in Range(c.source.periods) : p.status # "READY" ->
            "COMPLETE_READY_SOURCE_VECTOR_REQUIRED"
      [] OTHER -> NoText

\* What the facts of the report say of it.
SinceInceptionFacts(c) ==
    LET reason == SinceInceptionReason(c)
    IN  [reason |-> reason,
         value |-> IF reason = NoText THEN c.source.cumulative ELSE Absent]

Single == <<<<0, 0>>>>
RowsFor(s) == [i \in DOMAIN s |-> <<i, 0>>]

\* A row for every element of every list of a sequence.
NestedRows(lists) ==
    FlattenSeq([i \in DOMAIN lists |-> [j \in DOMAIN lists[i] |-> <<i, j>>]])

ContributionRows(c) ==
    LET rows == NestedRows([i \in DOMAIN c.source.periods |-> c.source.periods[i].members])
    IN  IF rows = <<>> THEN Single ELSE rows

\* Mutant of HistoryRows: the decisions of the newest membership only.
HistoryRowsOfTheNewest(c) ==
    RowsFor(c.memberships[Len(c.memberships)].raw.decisions)

HistoryRows(c) ==
    NestedRows([i \in DOMAIN c.memberships |-> c.memberships[i].raw.decisions])

\* A row names its product where it is among all of them.
ProductRows(c, kind) ==
    FlattenSeq([i \in DOMAIN c.products |->
                   IF c.products[i].kind = kind THEN <<<<i, 0>>>> ELSE <<>>])

PeriodTable(c) ==
    IF MonthsAreComplete(c.selection.windows) THEN "MonthlyReturns" ELSE "PeriodReturns"

BaseTables ==
    {"Summary", "Contribution", "Methods", "Lineage", "Disclosures", "AnnualReturns",
     "Risk", "Members", "EligibilityReasons", "MembershipHistory", "Attribution",
     "Restatement"}

\* The products named as not captured.
Uncaptured(c) ==
    {"Risk", "Members", "EligibilityReasons", "Attribution", "Restatement"}
      \cup (IF ProductRows(c, "CALENDAR_RETURN") = <<>> THEN {"AnnualReturns"} ELSE {})
      \cup (IF c.memberships = <<>> THEN {"MembershipHistory"} ELSE {})

\* The tables of a source context: what is captured has its rows, what is not
\* the one row that says so.
ContextTables(c) ==
    LET optional ==
            (IF ProductRows(c, "TRAILING_RETURN") = <<>> THEN {} ELSE {"TrailingReturns"})
              \cup (IF c.sinceInception THEN {"SinceInception"} ELSE {})
    IN  [table \in BaseTables \cup {PeriodTable(c)} \cup optional |->
            CASE table \in Uncaptured(c) \cup {"Summary", "SinceInception"} -> Single
              [] table = PeriodTable(c)      -> RowsFor(c.source.periods)
              [] table = "Contribution"      -> ContributionRows(c)
              [] table = "AnnualReturns"     -> ProductRows(c, "CALENDAR_RETURN")
              [] table = "TrailingReturns"   -> ProductRows(c, "TRAILING_RETURN")
              [] table = "MembershipHistory" -> HistoryRows(c)
              [] table \in {"Methods", "Lineage"} -> RowsFor(c.selection.windows)
              [] table = "Disclosures"       -> RowsFor(<<1, 2, 3, 4, 5>>)]

\* validate_source_context_table_set.
ContextTableSet(names) ==
    /\ BaseTables \subseteq names
    /\ Cardinality(names \cap {"MonthlyReturns", "PeriodReturns"}) = 1
    /\ names \subseteq BaseTables \cup {"MonthlyReturns", "PeriodReturns",
                                        "TrailingReturns", "SinceInception"}

\* The custody of a source context names the captures of its data.
ContextCustody(c) ==
    [selection |-> c.selection, wanted |-> c.sinceInception,
     definition |-> c.definition.hash,
     products |-> [i \in DOMAIN c.products |-> c.products[i].digest]]

\* validate_dataset of a source context.
ContextDataIsAdmitted(c) ==
    /\ ContextIsPinned(c)
    /\ DOMAIN c.tables = DOMAIN ContextTables(c)
    /\ \A table \in DOMAIN c.tables :
          c.tables[table] = ContextTables(c)[table] /\ c.tables[table] # <<>>
    /\ c.sinceInception => c.facts = SinceInceptionFacts(c)

ContextIsAdmitted(c) == ContextDataIsAdmitted(c) /\ c.identity = ContextCustody(c)

\* What the contract makes of a source context: days are days, lists are
\* sequences, a product is of one of two kinds.
IsContext(c) ==
    LET lists == {c.selection.windows, c.source.periods, c.products, c.memberships}
                   \cup {c.source.periods[i].members : i \in DOMAIN c.source.periods}
                   \cup {c.memberships[i].raw.decisions : i \in DOMAIN c.memberships}
    IN  /\ \A list \in lists : list \in Seq(Range(list))
        /\ \A w \in Range(c.selection.windows) : {w.start, w.end} \subseteq Int
        /\ \A product \in Range(c.products) :
              product.kind \in {"CALENDAR_RETURN", "TRAILING_RETURN"}
        /\ c.sinceInception \in BOOLEAN

-----------------------------------------------------------------------------
(* Properties of admitted datasets *)

\* A return since inception is shown only of a vector whose ready periods
\* cover every day from the inception of its definition to the end of the
\* selection (source_context_tables.py:114-132, source_context.py:124-150).
SinceInceptionIsWhole(c) ==
    ContextIsAdmitted(c) /\ c.sinceInception /\ c.facts.value # Absent =>
        \A day \in c.definition.raw.inception..c.selection.end :
            \E p \in Range(c.source.periods) :
                day \in p.start..p.end /\ p.status = "READY" /\ p.return # Absent

\* When memberships are supplied, every window's is one of them, each of them
\* is a window's or what a window's supersedes, and the history shows every
\* decision of each (source_context.py:152-189, source_context_tables.py:
\* 163-176).
HistoryIsTheWindows(c) ==
    ContextIsAdmitted(c) /\ c.memberships # <<>> =>
        /\ \A w \in Range(c.selection.windows) :
              \E m \in Range(c.memberships) : m.hash = w.membership
        /\ \A m \in Range(c.memberships) :
              \/ m.hash \in Referenced(c)
              \/ \E n \in Range(c.memberships) :
                    n.hash \in Referenced(c) /\ n.raw.supersedes = m.raw.revision
        /\ LET rows == c.tables["MembershipHistory"]
               decisions(i) == DOMAIN c.memberships[i].raw.decisions
           IN  /\ ~SequenceHasDuplicates(rows)
               /\ Range(rows) = UNION {{i} \X decisions(i) : i \in DOMAIN c.memberships}

\* The tables a source context must have are a table set its layout takes,
\* and what its custody names is what it shows: a row for every product, and
\* the return since inception when that is asked for (source_context_tables.py:
\* 201-212, source_context_primary.py:180-211, source_context_custody.py:28-52).
ContextTablesFitTheLayout(c) ==
    ContextIsAdmitted(c) =>
        /\ ContextTableSet(DOMAIN c.tables)
        /\ c.identity.wanted = ("SinceInception" \in DOMAIN c.tables)
        /\ \A i \in DOMAIN c.identity.products :
              \E table \in {"AnnualReturns", "TrailingReturns"} \cap DOMAIN c.tables :
                  <<i, 0>> \in Range(c.tables[table])

=============================================================================
