--------------------------- MODULE CompositeNotice ---------------------------
(***************************************************************************)
(* v9, the notice of a correction: two retained source contexts of one     *)
(* scope, every cell of both, and the archived path that leads from the    *)
(* document of one to the document of the other.  services/                *)
(* composite_workbook/notice_*.py and contracts/composite_notice*.py.      *)
(*                                                                         *)
(* As in CompositeContext a digest is the content it is of and a row the   *)
(* pair of indices that identifies it.  Both contexts have the same        *)
(* columns, so a row stands for its cells.  The order of the pair index is *)
(* a layout: it is a function of the coordinates.  The report job, the     *)
(* snapshot and the revision of a capture are its anchor.                  *)
(***************************************************************************)
EXTENDS CompositeContext, Functions

Sides == {"before", "after"}

\* A side of a pair index item where the row is not of that side.
NoRef == [row |-> 0]

SourceTables ==
    <<"Summary", "PeriodReturns", "Contribution", "Methods", "Lineage", "Disclosures",
      "AnnualReturns", "Risk", "Members", "EligibilityReasons", "Attribution",
      "Restatement", "SinceInception", "MembershipHistory">>

MetadataTables == {"NoticeScope", "PairIndex", "ArchivePath", "Obligations"}

-----------------------------------------------------------------------------
(* The generations *)

ScopeOf(s) == <<s.tenant, s.composite, s.start, s.end, s.currency, s.view, s.engine>>

\* source_custody_identity: the custody of a source context as it was
\* archived, with the digests of its capture.
SourceIdentity(g) == [capture |-> g.capture.digests] @@ ContextCustody(g.payload)

\* _validate_generation.
GenerationIsPinned(g, tenant) ==
    /\ ContextDataIsAdmitted(g.payload)
    /\ DOMAIN g.payload.tables = Range(SourceTables)
    /\ g.payload.tenant = tenant
    /\ g.scope = ScopeOf(g.payload.selection)
    /\ g.capture.revision = g.selection.anchor.revision
    /\ g.selection.hash = g.payload

\* _validate_pair.
PairIsPinned(before, after) ==
    /\ before.selection # after.selection
    /\ before.scope = after.scope
    /\ before.payload.selection # after.payload.selection

\* What each obligation is reported by; by nothing when it was not captured.
Captured(n) ==
    [before_after_results |-> Sides, affected_periods |-> Sides, reason |-> {},
     materiality |-> {}, report_approval |-> {}, report_replacements |-> DOMAIN n.edges,
     explanation_delta_interaction |-> {}, recipient_distribution |-> {}]

\* _validate_obligations.
Obligations(n) ==
    [o \in DOMAIN Captured(n) |->
        [status |-> IF Captured(n)[o] = {} THEN "UNAVAILABLE" ELSE "CAPTURED_INTERNAL",
         refs |-> Captured(n)[o]]]

-----------------------------------------------------------------------------
(* The archived path: the original, a rerender of it, the correction, and  *)
(* a rerender of that                                                      *)

NodeRoles == <<"O", "O_rr", "C", "C_rr">>
EdgeRoles == <<"TECHNICAL_RERENDER", "ECONOMIC_CORRECTION", "TECHNICAL_RERENDER">>

NodeSide(i) == IF i <= 2 THEN "before" ELSE "after"

\* _validate_node: the archive's answer is of this document and of the
\* capture of its side.
NodeIsPinned(n, i) ==
    LET node == n.nodes[i]
        response == node.response
        g == n.generations[NodeSide(i)]
    IN  /\ node.role = NodeRoles[i] /\ node.side = NodeSide(i)
        /\ ~response.purged
        /\ <<node.document, node.tenant, node.anchor>>
             = <<response.document, response.tenant, response.anchor>>
        /\ node.tenant = n.tenant
        /\ node.artifact = response.declared /\ response.checksum = response.declared
        /\ response.contract = "v8"
        /\ node.hash = g.selection.hash
        /\ response.identity = SourceIdentity(g)
        /\ node.anchor = g.selection.anchor

\* _validate_edge: the economic step is acknowledged by the archive's record
\* of the relationship, a rerender by the lineage event of the report.
EdgeIsPinned(n, i) ==
    LET edge == n.edges[i]
        source == n.nodes[i]
        target == n.nodes[i + 1]
        ack == edge.ack
    IN  /\ <<edge.source, edge.target>> = <<source.document, target.document>>
        /\ edge.type = "correct" /\ edge.role = EdgeRoles[i]
        /\ <<edge.from, edge.to>> = <<source.side, target.side>>
        /\ IF i = 2 THEN ack.kind = "ARCHIVE_RELATIONSHIP_RECORD"
           ELSE ack.kind = "REPORT_LINEAGE_EVENT" /\ ack.job = target.anchor.job
        /\ <<ack.relationship, ack.source, ack.target, ack.type>>
             = <<edge.relationship, edge.source, edge.target, edge.type>>

PathIsPinned(n) ==
    /\ Len(n.nodes) = 4 /\ Len(n.edges) = 3
    /\ ~SequenceHasDuplicates([i \in DOMAIN n.nodes |-> n.nodes[i].document])
    /\ ~SequenceHasDuplicates([i \in DOMAIN n.edges |-> n.edges[i].relationship])
    /\ \A i \in 1..3 :
          /\ n.nodes[i].response.supersededBy = n.nodes[i + 1].document
          /\ n.nodes[i + 1].response.correctionOf = n.nodes[i].document
    /\ \A i \in DOMAIN n.nodes : NodeIsPinned(n, i)
    /\ \A i \in DOMAIN n.edges : EdgeIsPinned(n, i)

\* pair_preimage: the selections and the path, its documents by their digests.
PairPreimage(n) ==
    [tenant |-> n.tenant,
     selections |-> [side \in Sides |-> n.generations[side].selection],
     nodes |-> [i \in DOMAIN n.nodes |->
                  Restrict(n.nodes[i], DOMAIN n.nodes[i] \ {"response"})],
     edges |-> [i \in DOMAIN n.edges |->
                  Restrict(n.edges[i], DOMAIN n.edges[i] \ {"ack"})]]

\* manifest_preimage.
ManifestPreimage(n) ==
    [tenant |-> n.tenant, fingerprint |-> n.fingerprint, generations |-> n.generations,
     nodes |-> n.nodes, edges |-> n.edges, obligations |-> n.obligations]

\* validate_hashes.
DigestsAreRight(n) ==
    /\ \A i \in DOMAIN n.nodes : n.nodes[i].digest = n.nodes[i].response
    /\ \A i \in DOMAIN n.edges : n.edges[i].digest = n.edges[i].ack
    /\ n.fingerprint = PairPreimage(n)
    /\ n.manifest = ManifestPreimage(n)

-----------------------------------------------------------------------------
(* The tables *)

\* A source table under its side, its pointers into the payload of that side.
SideTables(n) ==
    [t \in Sides \X Range(SourceTables) |->
        LET rows == n.generations[t[1]].payload.tables[t[2]]
        IN  [i \in DOMAIN rows |-> [row |-> rows[i], of |-> t[1]]]]

Coordinates(n, side) ==
    UNION {{<<table, row>> : row \in Range(n.generations[side].payload.tables[table])} :
              table \in Range(SourceTables)}

\* Where a row is on a side.
RefOf(n, side, c) ==
    IF c \notin Coordinates(n, side) THEN NoRef
    ELSE LET rows == n.generations[side].payload.tables[c[1]]
         IN  [generation |-> side, table |-> c[1], at |-> c[2],
              row |-> CHOOSE i \in DOMAIN rows : rows[i] = c[2]]

Presence(refs) ==
    CASE refs.after = NoRef  -> "BEFORE_ONLY"
      [] refs.before = NoRef -> "AFTER_ONLY"
      [] OTHER -> "BOTH_PRESENT"

\* Mutant of PairIndex: what the correction removed is not compared.
PairIndexOfTheCorrection(n) ==
    [c \in Coordinates(n, "after") |->
        LET refs == [side \in Sides |-> RefOf(n, side, c)]
        IN  [presence |-> Presence(refs), refs |-> refs]]

\* expected_pair_index: the union of the coordinates of both sides.
PairIndex(n) ==
    [c \in Coordinates(n, "before") \cup Coordinates(n, "after") |->
        LET refs == [side \in Sides |-> RefOf(n, side, c)]
        IN  [presence |-> Presence(refs), refs |-> refs]]

\* metadata_facts.
NoticeFacts(n) ==
    [NoticeScope |-> [scope |-> n.generations["before"].scope,
                      selections |-> [side \in Sides |-> n.generations[side].selection],
                      fingerprint |-> n.fingerprint, manifest |-> n.manifest],
     PairIndex |-> n.pairIndex,
     ArchivePath |-> [i \in DOMAIN n.edges |->
                        Restrict(n.edges[i], DOMAIN n.edges[i] \ {"ack"})],
     Obligations |-> n.obligations]

\* metadata_table: a fact, or that there is none on that side.
MetadataTable(facts, name) ==
    [value |-> facts[name],
     notApplicable |->
        IF name # "PairIndex" THEN {}
        ELSE {at \in (DOMAIN facts[name]) \X Sides : facts[name][at[1]].refs[at[2]] = NoRef}]

NoticeTables(n) ==
    [side |-> SideTables(n),
     metadata |-> [name \in MetadataTables |-> MetadataTable(n.facts, name)]]

NoticeTableSet(layout) == layout = <<SourceTables, MetadataTables>>

-----------------------------------------------------------------------------
(* Custody and admission *)

\* The nodes that are no rerender.
AnchorNode(side) == IF side = "before" THEN 1 ELSE 3

\* validate_notice_custody: the identity names the notice and what it is
\* made of; the capture is the notice's own, and none of its sources'.
NoticeCustodyIsBound(n) ==
    LET p == n.package
        s == n.generations["before"].payload.selection
    IN  /\ p.identity =
             [fingerprint |-> n.fingerprint, manifest |-> n.manifest,
              generations |-> [side \in Sides |->
                 [selection |-> n.generations[side].selection,
                  document |-> n.nodes[AnchorNode(side)].document,
                  identity |-> n.nodes[AnchorNode(side)].response.identity]]]
        /\ p.revision # NoText /\ p.archived = p.revision
        /\ p.lineage = <<p.snapshot, p.revision>>
        /\ \A side \in Sides :
              /\ p.identity.generations[side].identity
                   = SourceIdentity(n.generations[side])
              /\ p.revision # n.generations[side].selection.anchor.revision
              /\ p.snapshot # n.generations[side].selection.anchor.snapshot
        /\ p.scope = <<n.tenant, s.composite, s.start, s.end>>

\* validate_notice, then the custody and the layout.
NoticeIsAdmitted(n) ==
    /\ \A side \in Sides : GenerationIsPinned(n.generations[side], n.tenant)
    /\ PairIsPinned(n.generations["before"], n.generations["after"])
    /\ n.obligations = Obligations(n)
    /\ DigestsAreRight(n)
    /\ PathIsPinned(n)
    /\ n.pairIndex = PairIndex(n)
    /\ n.facts = NoticeFacts(n)
    /\ n.tables = NoticeTables(n)
    /\ n.captured = "within"
    /\ NoticeCustodyIsBound(n)
    /\ NoticeTableSet(n.layout)

\* notice_cell_evidence: what the evidence of a cell says it was a cell of.
OriginOf(t, cell) ==
    IF t \in Sides \X Range(SourceTables)
    THEN [generation |-> t[1], table |-> t[2], row |-> cell.row]
    ELSE [generation |-> "NOTICE"]

\* What the contract makes of a notice: lists are sequences, and what each
\* generation retains is a source context.
IsNotice(n) ==
    /\ n.nodes \in Seq(Range(n.nodes)) /\ n.edges \in Seq(Range(n.edges))
    /\ \A side \in Sides : IsContext(n.generations[side].payload)

-----------------------------------------------------------------------------
(* Properties of admitted notices *)

\* Every row of either side is shown under its side, evidenced as what it is
\* of, and indexed with where it is on each side; the index has no other
\* (notice_coordinates.py:11-84, notice_projection.py:27-52).
BothSidesAreShown(n) ==
    NoticeIsAdmitted(n) =>
        /\ \A side \in Sides, table \in Range(SourceTables) :
              LET rows == n.generations[side].payload.tables[table]
                  shown == n.tables.side[<<side, table>>]
              IN  /\ Len(shown) = Len(rows)
                  /\ \A i \in DOMAIN rows :
                        /\ OriginOf(<<side, table>>, shown[i])
                             = [generation |-> side, table |-> table, row |-> rows[i]]
                        /\ <<table, rows[i]>> \in DOMAIN n.pairIndex
                        /\ n.pairIndex[<<table, rows[i]>>].refs[side].row = i
        /\ \A c \in DOMAIN n.pairIndex :
              LET there == {side \in Sides : \E i \in DOMAIN n.tables.side[<<side, c[1]>>] :
                                n.tables.side[<<side, c[1]>>][i].row = c[2]}
              IN  /\ there # {}
                  /\ n.pairIndex[c].presence
                       = (CASE there = Sides -> "BOTH_PRESENT"
                            [] there = {"before"} -> "BEFORE_ONLY"
                            [] there = {"after"} -> "AFTER_ONLY")
                  /\ there = {side \in Sides :
                                <<c, side>> \notin n.tables.metadata["PairIndex"].notApplicable}

\* The path leads from a document of what is shown as before to one of what
\* is shown as after by one economic step and no other, through four
\* documents still there; the capture of the notice is none of theirs, and it
\* claims no evidence it does not hold (notice_path.py:12-125,
\* notice_custody.py:62-80, notice_source.py:100-134).
CorrectionIsOneStep(n) ==
    NoticeIsAdmitted(n) =>
        LET documents == {n.nodes[i].document : i \in DOMAIN n.nodes}
            Shows(node) == {side \in Sides :
                              node.response.identity = SourceIdentity(n.generations[side])}
            Selected(node) == <<node.anchor, node.hash>>
            economic == {i \in DOMAIN n.edges : n.edges[i].role = "ECONOMIC_CORRECTION"}
        IN  /\ Cardinality(documents) = 4
            /\ "before" \in Shows(n.nodes[1]) /\ "after" \in Shows(n.nodes[4])
            /\ \A i \in DOMAIN n.edges :
                  (i \in economic) <=> (Selected(n.nodes[i]) # Selected(n.nodes[i + 1]))
            /\ Cardinality(economic) = 1
            /\ \A i \in DOMAIN n.nodes :
                  /\ ~n.nodes[i].response.purged
                  /\ n.package.revision # n.nodes[i].anchor.revision
            /\ \A o \in DOMAIN n.obligations :
                  n.obligations[o].status = "CAPTURED_INTERNAL" => n.obligations[o].refs # {}

=============================================================================
