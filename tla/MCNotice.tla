------------------------------ MODULE MCNotice -------------------------------
(***************************************************************************)
(* Notices of v9: a source context of periods that are not whole months,   *)
(* its correction, and up to two edits of what was archived, of the notice *)
(* or of its package.                                                      *)
(***************************************************************************)
EXTENDS MCReview

NoticeDefinition == [ContextDefinition EXCEPT !.inception = 2]

\* The month 1 in two periods, then the months 2 and 3.
NoticeWindows(membership) ==
    LET Of(w) == [definition |-> NoticeDefinition, membership |-> membership] @@ w
        Day(day) == [id |-> 10 + day, start |-> day, end |-> day, seq |-> 1]
    IN  <<Of(Day(2)), Of(Day(3)), Of(Win(2)), Of(Win(3))>>

\* Captured with these memberships and a return of the first period.
PayloadOf(memberships, return, blocked) ==
    LET windows == NoticeWindows(memberships[Len(memberships)])
        year == <<windows[3], windows[4]>>
        source == [Src(windows) EXCEPT !.periods[1].return = return,
                                       !.periods[1].status = IF blocked THEN "DEGRADED" ELSE @]
        captured ==
            [version |-> "v8", tenant |-> "t", selection |-> Pinned(Sel(windows), source),
             source |-> source, digest |-> source, definition |-> Hashed(NoticeDefinition),
             products |-> <<Prod("year", "CALENDAR_RETURN", year)>>,
             memberships |-> [i \in DOMAIN memberships |-> Hashed(memberships[i])],
             sinceInception |-> TRUE, captured |-> "within"]
    IN  [tables |-> ContextTables(captured), facts |-> SinceInceptionFacts(captured)]
          @@ captured

\* The corrections: of a return, and of the memberships as well, which adds
\* rows or takes some away.
FirstOnly == <<FirstMembership>>
BothOfThem == <<FirstMembership, SecondMembership>>

NoticeVariants ==
    [return |-> <<PayloadOf(FirstOnly, 1, FALSE), PayloadOf(FirstOnly, 5, TRUE)>>,
     added |-> <<PayloadOf(FirstOnly, 1, FALSE), PayloadOf(BothOfThem, 5, FALSE)>>,
     removed |-> <<PayloadOf(BothOfThem, 1, FALSE), PayloadOf(FirstOnly, 1, TRUE)>>,
     nothing |-> <<PayloadOf(FirstOnly, 1, FALSE), PayloadOf(FirstOnly, 1, FALSE)>>]

AnchorAt(side) ==
    IF side = "before" THEN [job |-> "j1", snapshot |-> "s1", revision |-> "r1"]
    ELSE [job |-> "j2", snapshot |-> "s2", revision |-> "r2"]

GenerationAt(payload, side) ==
    [payload |-> payload, scope |-> ScopeOf(payload.selection),
     selection |-> [anchor |-> AnchorAt(side), hash |-> payload],
     capture |-> [revision |-> AnchorAt(side).revision, digests |-> <<"capture", side>>]]

\* What may be wrong, or only different, in the capture of the correction.
CaptureEdits == {"none", "sameJob", "sameCapture", "scope", "revised"}

CaptureEdit(g, edit) ==
    CASE edit = "none"        -> g
      [] edit = "sameJob"     -> [g EXCEPT !.selection.anchor.job = AnchorAt("before").job]
      [] edit = "sameCapture" -> [g EXCEPT !.selection.anchor = AnchorAt("before"),
                                           !.capture.revision = AnchorAt("before").revision]
      [] edit = "scope"       -> [g EXCEPT !.scope[1] = "u"]
      [] edit = "revised"     -> [g EXCEPT !.capture.revision = "other"]

\* The document of a node is its number.
NodeAt(generations, i) ==
    LET side == NodeSide(i)
        g == generations[side]
    IN  [role |-> NodeRoles[i], side |-> side, document |-> i, tenant |-> "t",
         anchor |-> g.selection.anchor, artifact |-> <<"artifact", i>>,
         hash |-> g.selection.hash,
         response |->
            [document |-> i, tenant |-> "t", anchor |-> g.selection.anchor,
             declared |-> <<"artifact", i>>, checksum |-> <<"artifact", i>>,
             contract |-> "v8", purged |-> FALSE, identity |-> SourceIdentity(g),
             supersededBy |-> IF i = 4 THEN 0 ELSE i + 1, correctionOf |-> i - 1]]

EdgeAt(nodes, i) ==
    [relationship |-> <<"relationship", i>>, source |-> i, target |-> i + 1,
     type |-> "correct", role |-> EdgeRoles[i],
     from |-> nodes[i].side, to |-> nodes[i + 1].side,
     ack |-> [kind |-> IF i = 2 THEN "ARCHIVE_RELATIONSHIP_RECORD" ELSE "REPORT_LINEAGE_EVENT",
              job |-> nodes[i + 1].anchor.job, relationship |-> <<"relationship", i>>,
              source |-> i, target |-> i + 1, type |-> "correct"]]

\* What may be wrong, or only different, in what was archived.
ArchivedEdit(n, edit) ==
    CASE edit = "purged"    -> [n EXCEPT !.nodes[2].response.purged = TRUE]
      [] edit = "reread"    -> [n EXCEPT !.nodes[3].response.checksum = <<"artifact", 0>>]
      [] edit = "foreign"   -> [n EXCEPT !.nodes[4].response.tenant = "u"]
      [] edit = "unlinked"  -> [n EXCEPT !.nodes[3].response.supersededBy = 1]
      [] edit = "twice"     -> [n EXCEPT !.nodes[4].document = 3,
                                         !.nodes[4].response.document = 3]
      [] edit = "older"     -> [n EXCEPT !.nodes[4].response.identity =
                                     n.nodes[1].response.identity]
      [] edit = "technical" -> [n EXCEPT !.edges[2].role = "TECHNICAL_RERENDER"]
      [] edit = "reordered" -> [n EXCEPT !.edges = <<n.edges[2], n.edges[1], n.edges[3]>>]
      [] edit = "unproven"  -> [n EXCEPT !.edges[2].ack.kind = "REPORT_LINEAGE_EVENT"]

ArchivedEdits ==
    {"purged", "reread", "foreign", "unlinked", "twice", "older", "technical", "reordered",
     "unproven"}

\* And in the notice made of it or in its package.
NoticeEdits ==
    {"none", "promoted", "path", "missing", "claimed", "moved", "fact", "reused", "resold",
     "lineage", "other", "large", "layout", "digest"}

NoticeEdit(n, edit) ==
    CASE edit = "none"     -> n
      [] edit = "promoted" -> [n EXCEPT !.obligations["materiality"].status =
                                   "CAPTURED_INTERNAL"]
      [] edit = "path"     -> [n EXCEPT !.nodes =
                                   <<[@[1] EXCEPT !.artifact = <<"artifact", 0>>]>> \o Tail(@)]
      [] edit = "missing"  -> [n EXCEPT !.tables.side[<<"after", "Contribution">>] = Tail(@)]
      [] edit = "claimed"  -> [n EXCEPT !.pairIndex[<<"Summary", <<0, 0>>>>].presence =
                                   "AFTER_ONLY"]
      [] edit = "moved"    -> [n EXCEPT !.pairIndex[<<"Lineage", <<2, 0>>>>].refs["before"].row = 1]
      [] edit = "fact"     -> [n EXCEPT !.facts["NoticeScope"].scope[1] = "u"]
      [] edit = "reused"   -> [n EXCEPT !.package.revision = AnchorAt("after").revision,
                                        !.package.archived = AnchorAt("after").revision,
                                        !.package.lineage[2] = AnchorAt("after").revision]
      [] edit = "resold"   -> [n EXCEPT !.package.snapshot = AnchorAt("before").snapshot,
                                        !.package.lineage[1] = AnchorAt("before").snapshot]
      [] edit = "lineage"  -> [n EXCEPT !.package.lineage = Reverse(@)]
      [] edit = "other"    -> [n EXCEPT !.package.identity.generations["after"].document = 4]
      [] edit = "large"    -> [n EXCEPT !.captured = "over"]
      [] edit = "layout"   -> [n EXCEPT !.layout[1] = Tail(@)]
      [] edit = "digest"   -> [n EXCEPT !.manifest.tenant = "u"]

NoticeDatasets ==
    ((DOMAIN NoticeVariants) \X {"none"} \X Edits(ArchivedEdits) \X {"none"})
      \cup ((DOMAIN NoticeVariants) \X CaptureEdits \X {{}} \X NoticeEdits)

NoticeOf(code) ==
    LET payloads == NoticeVariants[code[1]]
        generations == [side \in Sides |->
            IF side = "before" THEN GenerationAt(payloads[1], side)
            ELSE CaptureEdit(GenerationAt(payloads[2], side), code[2])]
        nodes == [i \in 1..4 |-> NodeAt(generations, i)]
        made == Edited([tenant |-> "t", generations |-> generations, nodes |-> nodes,
                        edges |-> [i \in 1..3 |-> EdgeAt(nodes, i)], captured |-> "within",
                        layout |-> <<SourceTables, MetadataTables>>],
                       code[3], ArchivedEdit)
        archived == [made EXCEPT
            !.nodes = [i \in DOMAIN @ |-> [digest |-> @[i].response] @@ @[i]],
            !.edges = [i \in DOMAIN @ |-> [digest |-> @[i].ack] @@ @[i]]]
        obliged == [obligations |-> Obligations(archived),
                    fingerprint |-> PairPreimage(archived)] @@ archived
        indexed == [pairIndex |-> PairIndex(obliged),
                    manifest |-> ManifestPreimage(obliged)] @@ obliged
        stated == [facts |-> NoticeFacts(indexed)] @@ indexed
        s == generations["before"].payload.selection
        shown == [tables |-> NoticeTables(stated),
                  package |->
                    [snapshot |-> "own", revision |-> "its", archived |-> "its",
                     lineage |-> <<"own", "its">>,
                     scope |-> <<"t", s.composite, s.start, s.end>>,
                     identity |->
                        [fingerprint |-> stated.fingerprint, manifest |-> stated.manifest,
                         generations |-> [side \in Sides |->
                            [selection |-> stated.generations[side].selection,
                             document |-> stated.nodes[AnchorNode(side)].document,
                             identity |-> stated.nodes[AnchorNode(side)].response.identity]]]]]
                   @@ stated
    IN  NoticeEdit(shown, code[4])

=============================================================================
