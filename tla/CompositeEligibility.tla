------------------------ MODULE CompositeEligibility ------------------------
(***************************************************************************)
(* v4, v6 and v7: the monthly eligibility of a composite's portfolios, as  *)
(* proposed, approved and published; its corrections, each bound to what   *)
(* it corrects; and the proofs the policy and every step were admitted by. *)
(* services/composite_workbook/{eligibility,amendment,historical}_*.py     *)
(* and contracts/composite_{eligibility*,amendment,historical}.py.         *)
(*                                                                         *)
(* A product carries its digest, for the content hash and the response     *)
(* digest, and "intact" says the digest is that of its content.  What all  *)
(* products of a month are of, the tenant, composite and definition, is    *)
(* their scope.  An instant is a number.                                   *)
(***************************************************************************)
EXTENDS CompositeSource

CONSTANT ProofWindow    \* how long a proof may be valid

\* The versions of a root and of its corrections, and whether a correction is
\* published right after the publication it expects.
Generations ==
    [v4 |-> [root |-> "v1", correction |-> "none", adjacent |-> TRUE],
     v6 |-> [root |-> "none", correction |-> "v2", adjacent |-> TRUE],
     v7 |-> [root |-> "v3", correction |-> "v4", adjacent |-> FALSE]]

-----------------------------------------------------------------------------
(* Horizon and population *)

\* Every month of the horizon, in order.
EligibilityHorizon(s) ==
    /\ s.start <= s.end
    /\ [i \in DOMAIN s.months |-> s.months[i].month]
         = [i \in 1..(Month(s.end) - Month(s.start) + 1) |-> Month(s.start) + i - 1]

MemberIds(rows) == [i \in DOMAIN rows |-> rows[i].portfolio]

AssessmentOrder == <<"SIGNIFICANT_FLOW", "CASH", "READINESS">>

WithStatus(p, status) ==
    Cardinality({i \in DOMAIN p.members : p.members[i].status = status})

PopulationCounts(p) ==
    [expected |-> Len(p.expected), observed |-> Len(p.observed),
     included |-> WithStatus(p, "INCLUDED"), excluded |-> WithStatus(p, "EXCLUDED"),
     pending |-> WithStatus(p, "PENDING_REVIEW")]

EligibilityPopulation(p) ==
    /\ ~SequenceHasDuplicates(p.expected) /\ MemberIds(p.members) = p.expected
    /\ ~SequenceHasDuplicates(p.observed) /\ Range(p.observed) \subseteq Range(p.expected)
    /\ \A i \in DOMAIN p.members :
          /\ p.members[i].present = (p.members[i].portfolio \in Range(p.observed))
          /\ [j \in DOMAIN p.members[i].assessments |->
                 p.members[i].assessments[j].rule] = AssessmentOrder
    /\ p.counts = PopulationCounts(p)

-----------------------------------------------------------------------------
(* A proposal and its publication *)

EligibilityScope(s) == <<s.tenant, s.composite, s.definition, s.currency>>

\* _validate_proposal.
ProposalIsPinned(p, pin, s) ==
    /\ p.revision = pin.revision /\ p.digest = pin.proposal /\ p.intact
    /\ p.parent = pin.parent
    /\ p.scope = EligibilityScope(s) /\ p.month = pin.month /\ p.cut = pin.cut
    /\ p.universe.parent = pin.parent /\ p.universe.expected = p.expected
    /\ EligibilityPopulation(p)

\* _validate_publication: receipt, membership, universe and publication are
\* those the selection pins, bound to each other and to the universe's cut.
PublicationIsPinned(m, pin, s) ==
    LET proposal == m.proposal
        cut == proposal.universe.cut
    IN  /\ \A product \in {m.approval, m.receipt, m.membership, m.parent, m.universe} :
              product.intact
        /\ m.approval.digest = pin.approval
        /\ m.receipt.digest = pin.receipt /\ m.receipt.sequence = pin.sequence
        /\ <<m.membership.revision, m.membership.digest>> = pin.membership
        /\ <<m.parent.revision, m.parent.digest>> = pin.parent
        /\ <<m.universe.revision, m.universe.digest>> = pin.universe
        /\ m.publication.sequence = pin.sequence
        /\ m.publication.membership = pin.membership
        /\ \A product \in {m.membership, m.parent, m.universe, m.publication} :
              product.scope = EligibilityScope(s)
        /\ \A product \in {m.receipt, m.membership, m.universe, m.publication} :
              product.cut = cut
        /\ m.approval.membership = m.membership.digest
        /\ m.approval.universe = m.universe.digest
        /\ proposal.target = m.membership.revision
        /\ m.universe.membership = pin.membership
        /\ m.membership.supersedes = m.parent.revision
        /\ m.publication.decisions = Len(m.membership.decisions)
        /\ m.receipt.bindings = <<pin.membership, pin.universe>>
        /\ m.receipt.definition.scope = EligibilityScope(s)

-----------------------------------------------------------------------------
(* The proofs of v7 *)

\* validate_proof: it is of this operation, was checked before it, admitted
\* it before it expired, and its signer did not verify it.
ProofIsBound(proof, operation, actor, revision, at, intent) ==
    /\ proof.request = <<operation, actor, revision, at, intent>>
    /\ proof.checked <= at /\ at <= proof.admitted /\ proof.admitted < proof.expires
    /\ proof.expires - proof.checked <= ProofWindow
    /\ proof.signer # proof.verifier

\* validate_policy: approved by another than proposed it, before its month.
PolicyIsProven(p) ==
    LET policy == p.policy
    IN  /\ policy.approvedBy # policy.proposedBy
        /\ policy.approvedAt >= policy.proposedAt
        /\ policy.originalBy[1] # policy.originalBy[2]
        /\ policy.originalAt[1] <= policy.originalAt[2]
        /\ policy.originalAt[2] < FirstOf(p.month)
        /\ ProofIsBound(policy.proofs[1], "POLICY_PROPOSAL", policy.proposedBy,
                        policy.revision, policy.proposedAt, policy.reference)
        /\ ProofIsBound(policy.proofs[2], "POLICY_APPROVAL", policy.approvedBy,
                        policy.revision, policy.approvedAt, policy.digest)
        /\ ProofIsBound(p.proof, "EVALUATION_PROPOSAL", p.by, p.revision, p.at, p.intent)

ApprovalIsProven(r) ==
    /\ r.approval.by # r.proposal.by
    /\ ProofIsBound(r.approval.proof, "EVALUATION_APPROVAL", r.approval.by,
                    r.proposal.revision, r.approval.at, r.proposal.digest)

-----------------------------------------------------------------------------
(* The corrections *)

\* Mutant of Follows: a correction may take the place of what it expects.
FollowsOrReplaces(generation, sequence, expected) == sequence >= expected

Follows(generation, sequence, expected) ==
    IF generation.adjacent THEN sequence = expected + 1 ELSE sequence > expected

\* _validate_retained_receipt, of the receipts a correction is bound to.
RetainedIsPinned(r, pin, month, s, generation) ==
    /\ r.receipt.digest = pin.receipt /\ r.receipt.intact
    /\ r.approval.digest = pin.approval /\ r.approval.intact
    /\ r.version = pin.version /\ r.proposal.version = r.version
    /\ ProposalIsPinned(r.proposal,
           [revision |-> pin.revision, proposal |-> r.proposal.digest,
            parent |-> r.proposal.parent, month |-> month, cut |-> r.proposal.cut], s)
    /\ r.receipt.definition.scope = EligibilityScope(s)
    /\ r.receipt.bindings
         = <<<<r.proposal.target, r.approval.membership>>,
             <<r.proposal.revision, r.approval.universe>>>>
    /\ r.receipt.cut = r.proposal.universe.cut
    /\ generation.correction = "v4" => PolicyIsProven(r.proposal) /\ ApprovalIsProven(r)
    /\ r.version = generation.correction =>
          /\ r.receipt.lineage = r.proposal.amendment
          /\ Follows(generation, r.receipt.sequence, r.proposal.amendment.expected)

\* _validate_link: a correction names its predecessor as its authority, the
\* original, its own parent and month, and changes neither policy nor
\* population.
LinkIsBound(p, predecessor, original) ==
    LET amendment == p.amendment
    IN  /\ amendment.predecessor
             = <<predecessor.approval.digest, predecessor.receipt.digest>>
        /\ amendment.original = original.approval.digest
        /\ amendment.parent = p.parent
        /\ p.policy = predecessor.proposal.policy
        /\ p.expected = predecessor.proposal.expected
        /\ <<amendment.from, amendment.to>> = <<FirstOf(p.month), LastOf(p.month)>>
        /\ amendment.expected >= predecessor.receipt.sequence

\* The proposals of a month, the newest first.
ProposalsOf(m) ==
    <<m.proposal>> \o [i \in DOMAIN m.lineage |-> m.lineage[i].proposal]

\* validate_amendment_lineage and validate_historical_lineage.
LineageIsBound(m, pin, s, generation) ==
    LET proposals == ProposalsOf(m)
        original == Last(m.lineage)
    IN  /\ Len(m.lineage) = Len(pin.lineage) /\ m.lineage # <<>>
        /\ original.version = (IF generation.correction = "v2" THEN "v1" ELSE "v3")
        /\ ~SequenceHasDuplicates([i \in DOMAIN proposals |-> proposals[i].revision])
        /\ \A i \in DOMAIN m.lineage :
              /\ RetainedIsPinned(m.lineage[i], pin.lineage[i], pin.month, s, generation)
              /\ m.lineage[i].receipt.definition = original.receipt.definition
              /\ proposals[i].version = generation.correction
              /\ LinkIsBound(proposals[i], m.lineage[i], original)
        /\ pin.kind = "PUBLISHED" =>
              /\ m.receipt.definition = original.receipt.definition
              /\ m.parentPublication
                   = [sequence |-> m.proposal.amendment.expected,
                      membership |-> <<m.parent.revision, m.parent.digest>>,
                      decisions |-> Len(m.parent.decisions)]
              /\ m.receipt.lineage = m.proposal.amendment
              /\ Follows(generation, m.publication.sequence, m.proposal.amendment.expected)

\* _validate_month of the three versions.
MonthIsPinned(m, pin, s, version) ==
    LET generation == Generations[version]
        correction == m.proposal.version = generation.correction
    IN  /\ m.kind = pin.kind /\ m.proposal.version = pin.version
        /\ pin.version \in {generation.root, generation.correction}
        /\ ProposalIsPinned(m.proposal, pin, s)
        /\ version = "v7" => PolicyIsProven(m.proposal)
        /\ pin.kind = "PUBLISHED" =>
              /\ PublicationIsPinned(m, pin, s)
              /\ version = "v7" => RetainedIsPinned(m, pin, pin.month, s, generation)
        /\ IF correction THEN LineageIsBound(m, pin, s, generation) ELSE m.lineage = <<>>

EligibilityIsPinned(d) ==
    /\ EligibilityHorizon(d.selection) /\ d.tenant = d.selection.tenant
    /\ Len(d.months) = Len(d.selection.months)
    /\ \A i \in DOMAIN d.months :
          MonthIsPinned(d.months[i], d.selection.months[i], d.selection, d.version)

-----------------------------------------------------------------------------
(* The tables: a row is the indices of what it shows *)

OverMonths(d, rows(_, _)) == FlattenSeq([k \in DOMAIN d.months |-> rows(d.months[k], k)])

SummaryRows(m, k) == <<<<k>>>>
MemberRows(m, k) == [i \in DOMAIN m.proposal.members |-> <<k, i>>]

AssessmentRows(m, k) ==
    FlattenSeq([i \in DOMAIN m.proposal.members |->
        [j \in DOMAIN m.proposal.members[i].assessments |-> <<k, i, j>>]])

\* The failures of every assessment and its unknowns.
Occurrences(m, k) ==
    FlattenSeq(FlattenSeq([i \in DOMAIN m.proposal.members |->
        [j \in DOMAIN m.proposal.members[i].assessments |->
            LET assessment == m.proposal.members[i].assessments[j]
            IN  [o \in 1..assessment.failures |-> <<k, i, j, 1, o>>]
                  \o [o \in 1..assessment.unknowns |-> <<k, i, j, 2, o>>]]]))

NoReasons(k) == <<<<k, 0, 0, 0, 0>>>>

ReasonsOf(m, k) == IF Occurrences(m, k) = <<>> THEN NoReasons(k) ELSE Occurrences(m, k)

ReasonRows(d) == OverMonths(d, ReasonsOf)

\* The decisions of the parent and of the membership; none of a month that
\* was only evaluated.
DecisionRows(m, k) ==
    IF m.kind = "EVALUATED_ONLY" THEN <<<<k, 0, 0>>>>
    ELSE [o \in DOMAIN m.parent.decisions |-> <<k, 1, o>>]
           \o [o \in DOMAIN m.membership.decisions |-> <<k, 2, o>>]

LineageRows(m, k) ==
    [o \in 1..(IF m.kind = "EVALUATED_ONLY" THEN 1 ELSE 5) |-> <<k, o>>]

\* How many scalars an amendment has, and how many a receipt shows besides.
AmendmentLeaves == 3
ReceiptLeaves == 4

AmendmentRows(m, k) ==
    IF m.lineage = <<>> THEN <<<<k, 0, 0>>>>
    ELSE [f \in 1..AmendmentLeaves |-> <<k, 0, f>>]
           \o FlattenSeq([i \in DOMAIN m.lineage |->
                [f \in 1..(ReceiptLeaves + (IF i = Len(m.lineage) THEN 0
                                             ELSE AmendmentLeaves)) |-> <<k, i, f>>]])

\* The policy's admission and the proposal's, and an approval's where there
\* is one: of the month and of every receipt it corrects.
AdmissionRows(m, k) ==
    FlattenSeq([i \in DOMAIN ProposalsOf(m) |->
        [role \in 1..(IF i = 1 /\ m.kind = "EVALUATED_ONLY" THEN 2 ELSE 3) |->
            <<k, i - 1, role>>]])

EligibilityTableSet(d) ==
    {"Summary", "Methods", "Members", "EligibilityAssessments", "EligibilityReasons",
     "MembershipHistory", "Lineage"}
      \cup (IF d.version = "v4" THEN {} ELSE {"Amendments"})
      \cup (IF d.version = "v7" THEN {"PolicyAdmission"} ELSE {})

EligibilityTables(d) ==
    [table \in EligibilityTableSet(d) |->
        CASE table \in {"Summary", "Methods"} -> OverMonths(d, SummaryRows)
          [] table = "Members" -> OverMonths(d, MemberRows)
          [] table = "EligibilityAssessments" -> OverMonths(d, AssessmentRows)
          [] table = "EligibilityReasons" -> ReasonRows(d)
          [] table = "MembershipHistory" -> OverMonths(d, DecisionRows)
          [] table = "Lineage" -> OverMonths(d, LineageRows)
          [] table = "Amendments" -> OverMonths(d, AmendmentRows)
          [] table = "PolicyAdmission" -> OverMonths(d, AdmissionRows)]

EligibilityIsAdmitted(d) ==
    /\ EligibilityIsPinned(d)
    /\ DOMAIN d.tables = DOMAIN EligibilityTables(d)
    /\ \A table \in DOMAIN d.tables : d.tables[table] = EligibilityTables(d)[table]

\* What the contracts make of a proposal, and of a dataset: lists are
\* sequences, sequence numbers and instants are numbers.
IsProposal(p, version) ==
    /\ p.members \in Seq(Range(p.members)) /\ p.expected \in Seq(Range(p.expected))
    /\ \A member \in Range(p.members) :
          /\ member.status \in {"INCLUDED", "EXCLUDED", "PENDING_REVIEW"}
          /\ \A a \in Range(member.assessments) : {a.failures, a.unknowns} \subseteq Nat
    /\ p.version = Generations[version].correction => p.amendment.expected \in Int
    /\ version = "v7" =>
          {p.at, p.proof.checked, p.proof.admitted, p.proof.expires} \subseteq Int

IsEligibility(d) ==
    /\ d.version \in DOMAIN Generations
    /\ {d.selection.start, d.selection.end} \subseteq Int
    /\ \A list \in {d.months, d.selection.months} : list \in Seq(Range(list))
    /\ \A m \in Range(d.months) :
          /\ m.kind = "PUBLISHED" => m.publication.sequence \in Int
          /\ m.lineage \in Seq(Range(m.lineage))
          /\ \A r \in Range(m.lineage) : r.receipt.sequence \in Int
          /\ \A p \in Range(ProposalsOf(m)) : IsProposal(p, d.version)

-----------------------------------------------------------------------------
(* Properties of admitted datasets *)

RowsOfMonth(rows, k) == {row \in Range(rows) : row[1] = k}

\* Every portfolio expected in a month is shown once, in one status, with its
\* three assessments, and every month of the horizon with each of its reasons
\* once or the statement that there is none (eligibility_population.py:23-58,
\* eligibility_rows.py:45-104).
EligibilityIsAccounted(d) ==
    EligibilityIsAdmitted(d) =>
        \A month \in Month(d.selection.start)..Month(d.selection.end) :
            \E k \in DOMAIN d.months :
                LET p == d.months[k].proposal
                    reasons == RowsOfMonth(d.tables["EligibilityReasons"], k)
                IN  /\ p.month = month
                    /\ Cardinality(RowsOfMonth(d.tables["Members"], k))
                         = Cardinality({m.portfolio : m \in Range(p.members)})
                    /\ {m.portfolio : m \in Range(p.members)} = Range(p.expected)
                    /\ p.counts.included + p.counts.excluded + p.counts.pending
                         = Len(p.expected)
                    /\ Cardinality(RowsOfMonth(d.tables["EligibilityAssessments"], k))
                         = 3 * Len(p.expected)
                    /\ IF \E m \in Range(p.members) : \E a \in Range(m.assessments) :
                             a.failures + a.unknowns > 0
                       THEN \A row \in reasons : row[2] # 0
                       ELSE reasons = Range(NoReasons(k))

\* Corrections form one history: each is published after what it corrects,
\* back to one original of the same policy and population, and what is
\* published now is the newest of them (amendment_lineage.py:30-61, 151-196,
\* historical_lineage.py:22-56).
CorrectionsAreOrdered(d) ==
    EligibilityIsAdmitted(d) =>
        \A m \in Range(d.months) :
            LET receipts == m.lineage
                newer(i) == receipts[i].receipt.sequence
            IN  /\ \A i \in 1..(Len(receipts) - 1) : newer(i) > newer(i + 1)
                /\ m.kind = "PUBLISHED" /\ receipts # <<>> =>
                      m.publication.sequence > newer(1)
                /\ \A r \in Range(receipts) :
                      /\ r.proposal.policy = m.proposal.policy
                      /\ r.proposal.expected = m.proposal.expected
                      /\ r.proposal.revision # m.proposal.revision

\* What v7 shows as admitted was approved by another than proposed it, at a
\* time its proof covers, and its policy before the month began
\* (historical_proof.py:65-93, 116-154).
AdmissionsWereCurrent(d) ==
    EligibilityIsAdmitted(d) /\ d.version = "v7" =>
        \A m \in Range(d.months) : \A i \in DOMAIN ProposalsOf(m) :
            LET p == ProposalsOf(m)[i]
            IN  /\ p.policy.originalAt[2] < FirstOf(p.month)
                /\ p.at \in p.proof.checked..(p.proof.expires - 1)
                /\ i > 1 => m.lineage[i - 1].approval.by # p.by

=============================================================================
