---------------------------- MODULE MCEligibility ----------------------------
(***************************************************************************)
(* Datasets of v4, v6 and v7: two months, the first corrected up to twice, *)
(* by up to two edits of what was proposed, approved and published.        *)
(***************************************************************************)
EXTENDS MCReview

Label(kind, k, g) == <<kind, k, g>>

\* Membership g - 1 is the parent of membership g.
MembershipAt(k, g) == <<Label("membership", k, g), Label("membershipDigest", k, g)>>
UniverseAt(k, g) == <<Label("revision", k, g), Label("universeDigest", k, g)>>

\* v7 leaves room for publications between.
SequenceAt(v, g) == IF v = "v7" THEN 2 * g + 2 ELSE g + 2

\* v6 corrects what v4 published.
VersionAt(v, g) ==
    CASE g > 0 -> Generations[v].correction
      [] v = "v6" -> Generations["v4"].root
      [] OTHER -> Generations[v].root

EligibilitySelection == [tenant |-> "t", composite |-> "c", definition |-> "d", currency |-> "CHF"]

ProofOf(operation, actor, revision, at, intent) ==
    [request |-> <<operation, actor, revision, at, intent>>, checked |-> at - 1,
     admitted |-> at, expires |-> at + 2, signer |-> "s", verifier |-> "v"]

PolicyRevision == Label("policy", 0, 0)

PolicyOf ==
    [approvedBy |-> "b", proposedBy |-> "a", approvedAt |-> 6, proposedAt |-> 5,
     originalBy |-> <<"a", "b">>, originalAt |-> <<0, 1>>, revision |-> PolicyRevision,
     reference |-> Label("policyReference", 0, 0), digest |-> Label("policyDigest", 0, 0),
     proofs |-> <<ProofOf("POLICY_PROPOSAL", "a", PolicyRevision, 5,
                          Label("policyReference", 0, 0)),
                  ProofOf("POLICY_APPROVAL", "b", PolicyRevision, 6,
                          Label("policyDigest", 0, 0))>>]

Assessed(rule) == [rule |-> rule, failures |-> 0, unknowns |-> 0]

MemberAt(portfolio, present, status) ==
    [portfolio |-> portfolio, present |-> present, status |-> status,
     assessments |-> [j \in DOMAIN AssessmentOrder |-> Assessed(AssessmentOrder[j])]]

AmendmentAt(v, k, g) ==
    IF g = 0 THEN NoDocument
    ELSE [predecessor |-> <<Label("approval", k, g - 1), Label("receipt", k, g - 1)>>,
          original |-> Label("approval", k, 0), parent |-> MembershipAt(k, g - 1),
          expected |-> SequenceAt(v, g - 1), from |-> FirstOf(k), to |-> LastOf(k)]

ProposalAt(v, k, g) ==
    [version |-> VersionAt(v, g), digest |-> Label("proposal", k, g), intact |-> TRUE,
     revision |-> Label("revision", k, g), parent |-> MembershipAt(k, g - 1),
     scope |-> EligibilityScope(EligibilitySelection), month |-> k, cut |-> 7,
     universe |-> [parent |-> MembershipAt(k, g - 1), expected |-> <<"m1", "m2">>, cut |-> 8],
     target |-> Label("membership", k, g),
     expected |-> <<"m1", "m2">>, observed |-> <<"m1">>,
     members |-> <<MemberAt("m1", TRUE, "INCLUDED"), MemberAt("m2", FALSE, "EXCLUDED")>>,
     counts |-> [expected |-> 2, observed |-> 1, included |-> 1, excluded |-> 1, pending |-> 0],
     policy |-> PolicyOf, amendment |-> AmendmentAt(v, k, g),
     proof |-> ProofOf("EVALUATION_PROPOSAL", "maker", Label("revision", k, g), 9 + g,
                       Label("intent", k, g)),
     by |-> "maker", at |-> 9 + g, intent |-> Label("intent", k, g)]

\* What is retained of a proposal that was approved and published.
RetainedAt(v, k, g) ==
    [version |-> VersionAt(v, g), proposal |-> ProposalAt(v, k, g),
     approval |-> [digest |-> Label("approval", k, g), intact |-> TRUE,
                   membership |-> MembershipAt(k, g)[2], universe |-> UniverseAt(k, g)[2],
                   by |-> "checker", at |-> 10 + g,
                   proof |-> ProofOf("EVALUATION_APPROVAL", "checker", Label("revision", k, g),
                                     10 + g, Label("proposal", k, g))],
     receipt |-> [digest |-> Label("receipt", k, g), intact |-> TRUE,
                  sequence |-> SequenceAt(v, g), cut |-> 8,
                  bindings |-> <<MembershipAt(k, g), UniverseAt(k, g)>>,
                  definition |-> [scope |-> EligibilityScope(EligibilitySelection)],
                  lineage |-> AmendmentAt(v, k, g)]]

MonthAt(v, k, g) ==
    LET scope == EligibilityScope(EligibilitySelection)
        product == [intact |-> TRUE, scope |-> scope, cut |-> 8]
    IN  [kind |-> "PUBLISHED",
         membership |-> [revision |-> MembershipAt(k, g)[1], digest |-> MembershipAt(k, g)[2],
                         supersedes |-> MembershipAt(k, g - 1)[1],
                         decisions |-> <<"in", "out">>] @@ product,
         parent |-> [revision |-> MembershipAt(k, g - 1)[1],
                     digest |-> MembershipAt(k, g - 1)[2],
                     supersedes |-> NoText, decisions |-> <<"in">>] @@ product,
         universe |-> [revision |-> UniverseAt(k, g)[1], digest |-> UniverseAt(k, g)[2],
                       membership |-> MembershipAt(k, g)] @@ product,
         publication |-> [sequence |-> SequenceAt(v, g), membership |-> MembershipAt(k, g),
                          scope |-> scope, cut |-> 8, decisions |-> 2],
         lineage |-> [i \in 1..g |-> RetainedAt(v, k, g - i)],
         parentPublication |-> [sequence |-> SequenceAt(v, g - 1),
                                membership |-> MembershipAt(k, g - 1), decisions |-> 1]]
          @@ RetainedAt(v, k, g)

EligibilityBase(v, g) ==
    [version |-> v, tenant |-> "t",
     months |-> <<MonthAt(v, 1, g), MonthAt(v, 2, IF v = "v6" THEN 1 ELSE 0)>>]

\* The publication a correction expects, and of another month none.
ExpectedBy(m) == IF m.lineage = <<>> THEN 1 ELSE m.proposal.amendment.expected

\* What may be wrong, or only different, in the first month.
MonthEdit(m, edit) ==
    CASE edit = "twice"      -> [m EXCEPT !.proposal.members[2] = m.proposal.members[1],
                                          !.proposal.counts.included = 2,
                                          !.proposal.counts.excluded = 0]
      [] edit = "pending"    -> [m EXCEPT !.proposal.members[2].status = "PENDING_REVIEW",
                                          !.proposal.counts.pending = 1,
                                          !.proposal.counts.excluded = 0]
      [] edit = "miscounted" -> [m EXCEPT !.proposal.counts.pending = 1]
      [] edit = "unassessed" -> [m EXCEPT !.proposal.members[1].assessments = Tail(@)]
      [] edit = "reasoned"   -> [m EXCEPT !.proposal.members[1].assessments[1].failures = 2,
                                          !.proposal.members[2].assessments[3].unknowns = 1]
      [] edit = "evaluated"  -> [m EXCEPT !.kind = "EVALUATED_ONLY"]
      [] edit = "altered"    -> [m EXCEPT !.receipt.intact = FALSE]
      [] edit = "replaced"   -> [m EXCEPT !.publication.sequence = @ - 1,
                                          !.receipt.sequence = @ - 1]
      [] edit = "replacing"  -> [m EXCEPT !.publication.sequence = ExpectedBy(m),
                                          !.receipt.sequence = ExpectedBy(m)]
      [] edit = "apart"      -> [m EXCEPT !.publication.sequence = @ + 3,
                                          !.receipt.sequence = @ + 3]
      [] edit = "other"      -> [m EXCEPT !.proposal.policy.digest = Label("other", 0, 0)]
      [] edit = "grown"      -> [m EXCEPT !.publication.decisions = 3,
                                          !.membership.decisions = Append(@, "in")]
      [] edit = "dropped"    -> [m EXCEPT !.publication.decisions = 3]
      [] edit = "reversed"   -> [m EXCEPT !.lineage = Reverse(@)]
      [] edit = "unrooted"   -> [m EXCEPT !.lineage = SubSeq(@, 1, Len(@) - 1)]
      [] edit = "alone"      -> [m EXCEPT !.approval.by = "maker",
                                          !.approval.proof.request[2] = "maker"]
      [] edit = "expired"    -> [m EXCEPT !.proposal.proof.expires = m.proposal.at]
      [] edit = "long"       -> [m EXCEPT !.proposal.proof.expires = @ + 4]
      [] edit = "latePolicy" -> [m EXCEPT !.proposal.policy.originalAt[2] = 2]
      [] edit = "receiptOf"  -> [m EXCEPT !.proposal.amendment = AmendmentAt("v6", 2, 1)]
      [] edit = "moved"      -> [m EXCEPT !.proposal.month = 2]

MonthEdits ==
    {"twice", "pending", "miscounted", "unassessed", "reasoned", "evaluated", "altered",
     "replaced", "replacing", "apart", "other", "grown", "dropped", "reversed", "unrooted",
     "alone", "expired", "long", "latePolicy", "receiptOf", "moved"}

\* What the selection says of a month.
PinOf(m, k) ==
    [kind |-> m.kind, version |-> m.proposal.version, month |-> k,
     revision |-> m.proposal.revision, proposal |-> m.proposal.digest,
     parent |-> m.proposal.parent, cut |-> m.proposal.cut,
     approval |-> m.approval.digest, receipt |-> m.receipt.digest,
     membership |-> <<m.membership.revision, m.membership.digest>>,
     universe |-> <<m.universe.revision, m.universe.digest>>,
     sequence |-> m.receipt.sequence,
     lineage |-> [i \in DOMAIN m.lineage |->
                    [version |-> m.lineage[i].version,
                     revision |-> m.lineage[i].proposal.revision,
                     approval |-> m.lineage[i].approval.digest,
                     receipt |-> m.lineage[i].receipt.digest]]]

EligibilityDatasets ==
    (({<<"v4", 0>>, <<"v6", 1>>, <<"v6", 2>>, <<"v7", 0>>, <<"v7", 1>>, <<"v7", 2>>}
         \X Edits(MonthEdits)) \X {"none"})
      \cup (({<<"v4", 0>>, <<"v7", 1>>} \X {{}})
              \X {"short", "gap", "order", "digest", "tenant"})

EligibilityOf(code) ==
    LET edits == code[1][2]
        base == EligibilityBase(code[1][1][1], code[1][1][2])
        edited == [base EXCEPT !.months[1] = Edited(@, edits, MonthEdit)]
        pins == <<PinOf(edited.months[1], 1), PinOf(edited.months[2], 2)>>
        d == [selection |->
                [start |-> FirstOf(1), end |-> LastOf(IF code[2] = "gap" THEN 3 ELSE 2),
                 months |-> CASE code[2] = "order"  -> Reverse(pins)
                              [] code[2] = "digest" -> [pins EXCEPT ![1].receipt = Label("x", 1, 1)]
                              [] OTHER -> pins] @@ EligibilitySelection] @@ edited
        tables == EligibilityTables(d)
    IN  [tables |-> IF code[2] = "short" THEN [tables EXCEPT !["Members"] = Tail(@)] ELSE tables]
          @@ (IF code[2] = "tenant" THEN [d EXCEPT !.tenant = "u"] ELSE d)

=============================================================================
