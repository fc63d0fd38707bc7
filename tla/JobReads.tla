------------------------------ MODULE JobReads ------------------------------
(***************************************************************************)
(* What lotus-render says of its jobs: the three tenant-scoped reads of    *)
(* api/routes/renders.py, the advice table of render_recovery.py and the   *)
(* in-flight posture of /metadata and the scrape.                          *)
(*                                                                         *)
(* Reads change nothing, so each is an operator of the store's state and   *)
(* the properties compare what the answers say with each other and with    *)
(* what the store would do if the caller acted on them.                    *)
(***************************************************************************)
EXTENDS RenderStore, FiniteSets

CONSTANT AcceptedStaleSeconds       \* stale_accepted_seconds

ASSUME AcceptedStaleAssumption == AcceptedStaleSeconds \in Nat \ {0}
ASSUME LegacyTableAssumption == IsFiniteSet(LegacyJobs)

-----------------------------------------------------------------------------
(* The scoped read *)

NotFound == [code |-> 404]

\* Mutant of Visible: an unattributed job is anyone's.
VisibleUnowned(tenant, j) == Exists(j) /\ rows[j].tenant \in {tenant, NoTenant}

\* The WHERE clause of get: another tenant's job is one that does not exist,
\* and so is a job with no tenant of its own.
Visible(tenant, j) == Exists(j) /\ rows[j].tenant = tenant

\* job_response_fields: what the status and submit responses share.
GetStatus(tenant, j) ==
    IF ~Visible(tenant, j) THEN NotFound
    ELSE [code |-> 200, status |-> rows[j].status, sha |-> rows[j].sha,
          failure |-> rows[j].failure, archive |-> rows[j].archive]

GetArtifactMetadata(tenant, j) ==
    IF ~Visible(tenant, j) THEN NotFound
    ELSE IF rows[j].status # "rendered" THEN [code |-> 409]
    ELSE [code |-> 200, sha |-> rows[j].sha]

-----------------------------------------------------------------------------
(* Staleness and advice *)

Age(j) == now - updatedAt[j]

\* Mutant of Threshold: one window for every job in flight.
ThresholdOfIntake(status) == AcceptedStaleSeconds

Threshold(status) ==
    IF status = "accepted" THEN AcceptedStaleSeconds ELSE StaleSeconds

StaleState(j) ==
    IF rows[j].status \notin InFlight THEN "not_applicable"
    ELSE IF Age(j) >= Threshold(rows[j].status) THEN "stale" ELSE "fresh"

Advice(retryable, action, owner) ==
    [retryable |-> retryable, action |-> action, owner |-> owner]

Oncall == "reporting-platform-on-call"

RuntimeAdvice == Advice(TRUE, "escalate_render_runtime", Oncall)
TemplateAdvice == Advice(TRUE, "escalate_template_support", Oncall)

RecoveryByCategory(category) ==
    CASE category = "package_validation_failed" ->
           Advice(FALSE, "fix_upstream_render_package", "lotus-report")
      [] category = "template_not_supported" ->
           Advice(FALSE, "fix_template_registry_or_package", "template-owner")
      [] category \in {"engine_unavailable", "timeout"} -> RuntimeAdvice
      [] category = "resource_limit_exceeded" ->
           Advice(FALSE, "reduce_document_size_or_raise_envelope", "lotus-report")
      [] category \in {"template_render_failed", "artifact_validation_failed"} ->
           TemplateAdvice
      [] OTHER -> Advice(TRUE, "escalate_reporting_platform", Oncall)

DiagnosticRecovery(status, category, stale) ==
    IF status = "rendered"
    THEN Advice(FALSE, "read_artifact_metadata", "lotus-render")
    ELSE IF status \in InFlight
    THEN IF stale = "stale"
         THEN Advice(TRUE, "resubmit_identical_package_or_escalate_runtime", Oncall)
         ELSE Advice(FALSE, "wait_for_completion", "lotus-render")
    ELSE RecoveryByCategory(category)

GetDiagnostics(tenant, j) ==
    IF ~Visible(tenant, j) THEN NotFound
    ELSE [code |-> 200, status |-> rows[j].status, failure |-> rows[j].failure,
          ready |-> rows[j].status = "rendered", stale |-> StaleState(j),
          advice |-> DiagnosticRecovery(rows[j].status, rows[j].failure,
                                        StaleState(j))]

-----------------------------------------------------------------------------
(* The posture of all jobs, of every tenant and of none *)

In(status) == {j \in Jobs : rows[j].status = status}

StaleOf(status) == {j \in In(status) : Age(j) >= Threshold(status)}

InFlightSummary(status) ==
    LET ages == {Age(j) : j \in In(status)}
    IN  [count |-> Cardinality(In(status)),
         stale |-> Cardinality(StaleOf(status)),
         oldest |-> IF ages = {} THEN 0
                    ELSE CHOOSE a \in ages : \A b \in ages : b <= a]

\* What the scrape sets the two gauges of a status to.
Gauges(status) ==
    LET summary == InFlightSummary(status)
    IN  [fresh |-> summary.count - summary.stale, stale |-> summary.stale,
         oldest |-> summary.oldest]

-----------------------------------------------------------------------------
(* Metrics *)

OperationStatuses ==
    InFlight \cup Terminal \cup ArchiveStates
        \cup {"not_found", "not_ready", "rejected"}

BoundedStatus(status) ==
    IF status \in OperationStatuses THEN status ELSE "failed"

\* The status each read is counted under, before it is bounded.
Counted(tenant, j) ==
    [status   |-> IF Visible(tenant, j) THEN rows[j].status ELSE "not_found",
     artifact |-> CASE ~Visible(tenant, j) -> "not_found"
                    [] rows[j].status # "rendered" -> "not_ready"
                    [] OTHER -> "rendered"]

-----------------------------------------------------------------------------
(* Properties *)

\* What a resubmission of the identical package by the job's owner would do.
WouldRender(j) ==
    rows[j].tenant # NoTenant /\ rows[j].status \in InFlight /\ Claimable(j, now)

\* The advice to resubmit a stale job is given for jobs a resubmission does
\* reclaim, and the advice to wait for a rendering job only while it would
\* not be (render_submission.py:72-75, service-operations.md:108-110).
AdviceMatchesTheClaim ==
    \A tenant \in Tenants, j \in Jobs :
        LET diagnostics == GetDiagnostics(tenant, j)
        IN  diagnostics.code = 200 /\ diagnostics.status \in InFlight =>
              /\ diagnostics.advice.retryable => WouldRender(j)
              /\ diagnostics.status = "rendering" /\ WouldRender(j) =>
                    diagnostics.advice.retryable

\* The scrape's gauges count exactly the jobs the diagnostics call stale and
\* fresh, and every rendering job a claim would take over is among the stale
\* (render_store.py:129-178, render_posture.py:30-58).
PostureMatchesDiagnostics ==
    \A status \in InFlight :
        LET saying(s) == {j \in In(status) : StaleState(j) = s}
        IN  /\ Gauges(status).stale = Cardinality(saying("stale"))
            /\ Gauges(status).fresh = Cardinality(saying("fresh"))
            /\ Gauges(status).stale > 0 => Gauges(status).oldest >= Threshold(status)
            /\ Gauges("rendering").stale =
                  Cardinality({j \in In("rendering") : Claimable(j, now)})

\* Bounding a label never turns one outcome into another: a lookup that found
\* nothing is not counted as a failed job (render_metrics.py:338-427).
CountsKeepTheOutcome ==
    \A tenant \in Tenants, j \in Jobs :
        LET counted == Counted(tenant, j)
        IN  \A read \in DOMAIN counted : BoundedStatus(counted[read]) = counted[read]

\* What a caller may learn of a job: its owner's three reads agree on whether
\* it is finished, on its digest and on its failure, and everyone else's
\* three reads are those of a job that was never created
\* (renders.py:320-453, render_job_views.py:96-132).
AnswersAgree ==
    \A tenant \in Tenants, j \in Jobs :
        LET status == GetStatus(tenant, j)
            metadata == GetArtifactMetadata(tenant, j)
            diagnostics == GetDiagnostics(tenant, j)
        IN  /\ status.code = 200 <=> rows[j].tenant = tenant
            /\ status.code = 404 <=> metadata = NotFound
            /\ status.code = diagnostics.code
            /\ metadata.code = 200 =>
                  metadata.sha = status.sha /\ metadata.sha # NoDigest
            /\ status.code = 200 =>
                  /\ diagnostics.ready <=> metadata.code = 200
                  /\ status.failure = diagnostics.failure

\* What every way to look at a job says of it is one thing: to its owner, to
\* everyone else, on the scrape's gauges and in the operation counts
\* (renders.py:320-453, render_posture.py:30-58, render_metrics.py:338-427).
ReadsAgree == AnswersAgree /\ PostureMatchesDiagnostics /\ CountsKeepTheOutcome

=============================================================================
