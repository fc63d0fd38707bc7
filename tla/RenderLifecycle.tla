-------------------------- MODULE RenderLifecycle --------------------------
(***************************************************************************)
(* A render job from submission to answer, src/app/services/               *)
(* render_submission.py, composed of the job store (RenderStore), the      *)
(* execution slots and the shutdown drain (ExecutionLimiter), the engine   *)
(* that may succeed, fail or stall, and the Archive across a network.      *)
(*                                                                         *)
(* A submission is one POST /renders, run on a thread of its own: between  *)
(* any two of its calls to the store, the limiter, the engine or Archive,  *)
(* any other submission may take steps, the clock may move, or the process *)
(* may stop.  A submission holds only what the code holds in its locals;   *)
(* the store and the Archive outlive the process.  A submission that was   *)
(* answered is free to be sent again: that is the client's retry.          *)
(***************************************************************************)
EXTENDS RenderStore, ExecutionLimiter

CONSTANTS
    ClaimedTenant,      \* per package: the tenant its custody block names, or
                        \* NoTenant
    CompositePackages,  \* packages whose report_type is composite_review
    ScopedTenant,       \* per composite: its report_data's tenant_id, or
                        \* NoTenant
    Refusal,            \* per package: the category admission refuses it
                        \* with, or "none"
    CustodyPackages,    \* packages with a custody block and a reference
    ArchiveConfigured,  \* whether this deployment has an Archive
    FaultyOps,          \* store operations SQLite may fail
    Stops,              \* how the process may stop: "crash", "shutdown"
    MaxStops            \* bound: how often it does

StoreOps == {"create_or_get", "claim_for_rendering", "mark_rendered",
             "mark_failed", "record_archive_outcome", "get"}

ASSUME PackageAssumption ==
    /\ ClaimedTenant \in [Packages -> Tenants \cup {NoTenant}]
    /\ CompositePackages \subseteq Packages
    /\ ScopedTenant \in [CompositePackages -> Tenants \cup {NoTenant}]
    /\ Refusal \in [Packages -> Categories \cup {"none"}]
    /\ CustodyPackages \subseteq Packages
ASSUME SomethingToSendAssumption ==
    Jobs # {} /\ Tenants # {} /\ Packages # {}
ASSUME DeploymentAssumption ==
    /\ ArchiveConfigured \in BOOLEAN
    /\ FaultyOps \subseteq StoreOps
    /\ "unexpected_render_error" \in Categories
    /\ Stops \subseteq {"crash", "shutdown"}
    /\ MaxStops \in Nat

VARIABLES
    sub,        \* per submission: where it is and what it holds
    wire,       \* deliveries that left the process and have not settled
    documents,  \* the documents Archive holds
    stops       \* crashes and shutdowns so far

vars == <<storeVars, limiterVars, sub, wire, documents, stops>>

-----------------------------------------------------------------------------
(* Submissions *)

\* What a submission is about to do.
Steps == {"idle", "admit", "claim", "render", "record", "adopt", "fail",
          "reread", "deliver", "await", "file", "return"}

\* What the caller is about to be told: a job (200 or 201), or an error.
\* fail's `error_type` is chosen when the failure is, and only raised if the
\* failure is what the row says.  scope_contradiction is a package_invalid
\* with a message of its own, raised before there is a row.
Answers == {"none", "job", "job_conflict", "capacity_exhausted",
            "package_invalid", "execution_failed", "tenant_contradiction",
            "scope_contradiction", "internal_error"}

Submission ==
    [step     : Steps,
     job      : Jobs,
     tenant   : Tenants,
     package  : Packages,
     row      : Row,            \* the StoredRenderJob it last kept
     observed : Nat,            \* the clock as the claim read it
     bytes    : Digests \cup {NoDigest},  \* what it rendered, then returns
     failure  : Categories \cup {"none"},
     custody  : ArchiveStates \cup {"none"},
     answer   : Answers]

\* Locals of a call that has not started: no field means anything.
Idle == [step     |-> "idle",
         job      |-> CHOOSE j \in Jobs : TRUE,
         tenant   |-> CHOOSE t \in Tenants : TRUE,
         package  |-> CHOOSE p \in Packages : TRUE,
         row      |-> AbsentRow,
         observed |-> 0,
         bytes    |-> NoDigest,
         failure  |-> "none",
         custody  |-> "none",
         answer   |-> "none"]

\* Where submission s goes next: its locals become `r`.
Goto(s, r) == sub' = [sub EXCEPT ![s] = r]

\* It answers with the row it holds, and with bytes or without.
AnswerJob(s, row, bytes) ==
    Goto(s, [sub[s] EXCEPT !.step = "return", !.answer = "job",
                           !.row = row, !.bytes = bytes])

AnswerError(s, error) ==
    Goto(s, [sub[s] EXCEPT !.step = "return", !.answer = error,
                           !.bytes = NoDigest])

\* It turns to _fail_submit with a category and the error it would raise.
FailWith(s, failure, error) ==
    Goto(s, [sub[s] EXCEPT !.step = "fail", !.failure = failure,
                           !.answer = error, !.bytes = NoDigest])

\* A store operation raises and its transaction rolls back.
Faulty(op) == op \in FaultyOps /\ UNCHANGED storeVars

outside == <<wire, documents, stops>>

-----------------------------------------------------------------------------
(* Intake: the route and submit *)

\* The package's custody block names a tenant other than the one the
\* transport admitted: refused before the job exists.
Contradicts(tenant, package) == ClaimedTenant[package] \notin {NoTenant, tenant}

\* A composite's report_data names another tenant, or names none.
OutOfScope(tenant, package) ==
    package \in CompositePackages /\ ScopedTenant[package] # tenant

\* The tenant may send the package.
InScope(tenant, package) ==
    ~Contradicts(tenant, package) /\ ~OutOfScope(tenant, package)

\* create_or_get_with_outcome, and what submit makes of its result.
Submit(s, j, tenant, package) ==
    LET call == [Idle EXCEPT !.job = j, !.tenant = tenant, !.package = package]
        answer(a, row) ==
            Goto(s, [call EXCEPT !.step = "return", !.answer = a, !.row = row])
        admit(row) == Goto(s, [call EXCEPT !.step = "admit", !.row = row])
    IN
    /\ sub[s].step = "idle"
    /\ UNCHANGED <<limiterVars, outside>>
    /\ \/ /\ Contradicts(tenant, package)
          /\ answer("tenant_contradiction", AbsentRow)
          /\ UNCHANGED storeVars
       \/ /\ ~Contradicts(tenant, package) /\ OutOfScope(tenant, package)
          /\ answer("scope_contradiction", AbsentRow)
          /\ UNCHANGED storeVars
       \/ /\ InScope(tenant, package)
          /\ Create(j, tenant, package)
          /\ admit(AcceptedRow(tenant, package))
       \/ /\ InScope(tenant, package)
          /\ Exists(j)
          /\ UNCHANGED storeVars
          /\ \/ /\ Conflicts(rows[j], tenant, package)
                /\ answer("job_conflict", AbsentRow)
             \/ /\ ~Conflicts(rows[j], tenant, package)
                /\ rows[j].status \in Terminal
                /\ answer("job", rows[j])
             \/ /\ ~Conflicts(rows[j], tenant, package)
                /\ rows[j].status \in InFlight
                /\ admit(rows[j])
       \/ /\ InScope(tenant, package)
          /\ Faulty("create_or_get")
          /\ answer("internal_error", AbsentRow)

\* _execute_render before the slot: a package over the envelope, or with a
\* section selection that cannot be honoured, fails under the generation the
\* intake read.
RefuseAdmission(s) ==
    /\ sub[s].step = "admit"
    /\ Refusal[sub[s].package] # "none"
    /\ FailWith(s, Refusal[sub[s].package], "package_invalid")
    /\ UNCHANGED <<storeVars, limiterVars, outside>>

\* _execute_render at the slot: taken before the claim, or the row is left as
\* it is.  The claim reads the clock before it waits for the store.
TakeSlot(s) ==
    /\ sub[s].step = "admit"
    /\ Refusal[sub[s].package] = "none"
    /\ UNCHANGED <<storeVars, outside>>
    /\ \/ /\ Acquire(s)
          /\ Goto(s, [sub[s] EXCEPT !.step = "claim", !.observed = now])
       \/ /\ ~Free
          /\ AnswerError(s, "capacity_exhausted")
          /\ UNCHANGED limiterVars

-----------------------------------------------------------------------------
(* Claim and render *)

\* A claim that is refused answers with the row read at intake.
Claim(s) ==
    LET me == sub[s] IN
    /\ me.step = "claim"
    /\ UNCHANGED <<limiterVars, outside>>
    /\ \/ /\ ClaimForRendering(me.job, me.observed)
          /\ Goto(s, [me EXCEPT !.step = "render", !.row = rows'[me.job],
                                !.observed = 0])
       \/ /\ ~Claimable(me.job, me.observed)
          /\ AnswerJob(s, me.row, NoDigest)
          /\ UNCHANGED storeVars
       \/ /\ Faulty("claim_for_rendering")
          /\ AnswerError(s, "internal_error")

\* The four except clauses of _claim_and_render: the category written and the
\* error raised for it.
EngineFailures ==
    {f \in {<<"timeout", "execution_failed">>,
            <<"template_not_supported", "package_invalid">>,
            <<"package_validation_failed", "package_invalid">>,
            <<"resource_limit_exceeded", "execution_failed">>,
            <<"engine_unavailable", "execution_failed">>,
            <<"template_render_failed", "execution_failed">>,
            <<"unexpected_render_error", "execution_failed">>} :
        f[1] \in Categories}

\* The engine answers when it answers: a render may outlast its claim.  Two
\* renders of one package need not produce the same bytes.
Render(s) ==
    /\ sub[s].step = "render"
    /\ UNCHANGED <<storeVars, limiterVars, outside>>
    /\ \/ \E sha \in Digests :
             Goto(s, [sub[s] EXCEPT !.step = "record", !.bytes = sha])
       \/ \E f \in EngineFailures : FailWith(s, f[1], f[2])

-----------------------------------------------------------------------------
(* Terminal writes *)

\* Mutant of LoseFence: the bytes are delivered whoever won.
DeliverAnyway(s) == Goto(s, [sub[s] EXCEPT !.step = "deliver"])

\* The fence is lost: another attempt owns the job, and its truth is adopted.
LoseFence(s) == Goto(s, [sub[s] EXCEPT !.step = "adopt"])

\* Mutant of LoseResult: an error recording the result escapes.
LetErrorEscape(s) == AnswerError(s, "internal_error")

\* The result could not be recorded: the job is failed closed.
LoseResult(s) == FailWith(s, "unexpected_render_error", "execution_failed")

\* _record_render_result.
RecordRender(s) ==
    LET me == sub[s] IN
    /\ me.step = "record"
    /\ UNCHANGED <<limiterVars, outside>>
    /\ \/ /\ MarkRendered(me.job, me.row.gen, me.bytes)
          /\ Goto(s, [me EXCEPT !.step = "deliver", !.row = rows'[me.job]])
       \/ /\ ~MayMarkRendered(me.job, me.row.gen)
          /\ LoseFence(s)
          /\ UNCHANGED storeVars
       \/ Faulty("mark_rendered") /\ LoseResult(s)

\* Mutant of AdoptedBytes: the local bytes beside the winner's row.
OwnBytes(stored, bytes) == bytes

\* Local bytes are returned only if they hash to the digest stored.
AdoptedBytes(stored, bytes) ==
    IF stored.status = "rendered" /\ stored.sha = bytes THEN bytes ELSE NoDigest

\* _adopt_stored_truth: the winner's row.
Adopt(s) ==
    LET stored == rows[sub[s].job] IN
    /\ sub[s].step = "adopt"
    /\ UNCHANGED <<storeVars, limiterVars, outside>>
    /\ \/ AnswerJob(s, stored, AdoptedBytes(stored, sub[s].bytes))
       \/ Faulty("get") /\ AnswerError(s, "internal_error")

\* Mutant of LoseFailure: the error is raised though nothing was written.
RaiseUnwritten(s) == AnswerError(s, sub[s].answer)

\* The failure could not be written: the store's own error escapes.
LoseFailure(s) == AnswerError(s, "internal_error")

\* _fail_submit: the failure is written under the claim held or observed, or
\* the row another writer left is read.
RecordFailure(s) ==
    LET me == sub[s] IN
    /\ me.step = "fail"
    /\ UNCHANGED <<limiterVars, outside>>
    /\ \/ /\ MarkFailed(me.job, me.row.gen, me.failure)
          /\ AnswerError(s, me.answer)
       \/ /\ ~MayMarkFailed(me.job, me.row.gen)
          /\ Goto(s, [me EXCEPT !.step = "reread"])
          /\ UNCHANGED storeVars
       \/ Faulty("mark_failed") /\ LoseFailure(s)

IsFailure(row) == row.status = "failed"

\* _mark_failed_or_current_truth after a refused write: a failure is raised,
\* anything else is answered without bytes.
Reread(s) ==
    LET stored == rows[sub[s].job] IN
    /\ sub[s].step = "reread"
    /\ UNCHANGED <<storeVars, limiterVars, outside>>
    /\ \/ IsFailure(stored) /\ AnswerError(s, sub[s].answer)
       \/ ~IsFailure(stored) /\ AnswerJob(s, stored, NoDigest)
       \/ Faulty("get") /\ AnswerError(s, "internal_error")

-----------------------------------------------------------------------------
(* Custody *)

\* Archive converges deliveries of the same reference and bytes on one
\* document, so a delivery is the document it would make.
Document(me) == [job |-> me.job, sha |-> me.bytes, tenant |-> me.row.tenant]

HandoffApplies(me) == ArchiveConfigured /\ me.package \in CustodyPackages

\* Mutant of Unproven: a delivery nobody saw the end of counts as failed.
Guessed == "archive_failed"

\* What an unproven commit is recorded as.
Unproven == "archive_pending"

\* The delivery came to a custody state, which is to be recorded.
SettleAs(s, state) ==
    Goto(s, [sub[s] EXCEPT !.step = "file", !.custody = state])

\* hand_off_and_record up to the first byte: nothing to hand off, a request
\* on the wire, every connect refused, or an error before anything was sent.
Deliver(s) ==
    LET me == sub[s] IN
    /\ me.step = "deliver"
    /\ UNCHANGED <<storeVars, limiterVars, documents, stops>>
    /\ \/ /\ ~HandoffApplies(me)
          /\ AnswerJob(s, me.row, me.bytes)
          /\ UNCHANGED wire
       \/ /\ HandoffApplies(me)
          /\ wire' = wire \cup {Document(me)}
          /\ Goto(s, [me EXCEPT !.step = "await"])
       \/ /\ HandoffApplies(me)
          /\ SettleAs(s, "archive_failed") \/ SettleAs(s, Unproven)
          /\ UNCHANGED wire

\* Archive commits a delivery that reached it, however late.
Archive(d) ==
    /\ d \in wire
    /\ wire' = wire \ {d}
    /\ documents' = documents \cup {d}
    /\ UNCHANGED <<storeVars, limiterVars, sub, stops>>

\* The delivery settles: Archive named its document, Archive refused a
\* request it had not committed, or nobody learned what happened.
Settle(s) ==
    LET me == sub[s] IN
    /\ me.step = "await"
    /\ UNCHANGED <<storeVars, limiterVars, documents, stops>>
    /\ \/ /\ Document(me) \in documents
          /\ SettleAs(s, "archived_verified")
          /\ UNCHANGED wire
       \/ /\ Document(me) \in wire
          /\ wire' = wire \ {Document(me)}
          /\ SettleAs(s, "archive_failed")
       \/ SettleAs(s, Unproven) /\ UNCHANGED wire

\* The custody truth is recorded under the claim that won; a refused or
\* failed write leaves the row as it was and the answer without it.
FileOutcome(s) ==
    LET me == sub[s] IN
    /\ me.step = "file"
    /\ UNCHANGED <<limiterVars, outside>>
    /\ \/ /\ RecordArchiveOutcome(me.job, me.row.gen, me.custody)
          /\ AnswerJob(s, rows'[me.job], me.bytes)
       \/ /\ \/ ~MayRecordArchive(me.job, me.row.gen)
             \/ "record_archive_outcome" \in FaultyOps
          /\ UNCHANGED storeVars
          /\ AnswerJob(s, me.row, me.bytes)

\* Mutant of Return: the slot is not given back.
ReturnLeaking(s) ==
    /\ sub[s].step = "return"
    /\ Goto(s, Idle)
    /\ UNCHANGED <<storeVars, limiterVars, outside>>

\* The finally clause gives the slot back and the answer leaves.
Return(s) ==
    /\ sub[s].step = "return"
    /\ IF s \in held THEN Release(s) ELSE UNCHANGED limiterVars
    /\ Goto(s, Idle)
    /\ UNCHANGED <<storeVars, outside>>

-----------------------------------------------------------------------------
(* The process *)

\* The process ends: every call in it is lost, and a fresh one starts with
\* fresh slots.  What is stored, on the wire or in Archive stays.
ProcessEnds ==
    /\ sub' = [s \in Submissions |-> Idle]
    /\ held' = {} /\ drain' = "off" /\ drained' = 0
    /\ UNCHANGED <<storeVars, wire, documents>>

\* Bounds: how often the process stops, and room on the clock for a claim it
\* abandons to go stale.
MayStop == stops < MaxStops /\ now + StaleSeconds <= MaxNow

Crash ==
    /\ "crash" \in Stops /\ MayStop
    /\ stops' = stops + 1
    /\ ProcessEnds

BeginShutdown ==
    /\ "shutdown" \in Stops /\ MayStop
    /\ StartDrain
    /\ stops' = stops + 1
    /\ UNCHANGED <<storeVars, sub, wire, documents>>

DrainStep == Drain /\ UNCHANGED <<storeVars, sub, outside>>

Exit ==
    /\ drain \in {"drained", "timed_out"}
    /\ ProcessEnds
    /\ UNCHANGED stops

\* Bound: during a drain the clock leaves the same room, for the claims the
\* exit abandons.
TickClock ==
    /\ drain = "off" \/ now + StaleSeconds < MaxNow
    /\ Tick
    /\ UNCHANGED <<limiterVars, sub, outside>>

-----------------------------------------------------------------------------
Resubmit(s) == \E j \in Jobs, tenant \in Tenants, package \in Packages :
                  Submit(s, j, tenant, package)

\* One step of a submission's own thread.
Proceed(s) ==
    \/ RefuseAdmission(s) \/ TakeSlot(s) \/ Claim(s) \/ Render(s)
    \/ RecordRender(s) \/ Adopt(s) \/ RecordFailure(s) \/ Reread(s)
    \/ Deliver(s) \/ Settle(s) \/ FileOutcome(s) \/ Return(s)

Init ==
    /\ StoreInit
    /\ LimiterInit
    /\ sub = [s \in Submissions |-> Idle]
    /\ wire = {} /\ documents = {} /\ stops = 0

Next ==
    \/ \E s \in Submissions : Resubmit(s) \/ Proceed(s)
    \/ \E d \in wire : Archive(d)
    \/ Crash \/ BeginShutdown \/ DrainStep \/ Exit \/ TickClock

Spec == Init /\ [][Next]_vars

-----------------------------------------------------------------------------
(* Fairness *)

\* Every thread runs: the engine is bounded by its compile timeout and each
\* delivery by the transport's, so no step of a call blocks for ever.
FairSpec == Spec /\ \A s \in Submissions : WF_vars(Proceed(s))

\* Recovery further needs a shutdown that goes on, a clock that moves and
\* clients that keep sending: the service re-renders nothing on its own.
RecoverySpec ==
    /\ FairSpec
    /\ WF_vars(DrainStep) /\ WF_vars(Exit)
    /\ WF_vars(TickClock)
    /\ \A s \in Submissions : WF_vars(Resubmit(s))

-----------------------------------------------------------------------------
(* Invariants *)

\* Every variable holds what the code can put there.
TypeOK ==
    /\ StoreTypeOK
    /\ LimiterTypeOK
    /\ sub \in [Submissions -> Submission]
    /\ wire \subseteq [job : Jobs, sha : Digests,
                       tenant : Tenants \cup {NoTenant}]
    /\ documents \subseteq [job : Jobs, sha : Digests,
                       tenant : Tenants \cup {NoTenant}]
    /\ stops \in 0..MaxStops

\* Between winning a claim and giving up on writing an outcome under it.
HoldsClaim(s) == s \in held /\ sub[s].step \in {"render", "record", "fail"}

Supersedes(j, gen) == rows[j].gen > gen

\* No two calls of this process hold the same claim of a job, however the
\* takeover of a stale one and the stalled worker's return interleave
\* (render_store.py:279-333).
ExclusiveClaim ==
    \A s, u \in Submissions :
        /\ s # u /\ HoldsClaim(s) /\ HoldsClaim(u)
        /\ sub[s].job = sub[u].job
        => sub[s].row.gen # sub[u].row.gen

\* A finished render is set aside only because a later claim took the job
\* over: nothing else, no refusal and no late failure of another attempt, can
\* take the outcome away from the claim's holder
\* (render_submission.py:283-327, 350-375).
FenceLostOnlyToTakeover ==
    \A s \in Submissions :
        sub[s].step \in {"adopt", "reread"} /\ s \in held =>
            Supersedes(sub[s].job, sub[s].row.gen)

\* Bytes that leave in an answer are the bytes of the digest in that answer,
\* and of the digest every later reader will be shown
\* (render_submission.py:324-348).
AnswerBytesAreTheArtifact ==
    \A s \in Submissions :
        LET me == sub[s] IN
        me.step = "return" /\ me.bytes # NoDigest =>
            /\ me.row.status = "rendered" /\ me.row.sha = me.bytes
            /\ rows[me.job].status = "rendered" /\ rows[me.job].sha = me.bytes

\* A caller told that its render failed was told the job's outcome: the row
\* is failed, and a job another attempt completed is never reported failed.
\* A caller turned away for the tenant its package names has no job with that
\* package, from this call or any other (render_submission.py:101-104,
\* 350-385, 475-492, renders.py:53-70).
FailureAnswersAreTrue ==
    \A s \in Submissions :
        LET me == sub[s] IN
        me.step = "return" =>
            /\ me.answer \in {"package_invalid", "execution_failed"} =>
                  rows[me.job].status = "failed"
            /\ me.answer \in {"tenant_contradiction", "scope_contradiction"} =>
                  \A j \in Jobs :
                     rows[j].tenant = me.tenant => rows[j].package # me.package

\* An answer shows a job only to the tenant that owns it, though the rereads
\* of adopt and reread are not scoped by tenant
\* (render_submission.py:329-348, 475-492).
AnswersStayInTenant ==
    \A s \in Submissions :
        sub[s].step = "return" /\ sub[s].answer = "job" =>
            /\ rows[sub[s].job].tenant = sub[s].tenant
            /\ sub[s].row.tenant = sub[s].tenant
            /\ rows[sub[s].job].package = sub[s].package

\* Whatever Archive holds, or may still receive, of a job is the artifact the
\* job's row names, filed for the row's owner: a superseded attempt never
\* puts a second document in custody (render_submission.py:292-323,
\* archive_handoff.py:382-441).
CustodyIsTheArtifact ==
    \A d \in wire \cup documents :
        /\ rows[d.job].status = "rendered"
        /\ rows[d.job].sha = d.sha
        /\ rows[d.job].tenant = d.tenant

\* The custody column never lies: verified names a document Archive has,
\* failed means none exists or can still appear, and nothing but a rendered
\* job has a custody state (archive_handoff.py:334-441).
CustodyColumnIsTrue ==
    \A j \in Jobs :
        /\ rows[j].archive # "none" => rows[j].status = "rendered"
        /\ rows[j].archive = "archived_verified" =>
              \E d \in documents : d.job = j
        /\ rows[j].archive = "archive_failed" =>
              \A d \in wire \cup documents : d.job # j

\* A slot is held exactly from acquire to release, on every path out of a
\* call (render_submission.py:209-214).
SlotsMatchCalls ==
    \A s \in Submissions :
        /\ sub[s].step \in {"claim", "render", "record", "adopt",
                            "deliver", "await", "file"} => s \in held
        /\ sub[s].step \in {"idle", "admit"} => s \notin held

\* A process that drained every slot leaves no claim behind: no call of it
\* can still write an outcome or a delivery (main.py:100-122).
DrainedStrandsNothing ==
    drain = "drained" =>
        \A s \in Submissions :
            /\ ~HoldsClaim(s)
            /\ sub[s].step \notin {"deliver", "await", "file"}

\* While the process has never stopped and no failure write was lost, a job
\* at rendering is one some call of the process still holds the claim of:
\* no path out of a claim strands it (render_submission.py:163-165, 262-281).
RenderingIsHeld ==
    stops = 0 /\ "mark_failed" \notin FaultyOps =>
        \A j \in Jobs \ LegacyJobs :
            rows[j].status = "rendering" =>
                \E s \in Submissions :
                    /\ HoldsClaim(s)
                    /\ sub[s].job = j /\ sub[s].row.gen = rows[j].gen

\* A row's status and custody are true of the process and of Archive: no
\* claim is stranded and no custody state is a guess.
RowsAreTrue == CustodyColumnIsTrue /\ RenderingIsHeld

-----------------------------------------------------------------------------
(* Liveness *)

\* Every call is answered or dies with the process: no path through the
\* claim, the engine, the store's errors and the delivery waits for ever
\* (render_submission.py:154-327).
EveryCallEnds ==
    \A s \in Submissions : sub[s].step # "idle" ~> sub[s].step = "idle"

\* While the process runs, a claimed job reaches rendered or failed without
\* anyone asking again, also when recording the render fails
\* (render_submission.py:163-165, 306-319).
ClaimedJobsSettle ==
    \A j \in Jobs : rows[j].status = "rendering" ~> rows[j].status \in Terminal

\* Together: what is under way ends without anyone asking again.
CallsAndJobsSettle == EveryCallEnds /\ ClaimedJobsSettle

\* A job accepted by this release, stranded by a crash or refused for
\* capacity at any point, is settled by sending the identical package again
\* (render_submission.py:157-171, render_store.py:288-291).
ResubmissionRecovers ==
    \A j \in Jobs \ LegacyJobs : Exists(j) ~> rows[j].status \in Terminal

-----------------------------------------------------------------------------
(* The abstract specification, implemented *)

Owner(j) ==
    IF Exists(j) THEN {<<rows[j].tenant, rows[j].package>>} ELSE {}

Result(j) ==
    CASE rows[j].status = "rendered" -> {<<"rendered", rows[j].sha>>}
      [] rows[j].status = "failed" -> {<<"failed", rows[j].failure>>}
      [] OTHER -> {}

Outcome == INSTANCE RenderOutcome WITH
    Owners <- (Tenants \cup {NoTenant}) \X Packages,
    Failures <- Categories,
    owner <- [j \in Jobs |-> Owner(j)],
    outcome <- [j \in Jobs |-> Result(j)],
    custody <- documents

\* Attempts, takeovers, crashes and late deliveries implement the three
\* write-once steps of RenderOutcome: open, decide, deposit.
ImplementsOutcome == Outcome!OutcomeSpec

-----------------------------------------------------------------------------
(* What the repository says of the program and the program does not do *)

\* contracts/renders.py:385: archive_state is "Null when no handoff applies".
\* A delivery whose outcome was never recorded leaves it null as well.
NullArchiveMeansNoHandoff ==
    \A d \in wire \cup documents :
        rows[d.job].archive = "none" =>
            \E s \in Submissions :
                sub[s].job = d.job /\ sub[s].step \in {"await", "file"}

\* migrations/render_store.py:141-143: "pre-upgrade rows stay claimable and
\* recoverable without any backfill".  Every admitted tenant conflicts with a
\* row that has none.
LegacyJobsRecover ==
    \A j \in LegacyJobs :
        rows[j].status \in InFlight ~> rows[j].status \in Terminal

=============================================================================
