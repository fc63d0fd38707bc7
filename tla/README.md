# lotus-render: a TLA+ model

`lotus-render` turns a *render package* (JSON facts, a template id, an output
format) into a PDF or a workbook, keeps one row per job in SQLite, answers the
bytes once, and hands the artifact to `lotus-archive` for custody. This
directory holds TLA+ modules of that program, TLC configurations that check
them on small instances, and proofs checked by TLAPS. Paths below are relative
to the repository.

## 1. Inventory

The program is one FastAPI process. A POST runs on a thread of the server's
pool; the only shared state is the SQLite table (behind one lock), the
semaphore of execution slots and, outside the process, Archive. Nothing in the
background re-renders, retries or repairs: whatever recovers, recovers because
a client sends the identical package again.

| component | source (`src/app/`) | state | operations | what makes it correct |
|---|---|---|---|---|
| Job store | `infrastructure/render_store.py`, `render_store_rows.py` | one row per job: status, claim generation, tenant, package hash, digest, failure, archive state, timestamps | `create_or_get_with_outcome`, `claim_for_rendering`, `mark_rendered`, `mark_failed`, `record_archive_outcome`, tenant-scoped and unscoped reads, in-flight summaries | outcomes are write-once; a write is fenced by status and generation; a live claim is not taken over before it is stale; a job belongs to one tenant and one package; all reads tell one story |
| Store migrations | `infrastructure/migrations/render_store.py` | `PRAGMA user_version`, the table's columns | seven migrations, at start-up | the version never promises a column that is not there; a crash between two statements, or a second process, is repaired by the next start |
| Render submission | `services/render_submission.py` | the locals of each call | `submit`, and the read handlers | whatever interleaves, the caller is told the job's truth, and the bytes it gets are the stored artifact's |
| Execution limiter, drain | `services/render_execution.py` | a semaphore | `acquire`, `release`, `drain` | no slot is leaked; a successful drain means nothing is running; the drain ends |
| Lifespan | `main.py` | the container, the start and end of the process | start, drain at shutdown | the registry is loaded before the store is opened; a shutdown waits for renders, and no longer than its bound |
| Archive handoff | `services/archive_handoff.py` | the attempt, the last answer | `deliver`, `hand_off_and_record` | "verified" and "failed" are only said when proved; retries file one document; the render never fails with the delivery |
| Routes, tenant admission | `api/routes/renders.py`, `dependencies/admitted_tenant.py` | none | POST and GETs, mapping outcomes to status codes | a tenant learns nothing of another's jobs; exactly one usable tenant is admitted |
| Recovery advice, job views | `services/render_recovery.py`, `render_job_views.py` | none | advice per status and category | who is told to resubmit is one whose resubmission renders |
| Template registry, intake, dispatch | `domain/templates/*`, `services/render_dispatch.py` | the manifests, loaded once | load, `resolve`, digest check, choose the engine | a package gets an existing, active, matching template and the engine that serves it, or the first refusal that applies |
| Typst engine | `services/typst_rendering.py`, `compile_failures.py` | a workspace and a container per render, the cached engine version | compile under a timeout, kill, classify the exit | a running compile has its workspace; a kill reaches its own container; an exit is called what it was |
| HTTP boundary, correlation | `middleware/*` | the request, the bytes read so far | body limit on a stream, ids, replay | no body above the limit is held or handed on; every answer is correlated |
| Probes, posture metrics | `api/routes/system.py`, `services/render_foundation.py`, `observability/render_posture.py` | gauges | readiness, supportability, scrape | the three agree with the store and the drain |
| Admission envelope, section selection, appendix | `services/render_envelope.py`, `section_selection.py`, `appendix_glossary.py`, `*_presentation.py` | none | verdict on a package, its pages | cost is bounded before an engine runs; a selection is honoured or refused; what is drawn is explained |
| Review panels | `services/portfolio_charts.py`, `allocation_values.py`, `attribution_bridge.py`, `risk_*.py`, `drawdown_panel.py`, `chart_geometry.py` | none | fold, scale, place | no panel states a figure its rows do not |
| Composite workbook writer | `services/composite_workbook/{rendering,capacity,literal_writer,...}.py` | the sheet being written, the temporary file | size, partition, write, bounded by a deadline | every row once, under every limit; nothing is left behind |
| Composite evidence | `services/composite_workbook/*_{source,tables,custody,...}.py`, `contracts/composite_*.py` | none | admit a dataset of contract v1 to v9 and lay its tables out | a figure is of the source it was selected from, complete and qualified, and its corrections form one history |
| Settings | `core/settings.py` | configuration | validation at start | a production process has a persistent store |
| Typst contexts, tables, fragments; request shapes; release metadata; logs | `services/typst_*.py`, `contracts/renders.py`, ... | none | text formatting, field shapes | section 6 |

How they interact. The route calls `RenderSubmissionService.submit` on a
thread; `submit` writes the intake row, runs admission, takes a slot from the
limiter *before* it claims the row, claims, calls the engine with no lock
held, records the result under the claim, hands the artifact to Archive and
records the custody state, and gives the slot back. Any of these calls may
raise. The lifespan drains the limiter at shutdown. The store and Archive
outlive the process; slots and locals do not.

What is hard. A render may outlast its claim, and a second submission of the
same package then takes the job over: two threads hold bytes for one job, with
one of them not knowing. Failures are written by code that does not know
whether it still owns the job. A crash may fall between the render's record
and its custody record. Archive may commit and lose its answer. A drain counts
slots while calls arrive. Every hazard, at its line, is in `PROJECT.json`
under `hazards`, with the properties that would catch it.

## 2. Modules

    RenderOutcome              what is promised: open, decide, deposit, each once
         ^ implemented by
    RenderLifecycle  --------- a submission, composed of
      |-- RenderStore          the table, one action per store operation
      |     '-- JobReads       what is said of its rows, and the advice
      |-- ExecutionLimiter     slots and the drain
      '-- Deliver/Archive/Settle, the delivery in three steps
                ^ in detail
    ArchiveHandoff             the posting loop against an unreliable Archive

    TemplateRegistry           manifests, digests, resolution, dispatch
      |-- Startup              registry, migrations, serving; crashes, two processes
      '-- TypstEngine --.
    HttpBoundary -------+-- RenderRequest    from the wire to the document

    Documents                  the rules that decide what a document may say
      |-- CompositeRender      the workbook under limits (a state machine)
      |-- WorkbookText, WorkbookProjection
      |-- CompositeSource <- CompositeLinked <- CompositePooled
      |                   <- CompositeContext <- CompositeNotice
      |                   <- CompositeEligibility
      |-- ReviewScope <- ReviewPanels
      '-- Readiness

**RenderStore** (`render_store.py`). `rows` is the table, `updatedAt` its
`updated_at` column, `now` the wall clock. Each operation is one SQLite
transaction under the store's lock, so one action: `Create`,
`ClaimForRendering`, `MarkRendered`, `MarkFailed`, `RecordArchiveOutcome`.
Their arguments are parameters. `StoreSpec` calls them with any argument at
all; `RenderLifecycle` calls them with what a submission holds. The initial
rows include those that a release without the tenant, generation and archive
columns left behind (`LegacyRows`).

**JobReads** (the three GETs, `render_job_views.py`, `render_recovery.py`, the
in-flight summaries). Reads change nothing, so each is an operator of the
store's state; the properties compare the answers with each other and with
what a resubmission would do.

**ExecutionLimiter** (`render_execution.py`). `held` is the calls inside
`acquire ... release`, `drained` the slots the drain has taken for good,
`drain` where it is. `DrainTimeout` is enabled only when no slot is free,
because `acquire(timeout=0)` still takes a free one.

**RenderLifecycle** (`render_submission.py`, with the route, the lifespan and
`hand_off_and_record`). `sub[s]` is one call of POST: `step` is its program
counter at the granularity of calls to the store, the limiter, the engine and
Archive; `row` is the `StoredRenderJob` it last kept; `bytes` what it rendered;
`answer` what it will be told. A package that names another tenant is turned
away in two places: by the route for its custody block (`Contradicts`), and by
`submit` for a composite's report data, which must name the admitted tenant
(`OutOfScope`); the second is a `package_invalid` with a message of its own,
called `scope_contradiction` here, and neither leaves a row. `wire` is the deliveries that left the process,
`documents` what Archive holds. The environment may crash or shut the process
down, fail any store operation listed in `FaultyOps`, and move the clock. A
call reads the clock, then waits for the lock: `observed` is that reading, and
may be old when the claim runs.

**RenderOutcome**. The promise without attempts: a job is opened once for one
owner, decided once, and Archive receives only the artifact decided, for that
owner. `RenderLifecycle!ImplementsOutcome` maps it onto the table and
`documents`.

**ArchiveHandoff** (`_post_until_settled`, `StdlibArchiveTransport`,
`derive_archive_request_id`, `build_archive_metadata`). One `delivery` of a
document reference, some bytes and an origin, which stands for every other
field of the metadata: connect, post, wait, observe or lose the answer, retry,
settle. `RequestId` is of the reference and the bytes alone, `Metadata` of all
three. A request that was given up on stays `inFlight` and may still commit.
Archive itself is external, and other deliveries file there too
(`FileAnother`): of this very payload earlier, of the same artifact by another
job or configuration, of regenerated bytes. It keeps one document under an id,
lets a replay with the same metadata converge on it, and answers 409 to other
metadata; the header of the module lists what the code relies on.

**TemplateRegistry** (`registry.py`, `digest.py`, `render_dispatch.py`).
Operators: which manifests load from a disk (`Loads`), which one a package
resolves to, in which order its asks are refused (`DispatchReason`). A digest
is the pair of the bytes it covers.

**Startup** (`main.py`'s lifespan, the migrations, `RenderStore.__init__`,
`check_ready`, `settings.py`). SQLite commits every DDL statement and every
`PRAGMA user_version` on its own, so a start is a sequence of committed
statements: `LoadRegistry`, `OpenStore`, then per migration `NextMigration`,
`Statement`..., `SetVersion`, and `Serve`. A migration reads the columns once
and skips those it saw, so a second process may add one in between and the
statement is then refused as a duplicate: that start fails.

**HttpBoundary** (`http_boundary.py`, `correlation.py`, `admitted_tenant.py`,
the order of the stack in `main.py`). `req[r]` is one request: `Arrive`,
`Chunk`, `EndOfStream`, `Disconnect`, `AdmitTenant`. `sent` is what arrived,
`kept` what the middleware holds. A refused request keeps what it was refused
for (its declared length, what was sent, its tenant fields), so that its status
can be held against it (`RefusalsSayWhy`).

**TypstEngine** (`typst_rendering.py`, `compile_failures.py`). `attempt[r]` is
one render: `Validate`, `Measure`, `Start`, then the compile succeeds, fails
in any way its host allows, or times out and is killed (`Kill`, best effort).
Beside the renders, `Edit` changes the served template directory, the daemon
stops and returns (`DaemonFlips`), and a container nobody killed ends by
itself. **RenderRequest** composes the two: an admitted request is one render.

**CompositeRender** (`rendering.py`, `capacity.py`, `literal_writer.py`). A
workbook is admitted by template, content and layout, sized (the package as
it would be serialised again, `wire`, and its tables), then written
sheet by sheet with partitions and continuations while the deadline may pass
at any row; `temporary` is its file.

**The evidence modules** hold what a dataset of each contract must satisfy and
what its tables show, as operators: *CompositeSource* v1 and v2,
*CompositeLinked* v3, *CompositeEligibility* v4, v6 and v7, *CompositePooled*
v5, *CompositeContext* v8, *CompositeNotice* v9; *WorkbookText* the fragments,
rounding and framing of text, *WorkbookProjection* the table as it is shown. A
body of JSON is a tree, its evidence a row for each leaf at a pointer, which
`Leaves` writes as `_leaves` does and `Follow` reads as `resolve_pointer` does.
A digest is the content it was computed from throughout, so "the digest
matches" means what the code uses it for. **ReviewScope** and **ReviewPanels**
are the PDF's counterpart: size, selection, appendix, and the figures of each
panel. A figure there is a set of one number or of none, since most readers
turn away what is not finite. Two do not, and read with `float()` alone: the
drawdown panel and the reconciled total of a risk set. What they read is a
*reading*, which is a number, nan, an infinity, text or nothing. A nan is not
less than anything and nothing is less than it (`Less`), so what a sort makes of
a list with one depends on how it sorts: `ListSort` is CPython's `list.sort` of a
list shorter than 64, and `UnderwaterChart` says when a chart is drawn, raises,
or becomes Typst that does not compile. **Readiness** holds the three postures of a process. **Documents** makes
one input per initial state of them, or one workbook; its properties name the
parts in the modules they are about.

`RenderStoreProofs` (also of `JobReads`), `RenderLifecycleProofs` (also of
`ExecutionLimiter` and of the refinement of `RenderOutcome`),
`ArchiveHandoffProofs`, `StartupProofs`, `RenderRequestProofs`,
`CompositeRenderProofs`, `ReviewProofs` (of `ReviewScope` and `ReviewPanels`)
and `DocumentsProofs` (also of the evidence modules) hold the proofs (section
5), each beside the module it is named after. The `MC` modules give TLC its
values: `MCRenderStore`, `MCRenderLifecycle`, `MCStartup`, `MCRenderRequest`,
and `MCDocuments`, whose inputs come from `MCReview`, `MCComposites`,
`MCEligibility`, `MCNotice` and `MCPanels`.

## 3. Runs

| run | module | what it shows | bounds |
|---|---|---|---|
| `store` | MCRenderStore | under arbitrary callers columns agree and outcomes are final; every way to read a job tells one story, to its tenant only; the advice to resubmit leads to a claim that is granted, and a caller of a rendering job is told to wait only while it would not be | 2 jobs (one left by an older release), 2 tenants, 2 packages, 2 digests, clock 0..2 |
| `races` | MCRenderLifecycle | claims are exclusive, a fence is lost only to a takeover, answers carry the stored artifact, custody is the artifact and its column true, slots match calls, a drain strands nothing; `RenderOutcome` is implemented | 1 job, 3 calls, 2 slots, 2 digests, clock 0..2, one crash or shutdown, failing `mark_rendered` and `record_archive_outcome` |
| `tenants` | MCRenderLifecycle | answers stay in their tenant and failures are true, also of callers turned away for the tenant their package names, with every store operation failing | 2 tenants, 5 packages (one refused at admission, one naming a tenant in its custody block, a composite of one tenant and one of none), 2 calls, 1 slot, a shutdown |
| `settles` | MCRenderLifecycle | every call ends and every claimed job settles, under `FairSpec` | 2 calls, 2 slots, no stop |
| `recovers` | MCRenderLifecycle | an identical resubmission repairs any stranded job, and a drain ends, under `RecoverySpec` | 2 calls, 1 slot, one crash or shutdown |
| `delivery` | ArchiveHandoff | what the loop concludes of a delivery is true whatever else Archive is sent, an artifact has one document, which the id left for reconciliation finds, and it settles | 3 attempts, 2 references, 2 contents, 2 origins |
| `startup` | MCStartup | the recorded version is backed by columns, a serving process can read its store, a refused start touches nothing, and the upgrade completes | 2 processes, the schema of each of the 8 versions, 6 deployments (4 of them invalid), 8 registry files (7 that do not load), one crash |
| `request` | MCRenderRequest | bodies are whole and bounded, refusals cost the engine nothing, say why and are correlated, a failure blames its cause, a container has its workspace, a kill reaches its own, every admitted render ends | 2 requests, limit 2, chunks of 1 and 2, 5 tenant headers, 3 hosts, 3 packages, one edit |
| `documents` | MCDocuments | the rules of section 2 against reference definitions | below |
| `null_archive`, `legacy_recovery` | MCRenderLifecycle | two statements of the repository that the code does not keep (section 4) | the smallest instance that shows it |
| `chart_axis` | MCDocuments | a third (section 4) | the inputs of `documents` |

Every property of a passing run has a mutant of a modelled definition, listed
in `PROJECT.json`, that violates it.

**Bounds.** `StaleSeconds = 1` and a clock of 0..2 are enough for two
takeovers of one job in a run, so a third claim can meet two superseded ones;
three calls over two slots let both holders race while a third is refused or
takes over. Two digests let the racing renders differ. `MaxStops = 1` stops
the process at any point once. `MayStop` and the guard of `TickClock` keep
room on the bounded clock for an abandoned claim to go stale, which a real
clock always has. Jobs share nothing but slots and clock, so the runs of races
use one job and keep the state for the interleavings; the `store` run has two.
In `startup` two processes are enough for a duplicate column and for one to
record a version below another's, and one crash may fall between any two
statements of either. In `request` two renders are what a kill by a shared
name needs, and a limit of two bytes is met exactly, passed by one chunk and
passed by the second. In `delivery` two of each part of a payload give every
neighbour a document can have in Archive: the same in all, in the reference and
the bytes, in one of them. In `documents` a workbook holds up to five rows over
sheets of two, so none, one or several continuations; a dataset is one that is
right, changed by up to two edits, after which it may be pinned and laid out
again: the interesting faults are those that agree with their own digests.
`MaxDepth = 3` is how deep the bodies of a pooled document are searched, one
more than the deepest of the inputs needs. The decimals have up to three places
and one power of ten that is not written out, so every scale is met on both
sides of the places shown. A drawdown has up to three points and five
episodes, two more than are shown, at three depths, at none, nan or minus
infinity: enough for a nan between two that it keeps apart.

**Fairness.** `FairSpec` is weak fairness of each call's own thread: the
compile is bounded by its timeout (`typst_rendering.py`), each delivery
attempt by the transport's, and no store operation waits for another call.
`RecoverySpec` adds a clock that moves, a drain and exit that go on, and
clients that keep sending: without a client the service re-renders nothing, and
the code claims no more (`render_submission.py:157-171`). `HandoffFairSpec` is
weak fairness of the posting loop alone: Archive may stay silent for ever.
`StartupFairSpec` is weak fairness of each process's next statement: a
supervisor starts it again, and a start goes on; crashes are bounded, since a
process that crashes for ever never comes up. `RequestFairSpec` is weak
fairness of the thread, of the compile's timeout and of the wait for its kill
(`render_compile_timeout_seconds` and `DOCKER_KILL_TIMEOUT_SECONDS` bound
both): a compile need not end, a kill need not work, a client need not send.

**Deadlock.** Checking is off: with the clock at its bound and every job
decided, every process serving, every request answered, or one input looked
at, nothing need happen.

## 4. Findings

Each is a run that TLC finds violated, and a line of the repository it
contradicts.

* `null_archive`. The contract says a null `archive_state` means that no
  handoff applies; a crash between `mark_rendered` and
  `record_archive_outcome` leaves it null beside a document in custody, for
  good, since a resubmission of a rendered job delivers nothing.
* `legacy_recovery`. The migration says that in-flight rows of older releases
  stay recoverable; such a row has no tenant, and every admitted tenant
  conflicts with it.
* `chart_axis`. `chart_geometry.py` says that a value inside the series is
  inside [0, 1] by construction, the axis ending on its outermost ticks;
  `_nice_ticks` stops within half a step above the bound, so the last tick may
  lie below it, and a series that ends at 10.4 % is drawn on an axis that ends
  at 10 %.

Observed while modelling and not made a run. *Submission*: a call whose claim
is refused answers the row it read at intake, which may be stale; a duplicate
of a job in flight is answered 200, documented as terminal; an admission
refusal is fenced with the generation read at intake; the advice "retryable"
for a failed job cannot be followed under its id. *Archive*: every 4xx is
taken as a verdict, so a 429 after a 5xx that had committed is recorded as
absence. *Store*: a timestamp without microseconds sorts after one with them;
a render of zero milliseconds is read back as no duration and its metadata
then asserts; two upgraders may lower the version for a moment; a `:memory:`
store is never ready. *Engine*: the digest is measured before the template is
copied, so an edit between the two renders other bytes than it names; an
unmeasured engine version stays cached; a daemon that is gone exits 125 with a
message and is called a template failure. *Probes*: gauges keep their values
when their refresh fails; an SQLite error in the readiness probe is a 500, not
a 503. *Review*: `drawdown_panel.py` says that the top three episodes by depth are
presented, but its reader lets the text `nan` through, which those of other
panels treat as absent (`typst_values.py:173-175`), and a sort with a nan in it
need order nothing: of -0.1, nan, -0.3, -0.2 and -0.05 it shows the first three
and drops -0.2 (the assumption `NanHidesTheDeepest` of `MCPanels`, which TLC
evaluates); an underwater profile with a depth of `-inf`, or that starts
with `nan`, raises where its gridlines are counted, and a later `nan` becomes
a name Typst does not know; a reconciled total of `nan` raises in the
comparison of `_contributions_reconcile`; the aliases `overview` and `scope`,
and `positions` and `holdings`, draw a page twice; an explicit `appendix` with
nothing to explain draws none; the appendix looks at `top_holdings` though the
table draws `positions`, and ignores the explicit selection; the contribution
ranking drops unreadable rows that its count still includes. *Composite*: a
pooled evidence pointer cannot tell an array from an object with the keys "0",
"1"; a predecessor's expected ids may repeat; v6 and v7 skip empty containers
that v5 shows; a notice admits a pair of one capture with different content.

## 5. Proofs

TLAPS checks these for every set of jobs, tenants, packages, digests, calls,
requests and processes, any number of slots, attempts, stops, crashes and
edits, every staleness bound and body limit. The assumptions are named in the
modules: the sentinels are not values (`SentinelAssumption`), a claim goes
stale after at least one second (`StaleAssumption`), there is a slot and an
attempt (`ConcurrencyAssumption`, `MaxAttemptsAssumption`), admission refuses
with a category of the contract and a composite names a tenant or none
(`PackageAssumption`, `DeploymentAssumption`),
there is something to send (`SomethingToSendAssumption`: without a job, a
tenant and a package the locals of an idle call would have no type), a limit is
positive and a chunk a number of bytes (`MaxBodyAssumption`,
`ChunkAssumption`), header fields are texts (`FieldsAssumption`), a request
is one render (`OneRenderPerRequest`), and the table a former release left
behind has finitely many rows (`LegacyTableAssumption`).

Of the documents: a workbook has a size and is a sequence of tables of rows of
text lengths
(`BooksAssumption`), every limit is positive (`LimitsAssumption`), the depth of
a body is a number (`DepthAssumption`), a year and a month have a length
(`CalendarAssumption`), a fragment fits a cell with its marks
(`WorkbookText!ChunkAssumption`), a grouping may show a row and has a colour
(`PanelLimitsAssumption`), and an input of a contract has the fields and
the types the contract gives it (`InputsAssumption`, by `IsReturns`,
`IsLinked`, `IsPooled`, `IsContext`, `IsEligibility`, `IsNotice`, and for the
PDF `IsReview`, `IsReviewData`, `IsGrouping`, `IsSeries`, `IsBridge`,
`IsRiskSet`, `IsTrend`, `IsDrawdown`; `IsText`, `IsDecimal` and `IsContent` for
what is put in a cell, `IsBody` for a tree of JSON): a
list is a sequence; a day, an instant
and a count are numbers; a figure is a number or missing, and a reading also nan
or an infinity; a decimal is any
integer with any power of ten, a currency is neither empty nor a percent sign,
and the keys of an object differ, each a sequence of characters. These say what the
fields of a contract are before a validator compares two of them, with three
exceptions: the window of a linked selection does not end before it starts,
each generation of a notice retains a source context of that contract, and a
series spans no more than 400 percent, because the round steps of the axis are
modelled to there (`NiceSteps`). None says that an input is *admitted*, so that
the admission is what the theorems are about. TLC evaluates all of them in the runs.

`RenderStoreProofs`, of `StoreSpec`, whose callers pass anything:

* `StoreTyped`, `StoreColumnsAgree`: the type invariant and the agreement of
  the columns, by induction on their conjunction. Every operation is a `Write`
  of one row, so two lemmas say what a write preserves
  (`WriteKeepsType`, `WriteKeepsColumns`) and the step lemma only has to say
  which row each operation writes.
* `OutcomesAreFinal`, `OwnersAreFixed`, `TakeoversNeedStaleness`: the three
  action properties. The last needs the column invariant: a row that does not
  exist yet has generation 0, so inserting it moves no generation.

The module also proves, of the reads of a job, `ReadsAlwaysAgree` and
`AdviceIsSound`. Their invariant `TableInv` (theorem `TableInvariant`) adds two
things to the type and the columns. The table is finite, since every
transaction inserts at most one row: without it the in-flight summary would
take the smallest of, and count, a set that need have neither. And a row nobody
created is the empty row: that is what lets the advice given on a row and the
claim a resubmission makes of it be compared for *every* job, also an unknown
one. The set of jobs itself may be infinite. `LifecycleUsesTheStore` carries
both to the service.

`RenderLifecycleProofs` begins with the limiter alone: `SlotsAreBounded` and
`DrainedIsQuiet`. The second follows from the first and from the drain having
counted every slot, which is the conjunct the bound alone lacks.

`ArchiveHandoffProofs`: `VerifiedDeliveriesAreStored`,
`FailedDeliveriesAreAbsent`, `PendingDeliveriesWereSent`, `OneDocumentIsFiled`.
Whether an exhausted loop proves absence depends on which attempts were sent
and answered, so the invariant (`History`, `Commitment`) carries that: what is
in flight belongs to the attempt that waits, and an unanswered loop between
two attempts has sent nothing. That an artifact has one document
(`OneDocumentIsFiled`) rests on the ids alone in one direction, since two
artifacts never share one (`IdsNameArtifacts`), and on the metadata in the
other: an attempt that meets a document under its own id either converges on it
or is refused by a document with other metadata, which this delivery did not
file, because its attempts all describe it alike (`RefusedIsAbsent`).

Of the lifecycle itself, none of the safety invariants is inductive alone.
`CallInv` is what a call may rely on between two of its own steps, one
conjunct per concern, each used by another:

* `Owned`: from intake to its answer, the job is the caller's tenant's and
  package's; so a failure from outside the slots is a refusal of *this*
  package.
* `Screened`: a refused package never gets a slot, and a failure without a
  slot is a refusal. With `Owned`, no refusal can end the claim of a call that
  renders (`ClaimsAreRespected`), which is what makes `FenceLostOnlyToTakeover`
  true: the fence of an admission refusal is a generation the call never held.
* `Claimed`: a held claim is the last one and the row is rendering, or it was
  superseded. A new claim is therefore beyond every other (`ExclusiveClaim`).
* `Recorded`, `Told`: bytes are only carried beside a recorded row, a failure
  only beside a failed one; both survive because outcomes are final.
  `Told` also says that a caller turned away sent a package out of its tenant's
  scope.
* `RowsInScope`: every row that has an owner is of a package its tenant may send,
  since only a package in scope creates one and owner and package are fixed; the
  rows of older releases have no owner.

Every step of the lifecycle is a step of the store or leaves it alone
(`NextIsStoreStep`), so the lemmas of `RenderStoreProofs` do the work for the
rows (`TableGoesOn`). Of a step, `SteppingOn` treats the call that moves and
`StandingStill` all others. The theorems are `LifecycleTyped`,
`ClaimsAreExclusive`, `FenceIsLostOnlyToTakeover`,
`AnsweredBytesAreTheArtifact`, `ToldFailuresAreTrue`,
`AnswersKeepToTheTenant`, `CustodyHoldsTheArtifact`, `SlotsFollowCalls`,
`DrainsStrandNothing` and `LifecycleUsesTheStore` (`Spec => StoreSpec`, by
which the theorems of the store hold of the service).

The last part of `RenderLifecycleProofs` is `LifecycleImplementsOutcome`, the
refinement itself. A step of the store opens, decides or shows as nothing; only
Archive's commit moves custody, and `CallInv` says that what it deposits was
decided. `NoSecondDocument` follows for the documents of a job.
`RowsStayTrue` says that no row claims more than happened, and needs two
invariants beyond `CallInv`, because a row is true on account of things that
are elsewhere. `CustodyInv` is of deliveries: a job has at most one on the way,
none beside a document Archive holds, and a row that tells of an outcome has
none left; so the row's verdict, written two steps after Archive decided, is
still about the only delivery there was. `HeldInv` is of the calls: a process
that was never stopped is not drained, and the claim a rendering row shows is
held by some call of a process that lives, unless that process ended: the
witness must be carried from step to step, since a row does not name its call.

`StartupProofs`: `VersionsAreBacked`, `ServedStoresCanBeRead` and
`RefusedStartsTouchNothing`. That the version is backed is not inductive: a
process records a version on the strength of statements it, or another, ran
earlier. `Progress` keeps what it may rely on in the middle of a migration:
the versions before are backed, what this one adds is in the file or still to
do, and what a process saw is there, since no statement removes anything. Two
processes then need no argument about their order.

`RenderRequestProofs`: `BodiesAreWholeAndBounded`, `RefusalsAreFree`,
`FailuresBlameTheirCause`, `CompilesAreHoused` and `KillsStayHome`.
`RequestInv` has three parts. `Kept` is of one request: what was sent of it was
kept, within the limit, it is bound as its step says, and it has the fields its
status speaks of (`SaysWhy`). `Sound` is of one
render: it has no error before its end and is killed for its timeout alone, so
that a later error cannot blame an earlier cause. `Boxed` is of one container:
it runs under the name of its own render, which is still in its compile or
whose kill failed; a kill by name is harmless because of the first half, and a
removed workspace because of the second. `ExitsAreRead` says of every ending,
on every host, that the category is its cause's.

`CompositeRenderProofs` holds the parts of `WorkbooksAreWhole`, and two of the
three parts of `CellsShowTheirValues` (below). That the two
countings agree compares a preflight that adds whole tables
(`capacity.py`) with a writer that counts row by row and header by header, and
opens a sheet whenever one is full. The invariant `RenderInv` says what the
writer has counted at any row: the tables before this one in whole
(`WholeTables`), and of this one as many rows, and headers for as many sheets,
as are behind it (`Counted`); that the sheets of a table are all full but its
last (`Partitioned`), and that what is written has been found within the
limits (`Checked`, `Within`). The lemmas it stands on are arithmetic: the
number of sheets of n rows, by its last sheet (`SheetsByLast`); more rows never
need fewer sheets (`SheetsOfMore`); a running sum grows (`CountersGrow`), so
what the preflight passes in whole is never refused in part (`PartOfTheWhole`,
`PreflightPasses`).

`DocumentsProofs`: `WorkbooksStayWhole` with its part `TextIsNeverCut`,
`CellsStayTrue`, `ReviewsStayTrue`, `ReturnsStaySourced`,
`PooledReturnStaysQualified`, `ContextStaysWhole`, `EligibilityStaysShown`,
`NoticeStaysWhole` and `ReadinessIsAlwaysOne`, for *any* set of inputs and not
only those of the run. An input never changes, so the invariant is `RenderInv`
or nothing, and a property of an operator is a lemma about it: an input that is
admitted shows what the property says. The lemmas on workbooks are of nine
kinds, those on numbers and pointers in `CompositeRenderProofs`.

* *Lists into rows.* `FlatteningIs` unrolls the fold that flattens a sequence of
  sequences; from it, what is shown is what the lists hold (`FlattenedRange`,
  `FlattenedTwice`), once each if the lists were distinct and disjoint
  (`FlattenedOnce`), and each list in one piece (`FlattenedPlaces`). The tables
  of every contract rest on these.
* *Numbers.* `TenToIs` gives the equations of the powers of ten and `TenToSum`
  their law; `HalvesRound` is the inequality of rounding up from a half. What is
  displayed is then within half a unit of the decimal on the finer of the two
  scales (`DisplayIs`, `NumbersHold`), with the factor of a hundred where and
  only where the suffix says so (`DisplayIsScaled`, `SuffixesSay`, `UnitsHold`).
* *The workbook alone.* The policies of a table are a piece of the policy sheet
  in the order of its columns (`PoliciesAre`), and the coordinates of a cell
  have one row of evidence (`EvidenceIs`), because the identities in a table
  differ; so every shown cell is recovered (`ContentHolds`).
* *Pointers.* A key is escaped and read back whatever its characters
  (`EscapeIs`: the two replacements, made in the order of the code, never meet
  each other's output), and two places of an array never have the same numeral
  (`NumeralsDiffer`), so a part is found by its token (`PartIsFound`) and a
  pointer is read as the tokens it was made of (`TokenIsRead`). The invariant of
  opening a body level by level (`AreNodes`, `LevelStep`) is that a node is where
  its path leads, that no path goes on from the end of another, and that where a
  path goes past an object or an array one goes on to each of its parts. A body
  of a finite depth is all leaves at the last level (`LastLevel`,
  `EvidenceHolds`).
* *Windows.* Pinned windows that begin where the last ended cover each day of
  the horizon (`EveryDayHasAWindow`) and no day twice (`WindowsAreApart`).
  Months are divisions of a day (`DaysOfAMonth`), so the months of a review
  are exactly its horizon (`MonthsAreTheHorizon`).
* *Counts.* A list that repeats nothing has as many rows as members
  (`OnceIsCounted`); linked members are counted by the bijection with their
  expected rows (`CountedOneByOne`), and the statuses of an eligibility review
  add up to its population because each member has one (`StatusesAreCounted`).
* *Extremes.* The custody interval of a linked review is the least and the
  greatest of its instants (`LeastIs`, `GreatestIs`), which need a finite set
  that is not empty.
* *Texts.* Fragments go on from one another to the end of a text, each within a
  cell (`ReachIs`, `ChunksAre`, `FragmentsHold`: any length, any cell that holds
  a fragment with its marks); a text ends where its length says, so what is
  framed before another text is told from it (`FramesAreApart`,
  `FramingHolds`).
* *Chains.* A notice lays a row of one side beside a row of the other by its
  index (`RowsAreIndexed`, `BothSidesHold`); an amendment is bound to the
  generation it names and follows it (`CorrectionsAreBound`,
  `CorrectionsFollow`).

`ReviewProofs` holds the eight parts of `ReviewsStayTrue`, for groupings, series,
risk sets and selections of any length: `ScopeHolds`, `AppendixHolds`,
`AllocationHolds`, `AxisHolds`, `BridgeHolds`, `DecompositionHolds`,
`TrendHolds` and `DrawdownHolds`. They stand on lemmas about the operators the
panels are built from.

* *Picking and sorting.* In a finite set that is strictly ordered, the member
  before which there are k others is at place k + 1, each at one place
  (`RanksList`). A filtered list is that of the order of the places
  (`PickedRange`), a sorted one that of keys and places (`SortedIs`), so both
  are rearrangements and the second is in order.
* *Totals.* `Total` is a recursive function; `TotalIs` gives its equations,
  from which follow the total of a concatenation (`TotalOfBoth`), without one
  term (`TotalWithout`) and, by induction on the number of terms, that no
  rearrangement changes it (`TotalOfArranged`). `QualifiedSum` adds what
  `absence` does: a sum is missing as soon as a term is (`SumOfTheMissing`),
  and to fold some terms into one changes no sum that is known
  (`SumOfFolded`).
* *Groupings.* The buckets of a grouping are one for each label, in the order
  in which labels first come (`OnceIs`, `BucketsAre`). The complete and the
  incomplete part it (`PartsOf`), the fold keeps every incomplete one and
  replaces a tail of the others by their sum (`FoldIs`, `RestIs`), and the
  ring's slices weigh what its entries do and never outnumber the colours
  (`NameableIs`, `SlicesAre`).
* *Geometry.* Every segment of a bridge and its total lie on the track
  (`BridgeHolds`); an axis whose bounds are on both sides of zero, in steps
  that divide it, has a tick there (`ZeroIsReached`); the gridlines of a
  drawdown reach its depth (`GridReaches`).
* *Readings.* A chart that is drawn has no nan and no infinity
  (`DrawnPointsAre`); episodes without a nan are those of a stable sort
  (`EpisodesAre`). With a nan what `ListSort` makes of them is only
  evaluated by TLC: there the claim is false (section 4).

Model-checked only:

* all liveness, which is outside this prover's reach;
* that a nan among the episodes of a drawdown can hide the deepest
  (`NanHidesTheDeepest`); of such a panel nothing else is claimed;
* the statements of section 4, which are false.

Every invariant and every action property that a run checks is thus stated by a
theorem.

Theorems of the library that take an operator as a parameter cannot be
instantiated here; where an induction over the naturals is needed it is made
through the least element of a set (`LeastNatural`, `Climb`), and one over
sequences through a set that has each with one entry more (`SeqGrows`). A
recursive function is shown to exist before its equations are used
(`PowersExist`, `NumeralsExist`, `PassesExist`).

## 6. Not modelled, and the plan

* *Text.* What turns one value into one piece of Typst source or one caption
  (`typst_contexts.py`, `typst_tables.py`, `typst_fragments.py`,
  `number_format.py`, `date_format.py`, the earnings, fee and holdings notes,
  the vector drawing of the charts) holds no state and relates no two facts
  that a property could compare.
* *Shapes.* `contracts/renders.py`, `render_package.py` and the like are
  pydantic fields, descriptions and examples; a body that does not match is
  refused before a handler runs. Fields of the composite contracts that are
  only carried through are left out of their modules.
* *Observation.* Log lines, histograms, label values, release metadata and the
  static facts of `/metadata`.
* *Time as text.* A timestamp is an instant (see the hazard at
  `render_store.py:305`).
* *Repository scripts*, which are no part of the service.

Between RenderLifecycle and RenderRequest there is a seam: the first takes a
render's outcome as one of three, the second leaves the store and the claim
out. What remains worth doing, in order: round steps of
the axis at every magnitude, so that `IsSeries` need not bound a series; the
proof that a render of TypstEngine is the `Render` step of the lifecycle; the
contribution ranking and the earnings statement, whose counts a reference
definition could be held against.
