---------------------------- MODULE RenderStore ----------------------------
(***************************************************************************)
(* The durable job store of lotus-render: one SQLite row per render job,   *)
(* src/app/infrastructure/render_store.py.                                 *)
(*                                                                         *)
(* Every operation of the store is one SQLite transaction taken under the  *)
(* store's lock, so each is one action.  The operations are written with   *)
(* their arguments as parameters: RenderLifecycle, which EXTENDS this      *)
(* module, calls them from the steps of a submission, while StoreNext      *)
(* below lets a caller pass any argument it likes.  What holds of          *)
(* StoreSpec therefore holds whatever the callers do.                      *)
(***************************************************************************)
EXTENDS Naturals

CONSTANTS
    Jobs,           \* render_job_id values
    Tenants,        \* tenants the HTTP boundary admits
    NoTenant,       \* the NULL tenant_id of a row older than admission
    Packages,       \* package_hash values
    NoPackage,      \* the package of a row not written yet
    Digests,        \* artifact SHA-256 values
    NoDigest,       \* the NULL artifact_sha256
    Categories,     \* RenderFailureCategory values
    LegacyJobs,     \* jobs a release without tenants or claims left behind
    StaleSeconds,   \* stale_rendering_seconds
    MaxNow          \* bound: the last instant of the clock

ASSUME StaleAssumption == StaleSeconds \in Nat \ {0}
ASSUME MaxNowAssumption == MaxNow \in Nat
ASSUME LegacyAssumption == LegacyJobs \subseteq Jobs
ASSUME SentinelAssumption ==
    /\ NoTenant \notin Tenants
    /\ NoPackage \notin Packages
    /\ NoDigest \notin Digests
    /\ "none" \notin Categories

VARIABLES
    rows,           \* the table: every column but updated_at
    updatedAt,      \* the updated_at column
    now             \* the wall clock every write reads

storeVars == <<rows, updatedAt, now>>

-----------------------------------------------------------------------------
(* Rows *)

InFlight == {"accepted", "rendering"}
Terminal == {"rendered", "failed"}
ArchiveStates == {"archived_verified", "archive_pending", "archive_failed"}

Row == [status  : {"absent"} \cup InFlight \cup Terminal,
        gen     : Nat,
        tenant  : Tenants \cup {NoTenant},
        package : Packages \cup {NoPackage},
        sha     : Digests \cup {NoDigest},
        failure : Categories \cup {"none"},
        archive : ArchiveStates \cup {"none"}]

AbsentRow == [status |-> "absent", gen |-> 0, tenant |-> NoTenant,
              package |-> NoPackage, sha |-> NoDigest,
              failure |-> "none", archive |-> "none"]

\* What INSERT OR IGNORE writes: accepted, unclaimed, owned by the tenant.
AcceptedRow(tenant, package) ==
    [AbsentRow EXCEPT !.status = "accepted", !.tenant = tenant,
                      !.package = package]

RenderedRow(row, sha) ==
    [row EXCEPT !.status = "rendered", !.sha = sha, !.failure = "none"]

FailedRow(row, failure) ==
    [row EXCEPT !.status = "failed", !.sha = NoDigest, !.failure = failure]

\* A row of a release older than the archive, claim_generation and tenant_id
\* columns, as the migrations leave it: no tenant, generation 0, no archive
\* state, whatever status it had reached.
LegacyRows ==
    LET unattributed(p) == AcceptedRow(NoTenant, p)
    IN  UNION {{unattributed(p), [unattributed(p) EXCEPT !.status = "rendering"]}
                 \cup {RenderedRow(unattributed(p), sha) : sha \in Digests}
                 \cup {FailedRow(unattributed(p), c) : c \in Categories}
               : p \in Packages}

Exists(j) == rows[j].status # "absent"

StoreInit ==
    /\ rows \in [Jobs -> {AbsentRow} \cup LegacyRows]
    /\ \A j \in Jobs : rows[j] # AbsentRow <=> j \in LegacyJobs
    /\ updatedAt = [j \in Jobs |-> 0]
    /\ now = 0

\* Mutant of Write: updated_at is stamped with the end of the lease.
WriteLeaseEnd(j, row, at) ==
    /\ rows' = [rows EXCEPT ![j] = row]
    /\ updatedAt' = [updatedAt EXCEPT ![j] = at + StaleSeconds]
    /\ UNCHANGED now

Write(j, row, at) ==
    /\ rows' = [rows EXCEPT ![j] = row]
    /\ updatedAt' = [updatedAt EXCEPT ![j] = at]
    /\ UNCHANGED now

-----------------------------------------------------------------------------
(* Intake *)

\* Mutant of Conflicts: the existing row's tenant is not compared.
ConflictsByPackage(row, tenant, package) == row.package # package

\* RenderJobConflictError: another tenant's job, or another package, under
\* the same id.  A row with no tenant belongs to nobody who can ask.
Conflicts(row, tenant, package) ==
    row.tenant # tenant \/ row.package # package

Create(j, tenant, package) ==
    /\ ~Exists(j)
    /\ Write(j, AcceptedRow(tenant, package), now)

-----------------------------------------------------------------------------
(* Claims *)

\* Mutant of Claimable: a rendering row is never taken over.
ClaimableOnce(j, observed) == rows[j].status = "accepted"

\* The WHERE clause of the claim.  `observed` is the clock as the caller read
\* it before it waited for the store's lock.
Claimable(j, observed) ==
    \/ rows[j].status = "accepted"
    \/ /\ rows[j].status = "rendering"
       /\ updatedAt[j] + StaleSeconds <= observed

\* Mutant of ClaimForRendering: the takeover keeps the generation.
ClaimUncounted(j, observed) ==
    /\ Claimable(j, observed)
    /\ Write(j, [rows[j] EXCEPT !.status = "rendering"], observed)

ClaimForRendering(j, observed) ==
    /\ Claimable(j, observed)
    /\ Write(j, [rows[j] EXCEPT !.status = "rendering", !.gen = @ + 1],
             observed)

-----------------------------------------------------------------------------
(* Fenced writes *)

\* _update: one conditional write, the right prior status AND the claim.
Fenced(j, gen, statuses) ==
    rows[j].gen = gen /\ rows[j].status \in statuses

\* Mutant of MayMarkRendered: an unclaimed job may be completed.
MayMarkRenderedUnclaimed(j, gen) == Fenced(j, gen, InFlight)

\* Mutant of MayMarkFailed: the status alone fences the failure write.
MayMarkFailedByStatus(j, gen) == rows[j].status \in InFlight

\* Mutant of MayMarkFailed: the generation alone fences the failure write.
MayMarkFailedByClaim(j, gen) == Exists(j) /\ rows[j].gen = gen

MayMarkRendered(j, gen) == Fenced(j, gen, {"rendering"})
MayMarkFailed(j, gen) == Fenced(j, gen, InFlight)

MarkRendered(j, gen, sha) ==
    /\ MayMarkRendered(j, gen)
    /\ Write(j, RenderedRow(rows[j], sha), now)

MarkFailed(j, gen, failure) ==
    /\ MayMarkFailed(j, gen)
    /\ Write(j, FailedRow(rows[j], failure), now)

\* The custody columns: fenced to the claim, whatever the status is.
MayRecordArchive(j, gen) == Exists(j) /\ rows[j].gen = gen

RecordArchiveOutcome(j, gen, outcome) ==
    /\ MayRecordArchive(j, gen)
    /\ Write(j, [rows[j] EXCEPT !.archive = outcome], now)

-----------------------------------------------------------------------------
Tick == now < MaxNow /\ now' = now + 1 /\ UNCHANGED <<rows, updatedAt>>

\* Callers that pass anything: an old clock reading, a generation they never
\* held, a digest of their own.
StoreNext ==
    \/ Tick
    \/ \E j \in Jobs :
          \/ \E tenant \in Tenants, p \in Packages : Create(j, tenant, p)
          \/ \E observed \in 0..now : ClaimForRendering(j, observed)
          \/ \E sha \in Digests : \E gen \in 0..rows[j].gen :
                MarkRendered(j, gen, sha)
          \/ \E failure \in Categories : \E gen \in 0..rows[j].gen :
                MarkFailed(j, gen, failure)
          \/ \E outcome \in ArchiveStates : \E gen \in 0..rows[j].gen :
                RecordArchiveOutcome(j, gen, outcome)

StoreSpec == StoreInit /\ [][StoreNext]_storeVars

-----------------------------------------------------------------------------
(* Properties of the store alone, under any callers *)

\* Every column holds a value the schema allows, and no row was written in
\* the future.
StoreTypeOK ==
    /\ rows \in [Jobs -> Row]
    /\ now \in 0..MaxNow
    /\ updatedAt \in [Jobs -> 0..now]

\* The columns of a row agree with its status: a digest exactly when the job
\* is rendered, a failure category exactly when it failed, and a generation
\* that counts no claim before the first.  mark_failed clears the artifact columns and
\* mark_rendered clears the failure ones (render_store.py:335-382).
ColumnsAgree ==
    \A j \in Jobs :
        /\ rows[j].sha # NoDigest <=> rows[j].status = "rendered"
        /\ rows[j].failure # "none" <=> rows[j].status = "failed"
        /\ rows[j].status \in {"absent", "accepted"} => rows[j].gen = 0
        /\ rows[j].status \in {"rendering", "rendered"} /\ j \notin LegacyJobs
              => rows[j].gen > 0

\* Once a job reached rendered or failed, its status, digest, category and
\* generation never change again, whatever the callers send: the outcome
\* readers were given is the outcome (render_store.py:443-529).
TerminalIsFinal ==
    [][\A j \in Jobs :
          rows[j].status \in Terminal =>
              rows'[j] = [rows[j] EXCEPT !.archive = rows'[j].archive]
      ]_storeVars

\* The owner and the package of a job are those of the submission that
\* created it; nothing rebinds or backfills them (render_store.py:182-277).
OwnerIsFixed ==
    [][\A j \in Jobs :
          Exists(j) => /\ rows'[j].tenant = rows[j].tenant
                       /\ rows'[j].package = rows[j].package]_storeVars

\* A claim is the only step that moves the generation, it moves it by one,
\* and it takes a rendering job only from an owner whose claim had gone stale
\* by the time the taker read the clock (render_store.py:279-333).
TakeoverNeedsStaleness ==
    [][\A j \in Jobs :
          rows'[j].gen # rows[j].gen =>
              /\ rows'[j].gen = rows[j].gen + 1
              /\ rows[j].status \in InFlight
              /\ rows[j].status = "rendering" =>
                    updatedAt'[j] - updatedAt[j] >= StaleSeconds]_storeVars

=============================================================================
