------------------------- MODULE RenderStoreProofs -------------------------
(***************************************************************************)
(* The properties of RenderStore, proved for every set of jobs, tenants,   *)
(* packages and digests and every staleness bound.  The callers of         *)
(* StoreSpec pass any argument, so these hold of the store as it is,       *)
(* whatever the services above it do.                                      *)
(*                                                                         *)
(* Every operation is a Write of a row: the lemmas say what one Write      *)
(* preserves, and the steps of the theorems say which row each writes.     *)
(*                                                                         *)
(* And of JobReads, for any two staleness windows.  The reads change       *)
(* nothing, so the inductive part is the store's: to its types and columns *)
(* it adds that a row nobody created is empty, and that the table is       *)
(* finite, which is what makes its counts numbers.  The jobs themselves    *)
(* may be infinitely many.                                                 *)
(***************************************************************************)
EXTENDS JobReads, FiniteSetTheorems, WellFoundedInduction, TLAPS

\* An absent row, and the row a submission inserts, are rows.
LEMMA NewRowsAreRows ==
    /\ AbsentRow \in Row
    /\ \A t \in Tenants \cup {NoTenant}, p \in Packages :
          AcceptedRow(t, p) \in Row
BY DEF AbsentRow, AcceptedRow, Row, InFlight, Terminal, ArchiveStates

\* The columns of a row that was just inserted.
LEMMA AcceptedColumns ==
    ASSUME NEW t, NEW p
    PROVE  /\ AcceptedRow(t, p).status = "accepted"
           /\ AcceptedRow(t, p).gen = 0
           /\ AcceptedRow(t, p).tenant = t
           /\ AcceptedRow(t, p).package = p
           /\ AcceptedRow(t, p).sha = NoDigest
           /\ AcceptedRow(t, p).failure = "none"
           /\ AcceptedRow(t, p).archive = "none"
BY DEF AcceptedRow, AbsentRow

\* Completing and failing a row yield rows, and what they write.
LEMMA OutcomeColumns ==
    ASSUME NEW row \in Row
    PROVE  /\ \A sha \in Digests :
                 /\ RenderedRow(row, sha) \in Row
                 /\ RenderedRow(row, sha).status = "rendered"
                 /\ RenderedRow(row, sha).sha = sha
                 /\ RenderedRow(row, sha).failure = "none"
                 /\ RenderedRow(row, sha).gen = row.gen
                 /\ RenderedRow(row, sha).tenant = row.tenant
                 /\ RenderedRow(row, sha).package = row.package
                 /\ RenderedRow(row, sha).archive = row.archive
           /\ \A c \in Categories :
                 /\ FailedRow(row, c) \in Row
                 /\ FailedRow(row, c).status = "failed"
                 /\ FailedRow(row, c).sha = NoDigest
                 /\ FailedRow(row, c).failure = c
                 /\ FailedRow(row, c).gen = row.gen
                 /\ FailedRow(row, c).tenant = row.tenant
                 /\ FailedRow(row, c).package = row.package
                 /\ FailedRow(row, c).archive = row.archive
BY DEF RenderedRow, FailedRow, Row, InFlight, Terminal, ArchiveStates

\* What the migrations leave behind are rows of some package, unclaimed and
\* with columns that agree.
LEMMA LegacyRowsAgree ==
    ASSUME NEW row \in LegacyRows
    PROVE  /\ row \in Row
           /\ row.sha # NoDigest <=> row.status = "rendered"
           /\ row.failure # "none" <=> row.status = "failed"
           /\ row.gen = 0
           /\ row.package \in Packages
<1> DEFINE base(p) == AcceptedRow(NoTenant, p)
<1>1. PICK p \in Packages :
         \/ row = base(p)
         \/ row = [base(p) EXCEPT !.status = "rendering"]
         \/ \E sha \in Digests : row = RenderedRow(base(p), sha)
         \/ \E c \in Categories : row = FailedRow(base(p), c)
  BY DEF LegacyRows
<1>2. base(p) \in Row
  BY NewRowsAreRows
<1>3. /\ base(p).status = "accepted" /\ base(p).gen = 0
      /\ base(p).sha = NoDigest /\ base(p).failure = "none"
      /\ base(p).package \in Packages
  BY AcceptedColumns
<1> HIDE DEF base
<1>4. CASE row = base(p)
  BY <1>2, <1>3, <1>4
<1>5. CASE row = [base(p) EXCEPT !.status = "rendering"]
  BY <1>2, <1>3, <1>5 DEF Row, InFlight
<1>6. CASE \E sha \in Digests : row = RenderedRow(base(p), sha)
  BY <1>2, <1>3, <1>6, OutcomeColumns, SentinelAssumption
<1>7. CASE \E c \in Categories : row = FailedRow(base(p), c)
  BY <1>2, <1>3, <1>7, OutcomeColumns, SentinelAssumption
<1> QED BY <1>1, <1>4, <1>5, <1>6, <1>7

\* A row of an older release is a row, nobody owns it, and nothing of it was
\* handed off.
LEMMA LegacyRowsExist ==
    ASSUME NEW row \in LegacyRows
    PROVE  row.status # "absent" /\ row.archive = "none" /\ row.tenant = NoTenant
<1>1. PICK p \in Packages :
         LET base == AcceptedRow(NoTenant, p) IN
         \/ row = base
         \/ row = [base EXCEPT !.status = "rendering"]
         \/ \E sha \in Digests : row = RenderedRow(base, sha)
         \/ \E c \in Categories : row = FailedRow(base, c)
  BY DEF LegacyRows
<1> QED BY <1>1 DEF RenderedRow, FailedRow, AcceptedRow, AbsentRow

-----------------------------------------------------------------------------
(* What one write preserves *)

\* The columns of one row agree with its status: ColumnsAgree of one job.
Agrees(j, row) ==
    /\ row.sha # NoDigest <=> row.status = "rendered"
    /\ row.failure # "none" <=> row.status = "failed"
    /\ row.status \in {"absent", "accepted"} => row.gen = 0
    /\ row.status \in {"rendering", "rendered"} /\ j \notin LegacyJobs
          => row.gen > 0

\* A write of a well-typed row, stamped no later than now, keeps the types.
LEMMA WriteKeepsType ==
    ASSUME StoreTypeOK, NEW j \in Jobs, NEW row \in Row, NEW at \in 0..now,
           Write(j, row, at)
    PROVE  StoreTypeOK'
BY DEF StoreTypeOK, Write

\* A write of a row whose columns agree keeps the columns in agreement.
LEMMA WriteKeepsColumns ==
    ASSUME StoreTypeOK, ColumnsAgree, NEW j \in Jobs, NEW row, NEW at,
           Agrees(j, row), Write(j, row, at)
    PROVE  ColumnsAgree'
<1>1. \A i \in Jobs : rows'[i] = IF i = j THEN row ELSE rows[i]
  BY DEF StoreTypeOK, Write
<1>2. \A i \in Jobs : Agrees(i, rows'[i])
  BY <1>1 DEF ColumnsAgree, Agrees
<1> QED BY <1>2 DEF ColumnsAgree, Agrees

\* What a step of the store is: a tick, a new row, or one of the four writes
\* to a row that exists.
LEMMA StoreSteps ==
    ASSUME StoreNext
    PROVE  \/ Tick
           \/ \E j \in Jobs, t \in Tenants, p \in Packages : Create(j, t, p)
           \/ \E j \in Jobs, at \in 0..now : ClaimForRendering(j, at)
           \/ \E j \in Jobs, sha \in Digests, gen \in Nat :
                 MarkRendered(j, gen, sha)
           \/ \E j \in Jobs, c \in Categories, gen \in Nat :
                 MarkFailed(j, gen, c)
           \/ \E j \in Jobs, o \in ArchiveStates, gen \in Nat :
                 RecordArchiveOutcome(j, gen, o)
BY DEF StoreNext

\* Every step of the store keeps the types and the agreement of the columns.
LEMMA StoreStepKeepsInv ==
    ASSUME StoreTypeOK, ColumnsAgree, [StoreNext]_storeVars
    PROVE  StoreTypeOK' /\ ColumnsAgree'
<1> USE DEF StoreTypeOK
<1>1. CASE UNCHANGED storeVars
  BY <1>1 DEF storeVars, ColumnsAgree
<1>2. CASE Tick
  <2>1. StoreTypeOK'
    BY <1>2, MaxNowAssumption DEF Tick
  <2> QED BY <1>2, <2>1 DEF Tick, ColumnsAgree
<1>3. ASSUME NEW j \in Jobs, NEW t \in Tenants, NEW p \in Packages,
             Create(j, t, p)
      PROVE  StoreTypeOK' /\ ColumnsAgree'
  <2>1. AcceptedRow(t, p) \in Row /\ now \in 0..now
    BY NewRowsAreRows
  <2>2. Agrees(j, AcceptedRow(t, p))
    BY AcceptedColumns DEF Agrees
  <2>3. Write(j, AcceptedRow(t, p), now)
    BY <1>3 DEF Create
  <2> QED BY <2>1, <2>2, <2>3, WriteKeepsType, WriteKeepsColumns
<1>4. ASSUME NEW j \in Jobs, NEW at \in 0..now, ClaimForRendering(j, at)
      PROVE  StoreTypeOK' /\ ColumnsAgree'
  <2> DEFINE row == [rows[j] EXCEPT !.status = "rendering", !.gen = @ + 1]
  <2>1. row \in Row
    <3>1. rows[j] \in Row /\ rows[j].gen + 1 \in Nat
      BY DEF Row
    <3> QED BY <3>1 DEF Row, InFlight
  <2>2. rows[j].status \in InFlight
    BY <1>4 DEF ClaimForRendering, Claimable, InFlight
  <2>3. Agrees(j, rows[j]) /\ rows[j] \in Row
    BY DEF ColumnsAgree, Agrees
  <2>4. Agrees(j, row)
    BY <2>2, <2>3 DEF Agrees, InFlight, Row
  <2>5. Write(j, row, at)
    BY <1>4 DEF ClaimForRendering
  <2> QED BY <2>1, <2>4, <2>5, WriteKeepsType, WriteKeepsColumns
<1>5. ASSUME NEW j \in Jobs, NEW sha \in Digests, NEW gen \in Nat,
             MarkRendered(j, gen, sha)
      PROVE  StoreTypeOK' /\ ColumnsAgree'
  <2>1. Agrees(j, rows[j]) /\ rows[j] \in Row
    BY DEF ColumnsAgree, Agrees
  <2>2. rows[j].status = "rendering" /\ Write(j, RenderedRow(rows[j], sha), now)
    BY <1>5 DEF MarkRendered, MayMarkRendered, Fenced
  <2>3. RenderedRow(rows[j], sha) \in Row /\ Agrees(j, RenderedRow(rows[j], sha))
    BY <2>1, <2>2, OutcomeColumns, SentinelAssumption DEF Agrees
  <2> QED BY <2>2, <2>3, WriteKeepsType, WriteKeepsColumns
<1>6. ASSUME NEW j \in Jobs, NEW c \in Categories, NEW gen \in Nat,
             MarkFailed(j, gen, c)
      PROVE  StoreTypeOK' /\ ColumnsAgree'
  <2>1. rows[j] \in Row
    OBVIOUS
  <2>2. Write(j, FailedRow(rows[j], c), now)
    BY <1>6 DEF MarkFailed
  <2>3. FailedRow(rows[j], c) \in Row /\ Agrees(j, FailedRow(rows[j], c))
    BY <2>1, OutcomeColumns, SentinelAssumption DEF Agrees
  <2> QED BY <2>2, <2>3, WriteKeepsType, WriteKeepsColumns
<1>7. ASSUME NEW j \in Jobs, NEW o \in ArchiveStates, NEW gen \in Nat,
             RecordArchiveOutcome(j, gen, o)
      PROVE  StoreTypeOK' /\ ColumnsAgree'
  <2> DEFINE row == [rows[j] EXCEPT !.archive = o]
  <2>1. row \in Row
    BY DEF Row
  <2>2. Agrees(j, rows[j]) /\ rows[j] \in Row
    BY DEF ColumnsAgree, Agrees
  <2>3. Agrees(j, row)
    BY <2>2 DEF Agrees, Row
  <2>4. Write(j, row, now)
    BY <1>7 DEF RecordArchiveOutcome
  <2> QED BY <2>1, <2>3, <2>4, WriteKeepsType, WriteKeepsColumns
<1> QED
  BY <1>1, <1>2, <1>3, <1>4, <1>5, <1>6, <1>7, StoreSteps

-----------------------------------------------------------------------------
(* The theorems *)

\* The initial rows, those of an older release included, are well typed and
\* their columns agree.
LEMMA StoreStarts ==
    ASSUME StoreInit
    PROVE  StoreTypeOK /\ ColumnsAgree
<1>1. \A j \in Jobs : rows[j] \in Row /\ Agrees(j, rows[j])
  <2> SUFFICES ASSUME NEW j \in Jobs PROVE rows[j] \in Row /\ Agrees(j, rows[j])
    OBVIOUS
  <2>1. CASE rows[j] = AbsentRow
    BY <2>1, NewRowsAreRows DEF AbsentRow, Agrees
  <2>2. CASE rows[j] # AbsentRow
    BY <2>2, LegacyRowsAgree DEF StoreInit, Agrees
  <2> QED BY <2>1, <2>2
<1>2. StoreTypeOK
  BY <1>1, MaxNowAssumption DEF StoreInit, StoreTypeOK
<1> QED BY <1>1, <1>2 DEF ColumnsAgree, Agrees

\* The inductive invariant: the agreement of the columns speaks of typed rows
\* only, and needs the types to survive a write.
THEOREM StoreInvariant == StoreSpec => [](StoreTypeOK /\ ColumnsAgree)
BY StoreStarts, StoreStepKeepsInv, PTL DEF StoreSpec

\* Whatever the callers send, every column holds a value the schema allows
\* and no row is stamped in the future (render_store.py:182-529).
THEOREM StoreTyped == StoreSpec => []StoreTypeOK
BY StoreInvariant, PTL

\* Whatever the callers send, a digest, a failure category and a claim are
\* where the status says they are (render_store.py:335-382).
THEOREM StoreColumnsAgree == StoreSpec => []ColumnsAgree
BY StoreInvariant, PTL

\* A step of the store leaves a decided row as it is, but for its custody.
LEMMA StepKeepsTerminal ==
    ASSUME StoreTypeOK, [StoreNext]_storeVars,
           NEW i \in Jobs, rows[i].status \in Terminal
    PROVE  rows'[i] = [rows[i] EXCEPT !.archive = rows'[i].archive]
<1> USE DEF StoreTypeOK, Terminal
<1>0. rows[i] \in Row
  OBVIOUS
<1>1. CASE rows'[i] = rows[i]
  BY <1>0, <1>1 DEF Row
<1>2. CASE UNCHANGED storeVars
  BY <1>1, <1>2 DEF storeVars
<1>3. CASE Tick
  BY <1>1, <1>3 DEF Tick
<1>4. ASSUME NEW j \in Jobs, NEW row, NEW at, Write(j, row, at),
             j = i => row = [rows[i] EXCEPT !.archive = row.archive]
      PROVE  rows'[i] = [rows[i] EXCEPT !.archive = rows'[i].archive]
  BY <1>0, <1>1, <1>4 DEF Write
<1>5. ASSUME NEW j \in Jobs, NEW row, NEW at, Write(j, row, at), j # i
      PROVE  rows'[i] = rows[i]
  BY <1>5 DEF Write
<1>6. CASE \E j \in Jobs, t \in Tenants, p \in Packages : Create(j, t, p)
  BY <1>1, <1>5, <1>6 DEF Create, Exists
<1>7. CASE \E j \in Jobs, at \in 0..now : ClaimForRendering(j, at)
  BY <1>1, <1>5, <1>7 DEF ClaimForRendering, Claimable
<1>8. CASE \E j \in Jobs, sha \in Digests, gen \in Nat : MarkRendered(j, gen, sha)
  BY <1>1, <1>5, <1>8 DEF MarkRendered, MayMarkRendered, Fenced
<1>9. CASE \E j \in Jobs, c \in Categories, gen \in Nat : MarkFailed(j, gen, c)
  BY <1>1, <1>5, <1>9 DEF MarkFailed, MayMarkFailed, Fenced, InFlight
<1>10. CASE \E j \in Jobs, o \in ArchiveStates, gen \in Nat :
               RecordArchiveOutcome(j, gen, o)
  <2>1. PICK j \in Jobs, o \in ArchiveStates :
           Write(j, [rows[j] EXCEPT !.archive = o], now)
    BY <1>10 DEF RecordArchiveOutcome
  <2>2. CASE j # i
    BY <1>1, <1>5, <2>1, <2>2
  <2>3. CASE j = i
    <3>1. rows'[i] = [rows[i] EXCEPT !.archive = o]
      BY <2>1, <2>3 DEF Write
    <3> QED BY <1>0, <3>1 DEF Row
  <2> QED BY <2>2, <2>3
<1> QED
  BY <1>2, <1>3, <1>6, <1>7, <1>8, <1>9, <1>10, StoreSteps

\* Once a job is rendered or failed, no caller, late, superseded or confused
\* about its generation, can change the outcome readers were given
\* (render_store.py:443-529).
THEOREM OutcomesAreFinal == StoreSpec => TerminalIsFinal
<1>1. StoreTypeOK /\ [StoreNext]_storeVars =>
         [\A j \in Jobs : rows[j].status \in Terminal =>
             rows'[j] = [rows[j] EXCEPT !.archive = rows'[j].archive]]_storeVars
  BY StepKeepsTerminal
<1> QED BY <1>1, StoreTyped, PTL DEF StoreSpec, TerminalIsFinal

\* A step of the store deletes no row.
LEMMA StepKeepsRows ==
    ASSUME StoreTypeOK, [StoreNext]_storeVars, NEW i \in Jobs, Exists(i)
    PROVE  Exists(i)'
<1> USE DEF StoreTypeOK, Exists
<1>0. rows[i] \in Row
  OBVIOUS
<1>1. CASE UNCHANGED storeVars \/ Tick
  BY <1>1 DEF storeVars, Tick
<1>2. ASSUME NEW j \in Jobs, NEW row, NEW at, Write(j, row, at),
             j = i => row.status # "absent"
      PROVE  Exists(i)'
  BY <1>2 DEF Write
<1>3. CASE \E j \in Jobs, t \in Tenants, p \in Packages : Create(j, t, p)
  BY <1>2, <1>3, AcceptedColumns DEF Create
<1>4. CASE \E j \in Jobs, at \in 0..now : ClaimForRendering(j, at)
  <2>1. PICK j \in Jobs, at \in 0..now :
           Write(j, [rows[j] EXCEPT !.status = "rendering", !.gen = @ + 1], at)
    BY <1>4 DEF ClaimForRendering
  <2>2. j = i => [rows[j] EXCEPT !.status = "rendering", !.gen = @ + 1].status
                    # "absent"
    BY <1>0 DEF Row
  <2> QED BY <1>2, <2>1, <2>2
<1>5. CASE \E j \in Jobs, sha \in Digests, gen \in Nat : MarkRendered(j, gen, sha)
  BY <1>0, <1>2, <1>5, OutcomeColumns DEF MarkRendered
<1>6. CASE \E j \in Jobs, c \in Categories, gen \in Nat : MarkFailed(j, gen, c)
  BY <1>0, <1>2, <1>6, OutcomeColumns DEF MarkFailed
<1>7. CASE \E j \in Jobs, o \in ArchiveStates, gen \in Nat :
               RecordArchiveOutcome(j, gen, o)
  <2>1. PICK j \in Jobs, o \in ArchiveStates :
           Write(j, [rows[j] EXCEPT !.archive = o], now)
    BY <1>7 DEF RecordArchiveOutcome
  <2>2. j = i => [rows[j] EXCEPT !.archive = o].status # "absent"
    BY <1>0 DEF Row
  <2> QED BY <1>2, <2>1, <2>2
<1> QED BY <1>1, <1>3, <1>4, <1>5, <1>6, <1>7, StoreSteps

\* A step of the store keeps the owner of a row that exists.
LEMMA StepKeepsOwner ==
    ASSUME StoreTypeOK, [StoreNext]_storeVars, NEW i \in Jobs, Exists(i)
    PROVE  rows'[i].tenant = rows[i].tenant /\ rows'[i].package = rows[i].package
<1> USE DEF StoreTypeOK
<1>0. rows[i] \in Row
  OBVIOUS
<1>1. CASE UNCHANGED storeVars
  BY <1>1 DEF storeVars
<1>2. CASE Tick
  BY <1>2 DEF Tick
<1>3. ASSUME NEW j \in Jobs, NEW row, NEW at, Write(j, row, at),
             j = i => row.tenant = rows[i].tenant /\ row.package = rows[i].package
      PROVE  rows'[i].tenant = rows[i].tenant /\ rows'[i].package = rows[i].package
  BY <1>3 DEF Write
<1>4. CASE \E j \in Jobs, t \in Tenants, p \in Packages : Create(j, t, p)
  BY <1>3, <1>4 DEF Create
<1>5. CASE \E j \in Jobs, at \in 0..now : ClaimForRendering(j, at)
  <2>1. PICK j \in Jobs, at \in 0..now : ClaimForRendering(j, at)
    BY <1>5
  <2> DEFINE row == [rows[j] EXCEPT !.status = "rendering", !.gen = @ + 1]
  <2>2. j = i => row.tenant = rows[i].tenant /\ row.package = rows[i].package
    BY <1>0 DEF Row
  <2>3. Write(j, row, at)
    BY <2>1 DEF ClaimForRendering
  <2> HIDE DEF row
  <2> QED BY <1>3, <2>2, <2>3
<1>6. CASE \E j \in Jobs, sha \in Digests, gen \in Nat : MarkRendered(j, gen, sha)
  BY <1>0, <1>3, <1>6, OutcomeColumns DEF MarkRendered
<1>7. CASE \E j \in Jobs, c \in Categories, gen \in Nat : MarkFailed(j, gen, c)
  BY <1>0, <1>3, <1>7, OutcomeColumns DEF MarkFailed
<1>8. CASE \E j \in Jobs, o \in ArchiveStates, gen \in Nat :
               RecordArchiveOutcome(j, gen, o)
  <2>1. PICK j \in Jobs, o \in ArchiveStates :
           Write(j, [rows[j] EXCEPT !.archive = o], now)
    BY <1>8 DEF RecordArchiveOutcome
  <2>2. j = i => /\ [rows[j] EXCEPT !.archive = o].tenant = rows[i].tenant
                 /\ [rows[j] EXCEPT !.archive = o].package = rows[i].package
    BY <1>0 DEF Row
  <2> QED BY <1>3, <2>1, <2>2
<1> QED
  BY <1>1, <1>2, <1>4, <1>5, <1>6, <1>7, <1>8, StoreSteps

\* Nothing rebinds a job: whatever is sent under its id afterwards, its
\* tenant and its package are those it was created with
\* (render_store.py:182-277).
THEOREM OwnersAreFixed == StoreSpec => OwnerIsFixed
<1>1. StoreTypeOK /\ [StoreNext]_storeVars =>
         [\A j \in Jobs : Exists(j) =>
             /\ rows'[j].tenant = rows[j].tenant
             /\ rows'[j].package = rows[j].package]_storeVars
  BY StepKeepsOwner
<1> QED BY <1>1, StoreTyped, PTL DEF StoreSpec, OwnerIsFixed

\* The step that moves a generation is a claim of an in-flight job, and of a
\* rendering one only after its claim went stale.
LEMMA StepCountsClaims ==
    ASSUME StoreTypeOK, ColumnsAgree, [StoreNext]_storeVars,
           NEW i \in Jobs, rows'[i].gen # rows[i].gen
    PROVE  /\ rows'[i].gen = rows[i].gen + 1
           /\ rows[i].status \in InFlight
           /\ rows[i].status = "rendering" =>
                 updatedAt'[i] - updatedAt[i] >= StaleSeconds
<1> USE DEF StoreTypeOK
<1>0. rows[i] \in Row
  OBVIOUS
<1>1. ASSUME NEW j \in Jobs, NEW row, NEW at, Write(j, row, at),
             j = i => row.gen = rows[i].gen
      PROVE  FALSE
  BY <1>1 DEF Write
<1>2. ~UNCHANGED storeVars
  BY DEF storeVars
<1>3. ~Tick
  BY DEF Tick
<1>4. ~\E j \in Jobs, sha \in Digests, gen \in Nat : MarkRendered(j, gen, sha)
  BY <1>0, <1>1, OutcomeColumns DEF MarkRendered
<1>5. ~\E j \in Jobs, c \in Categories, gen \in Nat : MarkFailed(j, gen, c)
  BY <1>0, <1>1, OutcomeColumns DEF MarkFailed
<1>6. ~\E j \in Jobs, o \in ArchiveStates, gen \in Nat :
           RecordArchiveOutcome(j, gen, o)
  <2> SUFFICES ASSUME NEW j \in Jobs, NEW o \in ArchiveStates,
                      Write(j, [rows[j] EXCEPT !.archive = o], now)
               PROVE  FALSE
    BY DEF RecordArchiveOutcome
  <2>1. j = i => [rows[j] EXCEPT !.archive = o].gen = rows[i].gen
    BY <1>0 DEF Row
  <2> QED BY <1>1, <2>1
<1>7. CASE \E j \in Jobs, t \in Tenants, p \in Packages : Create(j, t, p)
  <2>1. PICK j \in Jobs, t \in Tenants, p \in Packages : Create(j, t, p)
    BY <1>7
  <2>2. rows[j].gen = 0
    BY <2>1 DEF Create, Exists, ColumnsAgree
  <2>3. Write(j, AcceptedRow(t, p), now) /\ AcceptedRow(t, p).gen = 0
    BY <2>1, AcceptedColumns DEF Create
  <2> QED BY <1>1, <2>2, <2>3
<1>8. CASE \E j \in Jobs, at \in 0..now : ClaimForRendering(j, at)
  <2>1. PICK j \in Jobs, at \in 0..now : ClaimForRendering(j, at)
    BY <1>8
  <2>2. j = i
    BY <1>1, <2>1 DEF ClaimForRendering
  <2>3. rows'[i] = [rows[i] EXCEPT !.status = "rendering", !.gen = @ + 1]
        /\ updatedAt'[i] = at
    BY <2>1, <2>2 DEF ClaimForRendering, Write
  <2>4. rows'[i].gen = rows[i].gen + 1
    BY <1>0, <2>3 DEF Row
  <2>5. rows[i].status \in InFlight
    BY <2>1, <2>2 DEF ClaimForRendering, Claimable, InFlight
  <2>6. rows[i].status = "rendering" => at - updatedAt[i] >= StaleSeconds
    BY <2>1, <2>2, StaleAssumption DEF ClaimForRendering, Claimable
  <2> QED BY <2>3, <2>4, <2>5, <2>6
<1> QED
  BY <1>2, <1>3, <1>4, <1>5, <1>6, <1>7, <1>8, StoreSteps

\* A generation counts the claims of a job, and a live claim is superseded
\* only after the staleness bound, however far the taker's clock reading lags
\* behind the store's lock (render_store.py:279-333).
THEOREM TakeoversNeedStaleness == StoreSpec => TakeoverNeedsStaleness
<1>1. StoreTypeOK /\ ColumnsAgree /\ [StoreNext]_storeVars =>
         [\A j \in Jobs : rows'[j].gen # rows[j].gen =>
             /\ rows'[j].gen = rows[j].gen + 1
             /\ rows[j].status \in InFlight
             /\ rows[j].status = "rendering" =>
                   updatedAt'[j] - updatedAt[j] >= StaleSeconds]_storeVars
  BY StepCountsClaims
<1> QED BY <1>1, StoreInvariant, PTL DEF StoreSpec, TakeoverNeedsStaleness

-----------------------------------------------------------------------------
(* Natural numbers *)

\* A set of naturals that is not empty has a least element.
LEMMA LeastNatural ==
    ASSUME NEW T \in SUBSET Nat, T # {}
    PROVE  \E m \in T : \A n \in T : m <= n
<1>1. PICK m \in T : \A n \in T : <<n, m>> \notin OpToRel(<, Nat)
  BY WFMin, NatLessThanWellFounded, Zenon
<1>2. ASSUME NEW n \in T PROVE m <= n
  <2>1. n \in Nat /\ m \in Nat
    OBVIOUS
  <2>2. ~(n < m)
    BY <1>1, <2>1 DEF OpToRel
  <2> QED BY <2>1, <2>2
<1> QED BY <1>2

-----------------------------------------------------------------------------
(* The table *)

Stored == {j \in Jobs : Exists(j)}

\* What the reads rely on: typed rows whose columns agree, nothing in a row
\* that was never created, and finitely many rows.
TableInv ==
    /\ StoreTypeOK /\ ColumnsAgree
    /\ \A j \in Jobs : ~Exists(j) => rows[j] = AbsentRow
    /\ IsFiniteSet(Stored)

\* A step of the store writes one row at most, and that row exists.
LEMMA OneRowPerStep ==
    ASSUME StoreTypeOK, [StoreNext]_storeVars
    PROVE  \/ rows' = rows
           \/ \E j \in Jobs : /\ Exists(j)'
                              /\ \A i \in Jobs \ {j} : rows'[i] = rows[i]
<1> USE DEF StoreTypeOK
<1>1. CASE UNCHANGED storeVars \/ Tick
  BY <1>1 DEF storeVars, Tick
<1>2. ASSUME NEW j \in Jobs, NEW row, NEW at, Write(j, row, at)
      PROVE  \A i \in Jobs \ {j} : rows'[i] = rows[i]
  BY <1>2 DEF Write
<1>3. ASSUME NEW j \in Jobs, NEW row, NEW at, Write(j, row, at), Exists(j)
      PROVE  \E k \in Jobs : /\ Exists(k)'
                             /\ \A i \in Jobs \ {k} : rows'[i] = rows[i]
  BY <1>2, <1>3, StepKeepsRows
<1>4. CASE \E j \in Jobs, t \in Tenants, p \in Packages : Create(j, t, p)
  <2>1. PICK j \in Jobs, t \in Tenants, p \in Packages :
           Write(j, AcceptedRow(t, p), now)
    BY <1>4 DEF Create
  <2>2. Exists(j)'
    BY <2>1, AcceptedColumns DEF Write, Exists
  <2> QED BY <1>2, <2>1, <2>2
<1>5. CASE \E j \in Jobs, at \in 0..now : ClaimForRendering(j, at)
  BY <1>3, <1>5 DEF ClaimForRendering, Claimable, Exists
<1>6. CASE \E j \in Jobs, sha \in Digests, gen \in Nat : MarkRendered(j, gen, sha)
  BY <1>3, <1>6 DEF MarkRendered, MayMarkRendered, Fenced, Exists
<1>7. CASE \E j \in Jobs, c \in Categories, gen \in Nat : MarkFailed(j, gen, c)
  BY <1>3, <1>7 DEF MarkFailed, MayMarkFailed, Fenced, InFlight, Exists
<1>8. CASE \E j \in Jobs, o \in ArchiveStates, gen \in Nat :
               RecordArchiveOutcome(j, gen, o)
  BY <1>3, <1>8 DEF RecordArchiveOutcome, MayRecordArchive
<1> QED BY <1>1, <1>4, <1>5, <1>6, <1>7, <1>8, StoreSteps

\* A table starts with the finitely many rows of an older release.
LEMMA TableStarts == StoreInit => TableInv
<1> SUFFICES ASSUME StoreInit PROVE TableInv
  OBVIOUS
<1>1. \A j \in Jobs : j \notin LegacyJobs => rows[j] = AbsentRow
  BY DEF StoreInit
<1>2. AbsentRow.status = "absent"
  BY DEF AbsentRow
<1>3. Stored \in SUBSET LegacyJobs
  BY <1>1, <1>2 DEF Stored, Exists
<1>4. \A j \in Jobs : ~Exists(j) => rows[j] = AbsentRow
  <2>1. \A row \in LegacyRows : row.status # "absent"
    BY LegacyRowsExist
  <2> QED BY <2>1 DEF StoreInit, Exists
<1> QED
  BY <1>3, <1>4, StoreStarts, FS_Subset, LegacyTableAssumption DEF TableInv

\* It stays finite, and what is not created stays empty.
LEMMA StoreStepKeepsTable ==
    ASSUME TableInv, [StoreNext]_storeVars
    PROVE  TableInv'
<1>1. StoreTypeOK' /\ ColumnsAgree'
  BY StoreStepKeepsInv DEF TableInv
<1>2. CASE rows' = rows
  BY <1>1, <1>2 DEF TableInv, Stored, Exists
<1>3. ASSUME NEW j \in Jobs, Exists(j)', \A i \in Jobs \ {j} : rows'[i] = rows[i]
      PROVE  TableInv'
  <2>1. \A i \in Jobs : ~Exists(i)' => rows'[i] = AbsentRow
    BY <1>3 DEF TableInv, Exists
  <2>2. Stored' \in SUBSET (Stored \cup {j})
    BY <1>3 DEF Stored, Exists
  <2>3. IsFiniteSet(Stored \cup {j})
    BY FS_AddElement DEF TableInv
  <2>4. IsFiniteSet(Stored')
    BY <2>2, <2>3, FS_Subset
  <2> QED BY <1>1, <2>1, <2>4 DEF TableInv
<1> QED BY <1>2, <1>3, OneRowPerStep DEF TableInv

\* The table of every reachable state is one the reads can rely on.
THEOREM TableInvariant == StoreSpec => []TableInv
BY TableStarts, StoreStepKeepsTable, PTL DEF StoreSpec

-----------------------------------------------------------------------------
(* The posture *)

\* The jobs of a status, and every part of them, can be counted.
LEMMA StatusesAreCountable ==
    ASSUME TableInv, NEW status \in InFlight, NEW T \in SUBSET In(status)
    PROVE  IsFiniteSet(T) /\ Cardinality(T) \in Nat
<1>1. T \in SUBSET Stored
  BY DEF In, Stored, Exists, InFlight
<1>2. IsFiniteSet(T)
  BY <1>1, FS_Subset DEF TableInv
<1> QED BY <1>2, FS_CardinalityType

\* An age is a natural number.
LEMMA AgesAreNatural ==
    ASSUME TableInv, NEW j \in Jobs
    PROVE  Age(j) \in Nat /\ updatedAt[j] \in Nat /\ now \in Nat
<1>1. now \in Nat /\ updatedAt[j] \in 0..now
  BY MaxNowAssumption DEF TableInv, StoreTypeOK
<1> QED BY <1>1 DEF Age

\* The job of a status written longest ago is as old as any of them: the
\* oldest age of the summary is an age, and no other is greater.
LEMMA OldestIsOldest ==
    ASSUME TableInv, NEW status, NEW j \in In(status)
    PROVE  /\ \E k \in In(status) : InFlightSummary(status).oldest = Age(k)
           /\ Age(j) <= InFlightSummary(status).oldest
<1> DEFINE ages == {Age(k) : k \in In(status)}
           written == {updatedAt[k] : k \in In(status)}
           oldest == CHOOSE a \in ages : \A b \in ages : b <= a
<1>1. \A k \in In(status) : /\ Age(k) \in Nat /\ updatedAt[k] \in Nat
                            /\ now \in Nat /\ Age(k) = now - updatedAt[k]
  BY AgesAreNatural DEF In, Age
<1>2. written \in SUBSET Nat /\ written # {}
  BY <1>1
<1> HIDE DEF written
<1>3. PICK m \in written : \A n \in written : m <= n
  BY <1>2, LeastNatural
<1>4. PICK k \in In(status) : updatedAt[k] = m
  BY <1>3 DEF written
<1>5. \A i \in In(status) : updatedAt[k] <= updatedAt[i]
  BY <1>3, <1>4 DEF written
<1>6. Age(k) \in ages /\ \A b \in ages : b <= Age(k)
  BY <1>1, <1>5
<1>7. oldest \in ages /\ \A b \in ages : b <= oldest
  BY <1>6, Zenon
<1>8. InFlightSummary(status).oldest = oldest
  BY DEF InFlightSummary
<1> QED BY <1>7, <1>8

\* The gauges count what the diagnostics say.
LEMMA GaugesCount ==
    ASSUME TableInv
    PROVE  PostureMatchesDiagnostics
<1> DEFINE saying(st, s) == {j \in In(st) : StaleState(j) = s}
<1>1. \A status \in InFlight : \A j \in In(status) :
         /\ Age(j) \in Nat /\ j \in Jobs /\ rows[j].status = status
         /\ Threshold(status) \in Nat \ {0}
  BY AgesAreNatural, StaleAssumption, AcceptedStaleAssumption DEF In, Threshold
<1>2. ASSUME NEW status \in InFlight
      PROVE  /\ saying(status, "stale") = StaleOf(status)
             /\ saying(status, "fresh") = In(status) \ StaleOf(status)
             /\ StaleOf(status) \in SUBSET In(status)
  BY <1>1 DEF StaleOf, StaleState
<1>3. ASSUME NEW status \in InFlight
      PROVE  /\ Gauges(status).stale = Cardinality(StaleOf(status))
             /\ Gauges(status).fresh
                   = Cardinality(In(status)) - Cardinality(StaleOf(status))
             /\ Gauges(status).oldest = InFlightSummary(status).oldest
  BY DEF Gauges, InFlightSummary
<1>4. ASSUME NEW status \in InFlight
      PROVE  Gauges(status).fresh = Cardinality(saying(status, "fresh"))
  <2>1. In(status) \cap StaleOf(status) = StaleOf(status)
    BY <1>2
  <2>2. Cardinality(In(status) \ StaleOf(status))
           = Cardinality(In(status)) - Cardinality(StaleOf(status))
    BY ZenonT(30), <2>1, StatusesAreCountable, FS_Difference
  <2> QED BY <1>2, <1>3, <2>2
<1>5. ASSUME NEW status \in InFlight, Gauges(status).stale > 0
      PROVE  Gauges(status).oldest >= Threshold(status)
  <2>1. StaleOf(status) # {}
    BY <1>3, <1>5, FS_EmptySet
  <2>2. PICK j \in In(status) : Age(j) >= Threshold(status)
    BY <2>1 DEF StaleOf
  <2>3. PICK k \in In(status) : InFlightSummary(status).oldest = Age(k)
    BY OldestIsOldest
  <2>4. Age(j) <= InFlightSummary(status).oldest
    BY OldestIsOldest
  <2> QED BY <1>1, <1>3, <2>2, <2>3, <2>4
<1>6. {j \in In("rendering") : Claimable(j, now)} = StaleOf("rendering")
  <2>1. \A j \in In("rendering") :
           /\ now \in Nat /\ updatedAt[j] \in Nat /\ StaleSeconds \in Nat
           /\ Age(j) = now - updatedAt[j]
           /\ rows[j].status = "rendering"
    BY AgesAreNatural, StaleAssumption DEF In, Age
  <2>2. \A j \in In("rendering") :
           Claimable(j, now) <=> Age(j) >= Threshold("rendering")
    BY <2>1 DEF Claimable, Threshold
  <2> QED BY <2>2 DEF StaleOf
<1>7. Gauges("rendering").stale
         = Cardinality({j \in In("rendering") : Claimable(j, now)})
  BY <1>3, <1>6 DEF InFlight
<1> QED BY <1>2, <1>3, <1>4, <1>5, <1>7 DEF PostureMatchesDiagnostics

-----------------------------------------------------------------------------
(* The answers *)

\* A tenant sees a job exactly if the job's row names the tenant.
LEMMA VisibleIsOwned ==
    ASSUME TableInv, NEW tenant \in Tenants, NEW j \in Jobs
    PROVE  Visible(tenant, j) <=> rows[j].tenant = tenant
<1>1. AbsentRow.tenant = NoTenant /\ NoTenant # tenant
  BY SentinelAssumption DEF AbsentRow
<1> QED BY <1>1 DEF TableInv, Visible

\* The three reads of a job answer as one, by case of what the caller may see.
LEMMA ReadsAnswerAlike ==
    ASSUME TableInv
    PROVE  AnswersAgree
<1> SUFFICES ASSUME NEW tenant \in Tenants, NEW j \in Jobs
             PROVE  LET status == GetStatus(tenant, j)
                        metadata == GetArtifactMetadata(tenant, j)
                        diagnostics == GetDiagnostics(tenant, j)
                    IN  /\ status.code = 200 <=> rows[j].tenant = tenant
                        /\ status.code = 404 <=> metadata = NotFound
                        /\ status.code = diagnostics.code
                        /\ metadata.code = 200 =>
                              /\ metadata.sha = status.sha
                              /\ metadata.sha # NoDigest
                        /\ status.code = 200 =>
                              /\ diagnostics.ready <=> metadata.code = 200
                              /\ status.failure = diagnostics.failure
  BY DEF AnswersAgree
<1> DEFINE status == GetStatus(tenant, j)
           metadata == GetArtifactMetadata(tenant, j)
           diagnostics == GetDiagnostics(tenant, j)
<1>1. Visible(tenant, j) <=> rows[j].tenant = tenant
  BY VisibleIsOwned
<1>2. CASE ~Visible(tenant, j)
  <2>1. status = NotFound /\ metadata = NotFound /\ diagnostics = NotFound
    BY <1>2 DEF GetStatus, GetArtifactMetadata, GetDiagnostics
  <2>2. NotFound.code = 404
    BY DEF NotFound
  <2> QED BY <1>1, <1>2, <2>1, <2>2
<1>3. CASE Visible(tenant, j)
  <2>1. /\ status.code = 200 /\ diagnostics.code = 200
        /\ status.sha = rows[j].sha
        /\ status.failure = rows[j].failure
        /\ diagnostics.failure = rows[j].failure
        /\ diagnostics.ready <=> rows[j].status = "rendered"
    BY <1>3 DEF GetStatus, GetDiagnostics
  <2>2. CASE rows[j].status # "rendered"
    <3>1. metadata = [code |-> 409]
      BY <1>3, <2>2 DEF GetArtifactMetadata
    <3>2. metadata.code = 409 /\ metadata # NotFound
      BY <3>1 DEF NotFound
    <3> QED BY <1>1, <1>3, <2>1, <2>2, <3>2
  <2>3. CASE rows[j].status = "rendered"
    <3>1. metadata = [code |-> 200, sha |-> rows[j].sha]
      BY <1>3, <2>3 DEF GetArtifactMetadata
    <3>2. metadata.code = 200 /\ metadata.sha = rows[j].sha
      BY <3>1
    <3>3. metadata # NotFound
      BY <3>2 DEF NotFound
    <3>4. rows[j].sha # NoDigest
      BY <2>3 DEF TableInv, ColumnsAgree
    <3> QED BY <1>1, <1>3, <2>1, <2>3, <3>2, <3>3, <3>4
  <2> QED BY <2>2, <2>3
<1> QED BY <1>2, <1>3

\* No outcome is renamed on its way into a count.
LEMMA CountsAreBounded ==
    ASSUME TableInv
    PROVE  CountsKeepTheOutcome
<1> SUFFICES ASSUME NEW tenant \in Tenants, NEW j \in Jobs,
                    NEW read \in DOMAIN Counted(tenant, j)
             PROVE  BoundedStatus(Counted(tenant, j)[read])
                       = Counted(tenant, j)[read]
  BY DEF CountsKeepTheOutcome
<1>1. Visible(tenant, j) => rows[j].status \in InFlight \cup Terminal
  BY DEF TableInv, StoreTypeOK, Row, Visible, Exists
<1>2. /\ Counted(tenant, j).status \in OperationStatuses
      /\ Counted(tenant, j).artifact \in OperationStatuses
      /\ DOMAIN Counted(tenant, j) = {"status", "artifact"}
  BY <1>1 DEF Counted, OperationStatuses, Terminal
<1>3. read = "status" \/ read = "artifact"
  BY <1>2
<1> QED BY <1>2, <1>3 DEF BoundedStatus

\* However many jobs, of however many tenants, are stored: a job's reads, the
\* scrape's gauges and the operation counts say one thing of it, and nothing
\* to anyone but its owner (renders.py:320-453, render_posture.py:30-58,
\* render_metrics.py:338-427).
THEOREM ReadsAlwaysAgree == StoreSpec => []ReadsAgree
<1>1. TableInv => ReadsAgree
  BY ReadsAnswerAlike, GaugesCount, CountsAreBounded DEF ReadsAgree
<1> QED BY <1>1, TableInvariant, PTL

\* What the store would do of a job is what its diagnostics advise, for any
\* two windows of staleness (render_submission.py:72-75,
\* service-operations.md:108-110).
THEOREM AdviceIsSound == StoreSpec => []AdviceMatchesTheClaim
<1>1. ASSUME TableInv PROVE AdviceMatchesTheClaim
  <2> SUFFICES ASSUME NEW tenant \in Tenants, NEW j \in Jobs,
                      GetDiagnostics(tenant, j).code = 200,
                      GetDiagnostics(tenant, j).status \in InFlight
               PROVE  LET advice == GetDiagnostics(tenant, j).advice
                      IN  /\ advice.retryable => WouldRender(j)
                          /\ /\ GetDiagnostics(tenant, j).status = "rendering"
                             /\ WouldRender(j)
                             => advice.retryable
    BY DEF AdviceMatchesTheClaim
  <2>1. Visible(tenant, j)
    <3>1. NotFound.code # 200
      BY DEF NotFound
    <3> QED BY <3>1 DEF GetDiagnostics
  <2>2. /\ GetDiagnostics(tenant, j).status = rows[j].status
        /\ GetDiagnostics(tenant, j).advice
              = DiagnosticRecovery(rows[j].status, rows[j].failure, StaleState(j))
    BY <2>1 DEF GetDiagnostics
  <2>3. rows[j].status \in InFlight /\ rows[j].status # "rendered"
    BY <2>2 DEF InFlight
  <2>4. DiagnosticRecovery(rows[j].status, rows[j].failure, StaleState(j)).retryable
           <=> StaleState(j) = "stale"
    BY <2>3 DEF DiagnosticRecovery, Advice
  <2>5. StaleState(j) = "stale" <=> Age(j) >= Threshold(rows[j].status)
    BY <2>3 DEF StaleState
  <2>6. rows[j].tenant # NoTenant
    BY <2>1, SentinelAssumption DEF Visible
  <2>7. CASE rows[j].status = "accepted"
    BY <2>2, <2>3, <2>6, <2>7 DEF WouldRender, Claimable
  <2>8. CASE rows[j].status = "rendering"
    <3>1. /\ now \in Nat /\ updatedAt[j] \in Nat /\ StaleSeconds \in Nat
          /\ Age(j) = now - updatedAt[j]
      BY <1>1, AgesAreNatural, StaleAssumption DEF Age
    <3>2. Claimable(j, now) <=> Age(j) >= Threshold(rows[j].status)
      BY <2>8, <3>1 DEF Claimable, Threshold
    <3> QED BY <2>2, <2>3, <2>4, <2>5, <2>6, <3>2 DEF WouldRender
  <2> QED BY <2>3, <2>7, <2>8 DEF InFlight
<1> QED BY <1>1, TableInvariant, PTL

=============================================================================
