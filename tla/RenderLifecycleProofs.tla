----------------------- MODULE RenderLifecycleProofs -----------------------
(***************************************************************************)
(* The safety of RenderLifecycle, proved for any number of jobs, calls,    *)
(* slots, tenants, packages, digests and stops.                            *)
(*                                                                         *)
(* The plan: every step of the lifecycle is a step of RenderStore or       *)
(* leaves the table alone (NextIsStoreStep), so what RenderStoreProofs     *)
(* says of one step of the store holds of every step here.  The rest is    *)
(* what a submission may rely on between its own steps.                    *)
(***************************************************************************)
EXTENDS RenderLifecycle, RenderStoreProofs

-----------------------------------------------------------------------------
(* The limiter alone: any number of calls and of slots *)

\* The inductive invariant: a drain that completed counted to the end, which
\* with the bound on the slots is what makes the process quiet.
LimiterInv ==
    /\ LimiterTypeOK
    /\ SlotsBounded
    /\ drain = "drained" => drained = Concurrency

\* A process starts with every slot free.
LEMMA LimiterStarts == LimiterInit => LimiterInv
BY FS_EmptySet, ConcurrencyAssumption
   DEF LimiterInit, LimiterInv, LimiterTypeOK, SlotsBounded, DrainStates

\* Every operation keeps the invariant: acquire and the drain take a slot
\* only where one is free, and release gives back no more than was held.
LEMMA LimiterStepKeepsInv ==
    ASSUME LimiterInv, [LimiterNext]_limiterVars
    PROVE  LimiterInv'
<1> USE DEF LimiterInv, LimiterTypeOK, SlotsBounded, DrainStates
<1>0. Cardinality(held) \in Nat
  BY FS_CardinalityType
<1>1. CASE UNCHANGED limiterVars
  BY <1>1 DEF limiterVars
<1>2. ASSUME NEW s \in Submissions, s \notin held, Acquire(s)
      PROVE  LimiterInv'
  <2>1. held' = held \cup {s} /\ UNCHANGED <<drain, drained>> /\ Free
    BY <1>2 DEF Acquire
  <2>2. IsFiniteSet(held') /\ Cardinality(held') = Cardinality(held) + 1
    BY <1>2, <2>1, FS_AddElement
  <2>3. Cardinality(held') + drained' <= Concurrency
    BY <1>0, <2>1, <2>2, ConcurrencyAssumption DEF Free
  <2> QED BY <2>1, <2>2, <2>3
<1>3. ASSUME NEW s \in Submissions, s \in held, Release(s)
      PROVE  LimiterInv'
  <2>1. held' = held \ {s} /\ UNCHANGED <<drain, drained>>
    BY <1>3 DEF Release
  <2>2. IsFiniteSet(held') /\ Cardinality(held') = Cardinality(held) - 1
    BY <1>3, <2>1, FS_RemoveElement
  <2>3. Cardinality(held') + drained' <= Concurrency
    BY <1>0, <2>1, <2>2, ConcurrencyAssumption
  <2> QED BY <2>1, <2>2, <2>3
<1>4. CASE StartDrain
  BY <1>4 DEF StartDrain
<1>5. CASE DrainSlot
  BY <1>0, <1>5, ConcurrencyAssumption DEF DrainSlot, Free
<1>6. CASE DrainComplete
  BY <1>6 DEF DrainComplete
<1>7. CASE DrainTimeout
  BY <1>7 DEF DrainTimeout
<1> QED
  BY <1>1, <1>2, <1>3, <1>4, <1>5, <1>6, <1>7 DEF LimiterNext, Drain

\* The invariant holds throughout.
THEOREM LimiterInvariant == LimiterSpec => []LimiterInv
BY LimiterStarts, LimiterStepKeepsInv, PTL DEF LimiterSpec

\* Renders and the drain never hold more slots than there are
\* (render_execution.py:18-22, 35-40).
THEOREM SlotsAreBounded == LimiterSpec => []SlotsBounded
<1>1. LimiterInv => SlotsBounded
  BY DEF LimiterInv
<1> QED BY <1>1, LimiterInvariant, PTL

\* All slots are the drain's, so no render holds one.
LEMMA InvMeansQuiet == LimiterInv => DrainedMeansQuiet
<1> SUFFICES ASSUME LimiterInv, drain = "drained" PROVE held = {}
  BY DEF DrainedMeansQuiet
<1>1. IsFiniteSet(held) /\ Cardinality(held) \in Nat
  BY FS_CardinalityType DEF LimiterInv, LimiterTypeOK
<1>2. Cardinality(held) = 0
  BY <1>1, ConcurrencyAssumption DEF LimiterInv, SlotsBounded
<1> QED BY <1>1, <1>2, FS_EmptySet

\* A drain that reports success leaves no render running, with any number of
\* slots and of calls that arrive while it counts
\* (render_execution.py:24-40).
THEOREM DrainedIsQuiet == LimiterSpec => []DrainedMeansQuiet
BY InvMeansQuiet, LimiterInvariant, PTL

-----------------------------------------------------------------------------
(* Types *)

\* A submission holds what its next store operation writes: a clock reading
\* of the past, a digest, a category, a custody state.
Equipped(me, clock) ==
    /\ me.observed \in 0..clock
    /\ me.step \in {"record", "deliver", "await", "file"} => me.bytes \in Digests
    /\ me.step = "fail" => me.failure \in Categories
    /\ me.step = "file" => me.custody \in ArchiveStates

\* What the type invariant needs to be inductive.
TypeInv ==
    /\ TypeOK
    /\ ColumnsAgree
    /\ \A s \in Submissions : Equipped(sub[s], now)

\* A call that has not started is a submission.
LEMMA IdleIsSubmission == Idle \in Submission
<1>1. /\ (CHOOSE j \in Jobs : TRUE) \in Jobs
      /\ (CHOOSE t \in Tenants : TRUE) \in Tenants
      /\ (CHOOSE p \in Packages : TRUE) \in Packages
  BY SomethingToSendAssumption
<1> QED BY <1>1, NewRowsAreRows DEF Idle, Submission, Steps, Answers

\* The initial state is typed.
LEMMA TypesStart == Init => TypeInv
<1> SUFFICES ASSUME Init PROVE TypeInv
  OBVIOUS
<1>1. StoreTypeOK /\ ColumnsAgree
  BY StoreStarts DEF Init
<1>2. LimiterTypeOK
  BY LimiterStarts DEF Init, LimiterInv
<1>3. sub \in [Submissions -> Submission]
  BY IdleIsSubmission DEF Init
<1>4. now \in Nat
  BY <1>1, MaxNowAssumption DEF StoreTypeOK
<1>5. \A s \in Submissions : Equipped(sub[s], now)
  BY <1>4 DEF Init, Idle, Equipped
<1>6. stops \in 0..MaxStops
  BY DeploymentAssumption DEF Init
<1> QED
  BY <1>1, <1>2, <1>3, <1>4, <1>5, <1>6 DEF Init, TypeInv, TypeOK

\* Every step of the lifecycle is one store operation, or none.
LEMMA NextIsStoreStep ==
    ASSUME TypeInv, [Next]_vars
    PROVE  [StoreNext]_storeVars
<1> USE DEF TypeInv, TypeOK, Faulty
<1>1. CASE UNCHANGED vars
  BY <1>1 DEF vars
<1>2. ASSUME NEW s \in Submissions, Resubmit(s)
      PROVE  [StoreNext]_storeVars
  BY <1>2 DEF Resubmit, Submit, StoreNext
<1>3. ASSUME NEW s \in Submissions, Proceed(s)
      PROVE  [StoreNext]_storeVars
  <2> DEFINE me == sub[s]
  <2>1. me \in Submission /\ me.job \in Jobs /\ rows[me.job] \in Row
        /\ Equipped(me, now)
    BY DEF Submission, StoreTypeOK
  <2>2. rows[me.job].gen \in 0..rows[me.job].gen
    BY <2>1 DEF Row
  <2> HIDE DEF TypeInv, TypeOK
  <2>3. CASE Claim(s)
    BY <2>1, <2>3 DEF Claim, Equipped, StoreNext
  <2>4. CASE RecordRender(s)
    <3>1. me.step = "record" /\ me.bytes \in Digests
      BY <2>1, <2>4 DEF RecordRender, Equipped
    <3>2. MarkRendered(me.job, me.row.gen, me.bytes) \/ UNCHANGED storeVars
      BY <2>4 DEF RecordRender
    <3>3. CASE MarkRendered(me.job, me.row.gen, me.bytes)
      BY <2>1, <2>2, <3>1, <3>3
         DEF MarkRendered, MayMarkRendered, Fenced, StoreNext
    <3> QED BY <3>2, <3>3
  <2>5. CASE RecordFailure(s)
    <3>1. me.step = "fail" /\ me.failure \in Categories
      BY <2>1, <2>5 DEF RecordFailure, Equipped
    <3>2. MarkFailed(me.job, me.row.gen, me.failure) \/ UNCHANGED storeVars
      BY <2>5 DEF RecordFailure
    <3>3. CASE MarkFailed(me.job, me.row.gen, me.failure)
      BY <2>1, <2>2, <3>1, <3>3
         DEF MarkFailed, MayMarkFailed, Fenced, StoreNext
    <3> QED BY <3>2, <3>3
  <2>6. CASE FileOutcome(s)
    <3>1. me.step = "file" /\ me.custody \in ArchiveStates
      BY <2>1, <2>6 DEF FileOutcome, Equipped
    <3>2. \/ RecordArchiveOutcome(me.job, me.row.gen, me.custody)
          \/ UNCHANGED storeVars
      BY <2>6 DEF FileOutcome
    <3>3. CASE RecordArchiveOutcome(me.job, me.row.gen, me.custody)
      BY <2>1, <2>2, <3>1, <3>3
         DEF RecordArchiveOutcome, MayRecordArchive, StoreNext
    <3> QED BY <3>2, <3>3
  <2>7. CASE \/ RefuseAdmission(s) \/ TakeSlot(s) \/ Render(s) \/ Adopt(s)
             \/ Reread(s) \/ Deliver(s) \/ Settle(s) \/ Return(s)
    BY <2>7 DEF RefuseAdmission, TakeSlot, Render, Adopt, Reread, Deliver,
                Settle, Return
  <2> QED BY <1>3, <2>3, <2>4, <2>5, <2>6, <2>7 DEF Proceed
<1>4. CASE TickClock
  BY <1>4 DEF TickClock, StoreNext
<1>5. CASE Crash \/ BeginShutdown \/ DrainStep \/ Exit
  BY <1>5 DEF Crash, BeginShutdown, DrainStep, Exit, ProcessEnds
<1>6. CASE \E d \in wire : Archive(d)
  BY <1>6 DEF Archive
<1> QED BY <1>1, <1>2, <1>3, <1>4, <1>5, <1>6 DEF Next

\* Wherever a call goes of its own accord, it goes as a submission, equipped
\* for its next operation.
LEMMA StepsAreTyped ==
    ASSUME TypeInv, StoreTypeOK',
           NEW s \in Submissions, Resubmit(s) \/ Proceed(s)
    PROVE  \E r \in Submission : Goto(s, r) /\ Equipped(r, now)
<1> DEFINE me == sub[s]
<1>1. /\ me \in Submission /\ me.job \in Jobs /\ me.row \in Row
      /\ rows[me.job] \in Row /\ rows'[me.job] \in Row
      /\ now \in Nat /\ Equipped(me, now)
  BY DEF TypeInv, TypeOK, StoreTypeOK, Submission
<1>2. ASSUME NEW row \in Row, NEW bytes \in Digests \cup {NoDigest},
             AnswerJob(s, row, bytes)
      PROVE  \E r \in Submission : Goto(s, r) /\ Equipped(r, now)
  <2> DEFINE r == [me EXCEPT !.step = "return", !.answer = "job",
                           !.row = row, !.bytes = bytes]
  <2>1. r \in Submission
    BY <1>1 DEF Submission, Steps, Answers
  <2>2. Equipped(r, now)
    BY <1>1 DEF Submission, Equipped
  <2> QED BY <1>2, <2>1, <2>2 DEF AnswerJob
<1>3. ASSUME NEW error \in Answers, AnswerError(s, error)
      PROVE  \E r \in Submission : Goto(s, r) /\ Equipped(r, now)
  <2> DEFINE r == [me EXCEPT !.step = "return", !.answer = error,
                           !.bytes = NoDigest]
  <2>1. r \in Submission
    BY <1>1 DEF Submission, Steps, Answers
  <2>2. Equipped(r, now)
    BY <1>1 DEF Submission, Equipped
  <2> QED BY <1>3, <2>1, <2>2 DEF AnswerError
<1>4. ASSUME NEW c \in Categories, NEW error \in Answers, FailWith(s, c, error)
      PROVE  \E r \in Submission : Goto(s, r) /\ Equipped(r, now)
  <2> DEFINE r == [me EXCEPT !.step = "fail", !.failure = c, !.answer = error,
                           !.bytes = NoDigest]
  <2>1. r \in Submission
    BY <1>1 DEF Submission, Steps, Answers
  <2>2. Equipped(r, now)
    BY <1>1 DEF Submission, Equipped
  <2> QED BY <1>4, <2>1, <2>2 DEF FailWith
<1>5. ASSUME NEW state \in ArchiveStates, SettleAs(s, state),
             me.step \in {"deliver", "await"}
      PROVE  \E r \in Submission : Goto(s, r) /\ Equipped(r, now)
  <2> DEFINE r == [me EXCEPT !.step = "file", !.custody = state]
  <2>1. r \in Submission
    BY <1>1, <1>5 DEF Submission, Steps, Answers
  <2>2. Equipped(r, now)
    BY <1>1, <1>5 DEF Submission, Equipped
  <2> QED BY <1>5, <2>1, <2>2 DEF SettleAs
<1>6. CASE Resubmit(s)
  <2>1. PICK j \in Jobs, tenant \in Tenants, package \in Packages :
           Submit(s, j, tenant, package)
    BY <1>6 DEF Resubmit
  <2>2. rows[j] \in Row /\ AcceptedRow(tenant, package) \in Row /\ AbsentRow \in Row
    BY NewRowsAreRows DEF TypeInv, TypeOK, StoreTypeOK
  <2> DEFINE call == [Idle EXCEPT !.job = j, !.tenant = tenant,
                                  !.package = package]
  <2>3. call \in Submission /\ call.observed = 0
    BY IdleIsSubmission DEF Submission, Idle
  <2> HIDE DEF call
  <2>4. ASSUME NEW a \in Answers, NEW row \in Row,
               Goto(s, [call EXCEPT !.step = "return", !.answer = a, !.row = row])
        PROVE  \E r \in Submission : Goto(s, r) /\ Equipped(r, now)
    <3> DEFINE r == [call EXCEPT !.step = "return", !.answer = a, !.row = row]
    <3>1. r \in Submission
      BY <2>3 DEF Submission, Steps
    <3>2. Equipped(r, now)
      BY <1>1, <2>3 DEF Submission, Equipped
    <3> QED BY <2>4, <3>1, <3>2
  <2>5. ASSUME NEW row \in Row,
               Goto(s, [call EXCEPT !.step = "admit", !.row = row])
        PROVE  \E r \in Submission : Goto(s, r) /\ Equipped(r, now)
    <3> DEFINE r == [call EXCEPT !.step = "admit", !.row = row]
    <3>1. r \in Submission
      BY <2>3 DEF Submission, Steps
    <3>2. Equipped(r, now)
      BY <1>1, <2>3 DEF Submission, Equipped
    <3> QED BY <2>5, <3>1, <3>2
  <2>6. \/ \E a \in Answers, row \in Row :
              Goto(s, [call EXCEPT !.step = "return", !.answer = a, !.row = row])
        \/ \E row \in Row : Goto(s, [call EXCEPT !.step = "admit", !.row = row])
    BY <2>1, <2>2 DEF Submit, Answers, call
  <2> QED BY <2>4, <2>5, <2>6
<1>7. CASE RefuseAdmission(s)
  <2>1. Refusal[me.package] \in Categories /\ "package_invalid" \in Answers
    BY <1>1, <1>7, PackageAssumption DEF RefuseAdmission, Submission, Answers
  <2> QED BY <1>4, <1>7, <2>1 DEF RefuseAdmission
<1>8. CASE TakeSlot(s)
  <2>1. CASE AnswerError(s, "capacity_exhausted")
    BY <1>3, <2>1 DEF Answers
  <2>2. CASE Goto(s, [me EXCEPT !.step = "claim", !.observed = now])
    <3> DEFINE r == [me EXCEPT !.step = "claim", !.observed = now]
    <3>1. r \in Submission
      BY <1>1 DEF Submission, Steps, Answers
    <3>2. Equipped(r, now)
      BY <1>1 DEF Submission, Equipped
    <3> QED BY <2>2, <3>1, <3>2
  <2> QED BY <1>8, <2>1, <2>2 DEF TakeSlot
<1>9. CASE Claim(s)
  <2>1. CASE Goto(s, [me EXCEPT !.step = "render", !.row = rows'[me.job],
                                !.observed = 0])
    <3> DEFINE r == [me EXCEPT !.step = "render", !.row = rows'[me.job],
                                 !.observed = 0]
    <3>1. r \in Submission
      BY <1>1 DEF Submission, Steps, Answers
    <3>2. Equipped(r, now)
      BY <1>1 DEF Submission, Equipped
    <3> QED BY <2>1, <3>1, <3>2
  <2>2. CASE AnswerJob(s, me.row, NoDigest)
    BY <1>1, <1>2, <2>2
  <2>3. CASE AnswerError(s, "internal_error")
    BY <1>3, <2>3 DEF Answers
  <2> QED BY <1>9, <2>1, <2>2, <2>3 DEF Claim
<1>10. CASE Render(s)
  <2>1. ASSUME NEW sha \in Digests,
               Goto(s, [me EXCEPT !.step = "record", !.bytes = sha])
        PROVE  \E r \in Submission : Goto(s, r) /\ Equipped(r, now)
    <3> DEFINE r == [me EXCEPT !.step = "record", !.bytes = sha]
    <3>1. r \in Submission
      BY <1>1 DEF Submission, Steps, Answers
    <3>2. Equipped(r, now)
      BY <1>1 DEF Submission, Equipped
    <3> QED BY <2>1, <3>1, <3>2
  <2>2. \A f \in EngineFailures : f[1] \in Categories /\ f[2] \in Answers
    BY DEF EngineFailures, Answers
  <2> QED BY <1>4, <1>10, <2>1, <2>2 DEF Render
<1>11. CASE RecordRender(s)
  <2>1. CASE Goto(s, [me EXCEPT !.step = "deliver", !.row = rows'[me.job]])
    <3>0. me.step = "record"
      BY <1>11 DEF RecordRender
    <3> DEFINE r == [me EXCEPT !.step = "deliver", !.row = rows'[me.job]]
    <3>1. r \in Submission
      BY <1>1, <3>0 DEF Submission, Steps, Answers
    <3>2. Equipped(r, now)
      BY <1>1, <3>0 DEF Submission, Equipped
    <3> QED BY <2>1, <3>1, <3>2
  <2>2. CASE LoseFence(s)
    <3> DEFINE r == [me EXCEPT !.step = "adopt"]
    <3>1. r \in Submission
      BY <1>1 DEF Submission, Steps, Answers
    <3>2. Equipped(r, now)
      BY <1>1 DEF Submission, Equipped
    <3> QED BY <2>2, <3>1, <3>2 DEF LoseFence
  <2>3. CASE LoseResult(s)
    BY <1>4, <2>3, DeploymentAssumption DEF LoseResult, Answers
  <2> QED BY <1>11, <2>1, <2>2, <2>3 DEF RecordRender
<1>12. CASE Adopt(s)
  <2>1. AdoptedBytes(rows[me.job], me.bytes) \in Digests \cup {NoDigest}
    BY <1>1 DEF AdoptedBytes, Submission
  <2> QED BY <1>1, <1>2, <1>3, <1>12, <2>1 DEF Adopt, Answers
<1>13. CASE RecordFailure(s)
  <2>1. me.answer \in Answers /\ "internal_error" \in Answers
    BY <1>1 DEF Submission, Answers
  <2>2. CASE Goto(s, [me EXCEPT !.step = "reread"])
    <3> DEFINE r == [me EXCEPT !.step = "reread"]
    <3>1. r \in Submission
      BY <1>1 DEF Submission, Steps, Answers
    <3>2. Equipped(r, now)
      BY <1>1 DEF Submission, Equipped
    <3> QED BY <2>2, <3>1, <3>2
  <2> QED BY <1>3, <1>13, <2>1, <2>2 DEF RecordFailure, LoseFailure
<1>14. CASE Reread(s)
  <2>1. me.answer \in Answers /\ "internal_error" \in Answers
    BY <1>1 DEF Submission, Answers
  <2> QED BY <1>1, <1>2, <1>3, <1>14, <2>1 DEF Reread
<1>15. CASE Deliver(s)
  <2>1. "archive_failed" \in ArchiveStates /\ Unproven \in ArchiveStates
    BY DEF ArchiveStates, Unproven
  <2>2. me.step = "deliver" /\ me.bytes \in Digests \cup {NoDigest}
    BY <1>1, <1>15 DEF Deliver, Submission
  <2>3. CASE Goto(s, [me EXCEPT !.step = "await"])
    <3> DEFINE r == [me EXCEPT !.step = "await"]
    <3>1. r \in Submission
      BY <1>1, <2>2 DEF Submission, Steps, Answers
    <3>2. Equipped(r, now)
      BY <1>1, <2>2 DEF Submission, Equipped
    <3> QED BY <2>3, <3>1, <3>2
  <2> QED BY <1>1, <1>2, <1>5, <1>15, <2>1, <2>2, <2>3 DEF Deliver
<1>16. CASE Settle(s)
  <2>1. \A state \in {"archived_verified", "archive_failed", Unproven} :
           state \in ArchiveStates
    BY DEF ArchiveStates, Unproven
  <2> QED BY <1>5, <1>16, <2>1 DEF Settle
<1>17. CASE FileOutcome(s)
  <2>1. me.bytes \in Digests \cup {NoDigest}
    BY <1>1 DEF Submission
  <2> QED BY <1>1, <1>2, <1>17, <2>1 DEF FileOutcome
<1>18. CASE Return(s)
  BY <1>1, <1>18, IdleIsSubmission DEF Return, Equipped, Idle
<1> QED
  BY <1>6, <1>7, <1>8, <1>9, <1>10, <1>11, <1>12, <1>13, <1>14, <1>15, <1>16,
     <1>17, <1>18 DEF Proceed

\* The type invariant survives every step.
LEMMA NextKeepsTypes ==
    ASSUME TypeInv, LimiterTypeOK', [Next]_vars
    PROVE  TypeInv'
<1> USE DEF TypeOK
<1>1. StoreTypeOK' /\ ColumnsAgree'
  BY NextIsStoreStep, StoreStepKeepsInv DEF TypeInv
<1>2. now \in Nat /\ now' \in Nat /\ now <= now'
  <2>1. now \in Nat /\ now' \in Nat
    BY <1>1, MaxNowAssumption DEF TypeInv, StoreTypeOK
  <2>2. now' = now \/ now' = now + 1
    BY NextIsStoreStep, StoreSteps
       DEF storeVars, Tick, Create, ClaimForRendering, MarkRendered,
           MarkFailed, RecordArchiveOutcome, Write
  <2> QED BY <2>1, <2>2
<1>3. ASSUME UNCHANGED sub
      PROVE  /\ sub' \in [Submissions -> Submission]
             /\ \A s \in Submissions : Equipped(sub'[s], now')
  BY <1>2, <1>3 DEF TypeInv, Equipped
<1>4. ASSUME NEW s \in Submissions, NEW r \in Submission, Goto(s, r),
             Equipped(r, now)
      PROVE  /\ sub' \in [Submissions -> Submission]
             /\ \A u \in Submissions : Equipped(sub'[u], now')
  BY <1>2, <1>4 DEF TypeInv, Equipped, Goto
<1>5. CASE UNCHANGED vars
  BY <1>1, <1>3, <1>5 DEF vars, TypeInv
<1>6. ASSUME NEW s \in Submissions, Resubmit(s) \/ Proceed(s)
      PROVE  TypeInv'
  <2>1. /\ sub' \in [Submissions -> Submission]
        /\ \A u \in Submissions : Equipped(sub'[u], now')
    BY <1>1, <1>4, <1>6, StepsAreTyped
  <2>2. documents' = documents /\ stops' = stops
    BY ZenonT(30), <1>6 DEF Resubmit, Submit, Proceed, RefuseAdmission, TakeSlot, Claim,
                Render, RecordRender, Adopt, RecordFailure, Reread, Deliver,
                Settle, FileOutcome, Return, outside
  <2>3. wire' \subseteq wire \/ Deliver(s)
    BY ZenonT(30), <1>6 DEF Resubmit, Submit, Proceed, RefuseAdmission, TakeSlot, Claim,
                Render, RecordRender, Adopt, RecordFailure, Reread,
                Settle, FileOutcome, Return, outside
  <2>4. CASE Deliver(s)
    <3>1. Document(sub[s]) \in [job : Jobs, sha : Digests,
                                tenant : Tenants \cup {NoTenant}]
      BY <2>4 DEF Deliver, Document, TypeInv, Equipped, Submission, Row
    <3>2. wire' \subseteq wire \cup {Document(sub[s])}
      BY <2>4 DEF Deliver
    <3> QED BY <1>1, <2>1, <2>2, <3>1, <3>2 DEF TypeInv
  <2> QED BY <1>1, <2>1, <2>2, <2>3, <2>4 DEF TypeInv
<1>7. CASE \E d \in wire : Archive(d)
  BY <1>1, <1>3, <1>7 DEF Archive, TypeInv
<1>8. CASE Crash \/ Exit
  <2>1. sub' = [s \in Submissions |-> Idle] /\ UNCHANGED <<storeVars, wire, documents>>
    BY <1>8 DEF Crash, Exit, ProcessEnds
  <2>2. Equipped(Idle, now')
    BY <1>2 DEF Equipped, Idle
  <2>3. stops' \in 0..MaxStops
    BY <1>8, DeploymentAssumption DEF Crash, Exit, MayStop, TypeInv
  <2> QED BY <1>1, <2>1, <2>2, <2>3, IdleIsSubmission DEF TypeInv
<1>9. CASE BeginShutdown
  <2>1. stops' \in 0..MaxStops
    BY <1>9, DeploymentAssumption DEF BeginShutdown, MayStop, TypeInv
  <2> QED BY <1>1, <1>3, <1>9, <2>1 DEF BeginShutdown, TypeInv
<1>10. CASE DrainStep \/ TickClock
  BY <1>1, <1>3, <1>10 DEF DrainStep, TickClock, outside, TypeInv
<1> QED
  BY <1>5, <1>6, <1>7, <1>8, <1>9, <1>10 DEF Next

-----------------------------------------------------------------------------
(* Slots *)

\* What a call that turns to its answer, or to its failure, holds.
LEMMA Answering ==
    ASSUME TypeInv, NEW s \in Submissions
    PROVE  /\ \A row, bytes : AnswerJob(s, row, bytes) =>
                 /\ \A u \in Submissions \ {s} : sub'[u] = sub[u]
                 /\ sub'[s].step = "return" /\ sub'[s].answer = "job"
                 /\ sub'[s].row = row /\ sub'[s].bytes = bytes
                 /\ sub'[s].job = sub[s].job
                 /\ sub'[s].tenant = sub[s].tenant
                 /\ sub'[s].package = sub[s].package
           /\ \A error : AnswerError(s, error) =>
                 /\ \A u \in Submissions \ {s} : sub'[u] = sub[u]
                 /\ sub'[s].step = "return" /\ sub'[s].answer = error
                 /\ sub'[s].bytes = NoDigest
                 /\ sub'[s].job = sub[s].job
                 /\ sub'[s].package = sub[s].package
           /\ \A c, error : FailWith(s, c, error) =>
                 /\ \A u \in Submissions \ {s} : sub'[u] = sub[u]
                 /\ sub'[s].step = "fail" /\ sub'[s].answer = error
                 /\ sub'[s].row = sub[s].row
                 /\ sub'[s].job = sub[s].job
                 /\ sub'[s].tenant = sub[s].tenant
                 /\ sub'[s].package = sub[s].package
<1>1. sub[s] \in Submission /\ sub \in [Submissions -> Submission]
  BY DEF TypeInv, TypeOK
<1>2. ASSUME NEW row, NEW bytes, AnswerJob(s, row, bytes)
      PROVE  /\ \A u \in Submissions \ {s} : sub'[u] = sub[u]
             /\ sub'[s].step = "return" /\ sub'[s].answer = "job"
             /\ sub'[s].row = row /\ sub'[s].bytes = bytes
             /\ sub'[s].job = sub[s].job
             /\ sub'[s].tenant = sub[s].tenant
             /\ sub'[s].package = sub[s].package
  BY <1>1, <1>2 DEF AnswerJob, Goto, Submission
<1>3. ASSUME NEW error, AnswerError(s, error)
      PROVE  /\ \A u \in Submissions \ {s} : sub'[u] = sub[u]
             /\ sub'[s].step = "return" /\ sub'[s].answer = error
             /\ sub'[s].bytes = NoDigest
             /\ sub'[s].job = sub[s].job
             /\ sub'[s].package = sub[s].package
  BY <1>1, <1>3 DEF AnswerError, Goto, Submission
<1>4. ASSUME NEW c, NEW error, FailWith(s, c, error)
      PROVE  /\ \A u \in Submissions \ {s} : sub'[u] = sub[u]
             /\ sub'[s].step = "fail" /\ sub'[s].answer = error
             /\ sub'[s].row = sub[s].row
             /\ sub'[s].job = sub[s].job
             /\ sub'[s].tenant = sub[s].tenant
             /\ sub'[s].package = sub[s].package
  BY <1>1, <1>4 DEF FailWith, Goto, Submission
<1> QED BY <1>2, <1>3, <1>4

\* The two errors a call is turned away with for its package's tenant.
TenantRefusals == {"tenant_contradiction", "scope_contradiction"}

\* What a call holds once it is submitted: nothing of an earlier call, and a
\* row only if that row is its own tenant's and package's.
LEMMA Submitting ==
    ASSUME TypeInv, NEW s \in Submissions, NEW j \in Jobs,
           NEW tenant \in Tenants, NEW package \in Packages,
           Submit(s, j, tenant, package)
    PROVE  /\ \A u \in Submissions \ {s} : sub'[u] = sub[u]
           /\ sub'[s].job = j /\ sub'[s].tenant = tenant
           /\ sub'[s].package = package /\ sub'[s].bytes = NoDigest
           /\ \/ /\ sub'[s].step = "return"
                 /\ \/ sub'[s].answer \in {"job_conflict", "internal_error"}
                    \/ /\ sub'[s].answer \in TenantRefusals
                       /\ ~InScope(tenant, package)
              \/ /\ \/ sub'[s].step = "return" /\ sub'[s].answer = "job"
                    \/ sub'[s].step = "admit"
                 /\ sub'[s].row = rows[j]
                 /\ Exists(j) /\ ~Conflicts(rows[j], tenant, package)
                 /\ UNCHANGED storeVars
              \/ /\ sub'[s].step = "admit"
                 /\ sub'[s].row = AcceptedRow(tenant, package)
                 /\ Create(j, tenant, package) /\ InScope(tenant, package)
<1> DEFINE call == [Idle EXCEPT !.job = j, !.tenant = tenant,
                                !.package = package]
<1>1. sub \in [Submissions -> Submission]
  BY DEF TypeInv, TypeOK
<1>2. /\ call \in Submission
      /\ call.job = j /\ call.tenant = tenant /\ call.package = package
      /\ call.bytes = NoDigest
  BY IdleIsSubmission DEF Submission, Idle
<1>3. \/ \E a \in {"job_conflict", "internal_error"} :
            Goto(s, [call EXCEPT !.step = "return", !.answer = a,
                                 !.row = AbsentRow])
      \/ /\ \E a \in TenantRefusals :
               Goto(s, [call EXCEPT !.step = "return", !.answer = a,
                                    !.row = AbsentRow])
         /\ ~InScope(tenant, package)
      \/ /\ \/ Goto(s, [call EXCEPT !.step = "return", !.answer = "job",
                                    !.row = rows[j]])
            \/ Goto(s, [call EXCEPT !.step = "admit", !.row = rows[j]])
         /\ Exists(j) /\ ~Conflicts(rows[j], tenant, package)
         /\ UNCHANGED storeVars
      \/ /\ Goto(s, [call EXCEPT !.step = "admit",
                                 !.row = AcceptedRow(tenant, package)])
         /\ Create(j, tenant, package) /\ InScope(tenant, package)
  BY DEF Submit, InScope, TenantRefusals
<1> HIDE DEF call
<1>4. ASSUME NEW a, NEW row,
             Goto(s, [call EXCEPT !.step = "return", !.answer = a, !.row = row])
      PROVE  /\ \A u \in Submissions \ {s} : sub'[u] = sub[u]
             /\ sub'[s].step = "return" /\ sub'[s].answer = a
             /\ sub'[s].row = row
             /\ sub'[s].job = j /\ sub'[s].tenant = tenant
             /\ sub'[s].package = package /\ sub'[s].bytes = NoDigest
  BY <1>1, <1>2, <1>4 DEF Goto, Submission
<1>5. ASSUME NEW row, Goto(s, [call EXCEPT !.step = "admit", !.row = row])
      PROVE  /\ \A u \in Submissions \ {s} : sub'[u] = sub[u]
             /\ sub'[s].step = "admit" /\ sub'[s].row = row
             /\ sub'[s].job = j /\ sub'[s].tenant = tenant
             /\ sub'[s].package = package /\ sub'[s].bytes = NoDigest
  BY <1>1, <1>2, <1>5 DEF Goto, Submission
<1> QED BY ZenonT(30), <1>3, <1>4, <1>5

\* Where each step of a call leads, and what it does to the slots.
LEMMA CallSteps ==
    ASSUME TypeInv, NEW s \in Submissions, Resubmit(s) \/ Proceed(s)
    PROVE  /\ \A u \in Submissions \ {s} : sub'[u] = sub[u]
           /\ \/ /\ UNCHANGED limiterVars
                 /\ \/ sub[s].step = "idle" /\ sub'[s].step \in {"admit", "return"}
                    \/ sub[s].step = "admit" /\ sub'[s].step \in {"fail", "return"}
                    \/ /\ sub[s].step \in {"claim", "render", "record", "adopt",
                                           "deliver", "await", "file"}
                       /\ sub'[s].step \notin {"idle", "admit"}
                    \/ /\ sub[s].step \in {"fail", "reread"}
                       /\ sub'[s].step \in {"reread", "return"}
              \/ sub[s].step = "admit" /\ sub'[s].step = "claim" /\ Acquire(s)
              \/ /\ sub[s].step = "return" /\ sub'[s].step = "idle"
                 /\ IF s \in held THEN Release(s) ELSE UNCHANGED limiterVars
<1> DEFINE me == sub[s]
<1>1. me \in Submission /\ sub \in [Submissions -> Submission]
  BY DEF TypeInv, TypeOK
<1>2. /\ \A error : AnswerError(s, error) =>
            sub'[s].step = "return" /\ \A u \in Submissions \ {s} : sub'[u] = sub[u]
      /\ \A row, bytes : AnswerJob(s, row, bytes) =>
            sub'[s].step = "return" /\ \A u \in Submissions \ {s} : sub'[u] = sub[u]
      /\ \A c, error : FailWith(s, c, error) =>
            sub'[s].step = "fail" /\ \A u \in Submissions \ {s} : sub'[u] = sub[u]
  BY Answering
<1>3. ASSUME NEW state, SettleAs(s, state)
      PROVE  sub'[s].step = "file" /\ \A u \in Submissions \ {s} : sub'[u] = sub[u]
  BY <1>1, <1>3 DEF SettleAs, Goto, Submission
<1>6. CASE Resubmit(s)
  <2>1. PICK j \in Jobs, tenant \in Tenants, package \in Packages :
           Submit(s, j, tenant, package)
    BY <1>6 DEF Resubmit
  <2>2. sub[s].step = "idle" /\ UNCHANGED limiterVars
    BY <2>1 DEF Submit
  <2> QED BY <2>1, <2>2, Submitting
<1>7. CASE RefuseAdmission(s)
  BY <1>2, <1>7 DEF RefuseAdmission
<1>8. CASE TakeSlot(s)
  BY ZenonT(30), <1>1, <1>2, <1>8 DEF TakeSlot, Goto, Submission
<1>9. CASE Claim(s)
  BY ZenonT(30), <1>1, <1>2, <1>9 DEF Claim, Goto, Submission
<1>10. CASE Render(s)
  BY ZenonT(30), <1>1, <1>2, <1>10 DEF Render, Goto, Submission
<1>11. CASE RecordRender(s)
  BY ZenonT(30), <1>1, <1>2, <1>11 DEF RecordRender, LoseFence, LoseResult, Goto, Submission
<1>12. CASE Adopt(s)
  BY <1>2, <1>12 DEF Adopt
<1>13. CASE RecordFailure(s)
  BY <1>1, <1>2, <1>13 DEF RecordFailure, LoseFailure, Goto, Submission
<1>14. CASE Reread(s)
  BY <1>2, <1>14 DEF Reread
<1>15. CASE Deliver(s)
  BY <1>1, <1>2, <1>3, <1>15 DEF Deliver, Goto, Submission
<1>16. CASE Settle(s)
  BY <1>3, <1>16 DEF Settle
<1>17. CASE FileOutcome(s)
  BY <1>2, <1>17 DEF FileOutcome
<1>18. CASE Return(s)
  BY <1>1, <1>18 DEF Return, Goto, Idle
<1> QED
  BY <1>6, <1>7, <1>8, <1>9, <1>10, <1>11, <1>12, <1>13, <1>14, <1>15, <1>16,
     <1>17, <1>18 DEF Proceed

\* The slots and the calls keep matching: every path out of a call goes
\* through Return, and nothing else gives its slot away.
LEMMA NextKeepsSlots ==
    ASSUME TypeInv, LimiterInv, SlotsMatchCalls, [Next]_vars
    PROVE  LimiterInv' /\ SlotsMatchCalls'
<1>1. ASSUME [LimiterNext]_limiterVars PROVE LimiterInv'
  BY <1>1, LimiterStepKeepsInv
<1>2. CASE UNCHANGED <<limiterVars, sub>>
  BY <1>1, <1>2 DEF limiterVars, SlotsMatchCalls
<1>3. ASSUME NEW s \in Submissions, Resubmit(s) \/ Proceed(s)
      PROVE  LimiterInv' /\ SlotsMatchCalls'
  <2>1. LimiterInv'
    <3>1. sub[s].step = "admit" => s \notin held
      BY DEF SlotsMatchCalls
    <3> QED BY <1>1, <1>3, <3>1, CallSteps DEF LimiterNext
  <2>2. SlotsMatchCalls'
    BY <1>3, CallSteps
       DEF SlotsMatchCalls, limiterVars, Acquire, Release
  <2> QED BY <2>1, <2>2
<1>4. CASE Crash \/ Exit
  <2>1. LimiterInit' /\ sub' = [s \in Submissions |-> Idle]
    BY <1>4 DEF Crash, Exit, ProcessEnds, LimiterInit
  <2>2. LimiterInv'
    BY <2>1, FS_EmptySet, ConcurrencyAssumption
       DEF LimiterInit, LimiterInv, LimiterTypeOK, SlotsBounded, DrainStates
  <2> QED BY <2>1, <2>2 DEF SlotsMatchCalls, LimiterInit, Idle
<1>5. CASE BeginShutdown \/ DrainStep
  BY <1>1, <1>5
     DEF BeginShutdown, DrainStep, LimiterNext, StartDrain, Drain, DrainSlot,
         DrainComplete, DrainTimeout, SlotsMatchCalls
<1>6. CASE TickClock \/ (\E d \in wire : Archive(d)) \/ UNCHANGED vars
  BY <1>2, <1>6 DEF TickClock, Archive, vars, outside
<1> QED BY <1>3, <1>4, <1>5, <1>6 DEF Next

-----------------------------------------------------------------------------
(* What a call may rely on between its own steps *)

\* From intake to an answer that shows a job, the job is the caller's: its
\* tenant's, for its package.
Owned(s) ==
    LET me == sub[s] IN
    me.step # "idle" /\ (me.step = "return" => me.answer = "job") =>
        /\ Exists(me.job)
        /\ rows[me.job].tenant = me.tenant
        /\ rows[me.job].package = me.package
        /\ me.row.tenant = me.tenant

\* Admission decides between the two ways to _fail_submit: a refused package
\* never gets a slot, and a failure without a slot is a refusal.
Screened(s) ==
    /\ sub[s].step \in {"claim", "render", "record"} =>
          Refusal[sub[s].package] = "none"
    /\ sub[s].step = "fail" =>
          (s \in held <=> Refusal[sub[s].package] = "none")

\* A claim is the job's last one, and then the job is rendering, or it has
\* been superseded; a call that gave up its outcome was.
Claimed(s) ==
    LET me == sub[s] IN
    /\ HoldsClaim(s) =>
          /\ me.row.gen <= rows[me.job].gen
          /\ me.row.gen = rows[me.job].gen => rows[me.job].status = "rendering"
    /\ me.step \in {"adopt", "reread"} /\ s \in held =>
          Supersedes(me.job, me.row.gen)

\* A call that delivers, or answers with bytes, holds the recorded artifact.
Recorded(s) ==
    LET me == sub[s] IN
    \/ me.step \in {"deliver", "await", "file"}
    \/ me.step = "return" /\ me.bytes # NoDigest
    => /\ me.row.status = "rendered" /\ me.row.sha = me.bytes
       /\ rows[me.job].status = "rendered" /\ rows[me.job].sha = me.bytes

\* The two errors a failed render is answered with.
FailureAnswers == {"package_invalid", "execution_failed"}

\* A call that fails knows its error, and answers with it only if the job
\* failed.
Told(s) ==
    LET me == sub[s] IN
    /\ me.step \in {"fail", "reread"} => me.answer \in FailureAnswers
    /\ me.step = "return" /\ me.answer \in FailureAnswers =>
          rows[me.job].status = "failed"
    /\ me.step = "return" /\ me.answer \in TenantRefusals =>
          ~InScope(me.tenant, me.package)

\* A row that has an owner has one who may send its package.
RowsInScope ==
    \A j \in Jobs :
        rows[j].tenant \in Tenants =>
            InScope(rows[j].tenant, rows[j].package)

CallInv ==
    /\ TypeInv /\ LimiterInv /\ SlotsMatchCalls
    /\ \A s \in Submissions :
          Owned(s) /\ Screened(s) /\ Claimed(s) /\ Recorded(s) /\ Told(s)
    /\ ExclusiveClaim
    /\ CustodyIsTheArtifact
    /\ RowsInScope

\* What any step leaves of a job: its owner, its outcome, and generations
\* that only grow.
LEMMA TableGoesOn ==
    ASSUME TypeInv, [Next]_vars, NEW j \in Jobs
    PROVE  /\ Exists(j) => /\ Exists(j)'
                           /\ rows'[j].tenant = rows[j].tenant
                           /\ rows'[j].package = rows[j].package
           /\ rows[j].status \in Terminal => /\ rows'[j].status = rows[j].status
                                             /\ rows'[j].sha = rows[j].sha
                                             /\ rows'[j].gen = rows[j].gen
           /\ rows[j].gen <= rows'[j].gen
<1>1. StoreTypeOK /\ ColumnsAgree /\ [StoreNext]_storeVars /\ rows[j] \in Row
  BY NextIsStoreStep DEF TypeInv, TypeOK, StoreTypeOK
<1>2. rows[j].gen \in Nat
  BY <1>1 DEF Row
<1>3. rows'[j].gen # rows[j].gen => rows'[j].gen = rows[j].gen + 1
  BY <1>1, StepCountsClaims
<1>4. ASSUME rows[j].status \in Terminal
      PROVE  /\ rows'[j].status = rows[j].status /\ rows'[j].sha = rows[j].sha
             /\ rows'[j].gen = rows[j].gen
  <2>1. rows'[j] = [rows[j] EXCEPT !.archive = rows'[j].archive]
    BY <1>1, <1>4, StepKeepsTerminal
  <2> QED BY <1>1, <2>1 DEF Row
<1>5. Exists(j) => /\ Exists(j)' /\ rows'[j].tenant = rows[j].tenant
                   /\ rows'[j].package = rows[j].package
  BY <1>1, StepKeepsOwner, StepKeepsRows
<1> QED BY <1>2, <1>3, <1>4, <1>5

\* Nobody else ends a claim: while a call holds the last claim of a job, a
\* step of another call leaves the row alone or supersedes the claim.  A
\* failure written from outside the slots is a refused package's, and this
\* job's package was not refused.
LEMMA ClaimsAreRespected ==
    ASSUME CallInv, NEW s \in Submissions, NEW v \in Submissions, s # v,
           Resubmit(v) \/ Proceed(v),
           HoldsClaim(s), sub[s].row.gen = rows[sub[s].job].gen
    PROVE  \/ rows'[sub[s].job] = rows[sub[s].job]
           \/ rows'[sub[s].job].gen # rows[sub[s].job].gen
<1> DEFINE j == sub[s].job
<1>1. /\ j \in Jobs /\ rows \in [Jobs -> Row] /\ sub[v].job \in Jobs
      /\ rows[j] \in Row /\ rows[j].gen \in Nat
  BY DEF CallInv, TypeInv, TypeOK, StoreTypeOK, Submission, Row
<1>2. rows[j].status = "rendering" /\ Exists(j)
  BY DEF CallInv, Claimed, Exists
<1>3. ASSUME NEW i \in Jobs, NEW row, NEW at, Write(i, row, at), i # j
      PROVE  rows'[j] = rows[j]
  BY <1>1, <1>3 DEF Write
<1>4. CASE UNCHANGED storeVars
  BY <1>4 DEF storeVars
<1>5. CASE Resubmit(v)
  <2>1. PICK i \in Jobs, t \in Tenants, p \in Packages : Submit(v, i, t, p)
    BY <1>5 DEF Resubmit
  <2>2. UNCHANGED storeVars \/ Create(i, t, p)
    BY <2>1 DEF Submit, Faulty
  <2> QED BY <1>2, <1>3, <1>4, <2>2 DEF Create
<1>6. CASE Claim(v)
  <2>1. UNCHANGED storeVars \/ ClaimForRendering(sub[v].job, sub[v].observed)
    BY <1>6 DEF Claim, Faulty
  <2>2. CASE ClaimForRendering(j, sub[v].observed)
    <3>1. rows'[j] = [rows[j] EXCEPT !.status = "rendering", !.gen = @ + 1]
      BY <1>1, <2>2 DEF ClaimForRendering, Write
    <3>2. rows'[j].gen = rows[j].gen + 1
      BY <1>1, <3>1 DEF Row
    <3> QED BY <1>1, <3>2
  <2> QED BY <1>1, <1>3, <1>4, <2>1, <2>2 DEF ClaimForRendering
<1>7. CASE RecordRender(v)
  <2>1. HoldsClaim(v)
    BY <1>7 DEF RecordRender, HoldsClaim, CallInv, SlotsMatchCalls
  <2>2. \/ UNCHANGED storeVars
        \/ MarkRendered(sub[v].job, sub[v].row.gen, sub[v].bytes)
    BY <1>7 DEF RecordRender, Faulty
  <2>3. MarkRendered(sub[v].job, sub[v].row.gen, sub[v].bytes) => sub[v].job # j
    BY <2>1 DEF MarkRendered, MayMarkRendered, Fenced, CallInv, ExclusiveClaim
  <2> QED BY <1>1, <1>3, <1>4, <2>2, <2>3 DEF MarkRendered
<1>8. CASE RecordFailure(v)
  <2>1. \/ UNCHANGED storeVars
        \/ MarkFailed(sub[v].job, sub[v].row.gen, sub[v].failure)
    BY <1>8 DEF RecordFailure, Faulty
  <2>2. ASSUME MarkFailed(sub[v].job, sub[v].row.gen, sub[v].failure),
               sub[v].job = j
        PROVE  FALSE
    <3>1. sub[v].step = "fail" /\ sub[v].row.gen = sub[s].row.gen
      BY <1>8, <2>2 DEF RecordFailure, MarkFailed, MayMarkFailed, Fenced
    <3>2. v \notin held
      BY <2>2, <3>1 DEF HoldsClaim, CallInv, ExclusiveClaim
    <3>3. Refusal[sub[v].package] # "none"
      BY <3>1, <3>2 DEF CallInv, Screened
    <3>4. Refusal[sub[s].package] = "none"
      BY DEF HoldsClaim, CallInv, Screened
    <3>5. sub[v].package = sub[s].package
      BY <2>2, <3>1 DEF HoldsClaim, CallInv, Owned
    <3> QED BY <3>3, <3>4, <3>5
  <2> QED BY <1>1, <1>3, <1>4, <2>1, <2>2 DEF MarkFailed
<1>9. CASE FileOutcome(v)
  <2>1. rows[sub[v].job].status = "rendered"
    BY <1>9 DEF FileOutcome, CallInv, Recorded
  <2>2. \/ UNCHANGED storeVars
        \/ RecordArchiveOutcome(sub[v].job, sub[v].row.gen, sub[v].custody)
    BY <1>9 DEF FileOutcome
  <2> QED BY <1>1, <1>2, <1>3, <1>4, <2>1, <2>2 DEF RecordArchiveOutcome
<1>10. CASE \/ RefuseAdmission(v) \/ TakeSlot(v) \/ Render(v) \/ Adopt(v)
            \/ Reread(v) \/ Deliver(v) \/ Settle(v) \/ Return(v)
  BY <1>4, <1>10 DEF RefuseAdmission, TakeSlot, Render, Adopt, Reread,
                     Deliver, Settle, Return, Faulty
<1> QED BY <1>5, <1>6, <1>7, <1>8, <1>9, <1>10 DEF Proceed

\* What a call may rely on while it stands still.
LEMMA StandingStill ==
    ASSUME CallInv, [Next]_vars, NEW s \in Submissions,
           sub'[s] = sub[s], s \in held <=> s \in held',
           \/ rows'[sub[s].job] = rows[sub[s].job]
           \/ rows'[sub[s].job].gen # rows[sub[s].job].gen
           \/ ~(HoldsClaim(s) /\ sub[s].row.gen = rows[sub[s].job].gen)
    PROVE  (Owned(s) /\ Screened(s) /\ Claimed(s) /\ Recorded(s) /\ Told(s))'
<1> DEFINE j == sub[s].job
<1>1. /\ j \in Jobs /\ rows[j].gen \in Nat /\ rows'[j].gen \in Nat
      /\ sub[s].row.gen \in Nat
  <2>1. StoreTypeOK' /\ StoreTypeOK
    BY NextIsStoreStep, StoreStepKeepsInv DEF CallInv, TypeInv, TypeOK
  <2> QED BY <2>1 DEF CallInv, TypeInv, TypeOK, StoreTypeOK, Submission, Row
<1>2. /\ Exists(j) => /\ Exists(j)'
                      /\ rows'[j].tenant = rows[j].tenant
                      /\ rows'[j].package = rows[j].package
      /\ rows[j].status \in Terminal => /\ rows'[j].status = rows[j].status
                                        /\ rows'[j].sha = rows[j].sha
                                        /\ rows'[j].gen = rows[j].gen
      /\ rows[j].gen <= rows'[j].gen
  BY <1>1, TableGoesOn DEF CallInv
<1>3. Owned(s)'
  BY <1>2 DEF CallInv, Owned, Exists
<1>4. Screened(s)'
  BY DEF CallInv, Screened
<1>5. Claimed(s)'
  BY <1>1, <1>2 DEF CallInv, Claimed, HoldsClaim, Supersedes
<1>6. Recorded(s)' /\ Told(s)'
  BY <1>2 DEF CallInv, Recorded, Told, Terminal
<1> QED BY <1>3, <1>4, <1>5, <1>6

\* What a call may rely on after a step of its own.
LEMMA SteppingOn ==
    ASSUME CallInv, NEW s \in Submissions, Resubmit(s) \/ Proceed(s)
    PROVE  (Owned(s) /\ Screened(s) /\ Claimed(s) /\ Recorded(s) /\ Told(s))'
<1> DEFINE me == sub[s]
           j == sub[s].job
           Kept == (Owned(s) /\ Screened(s) /\ Claimed(s) /\ Recorded(s) /\ Told(s))'
<1> USE DEF Owned, Screened, Claimed, Recorded, Told, FailureAnswers,
            TenantRefusals
<1>1. /\ TypeInv /\ SlotsMatchCalls
      /\ Owned(s) /\ Screened(s) /\ Claimed(s) /\ Recorded(s) /\ Told(s)
      /\ sub \in [Submissions -> Submission]
      /\ me \in Submission /\ j \in Jobs /\ rows \in [Jobs -> Row]
      /\ rows[j] \in Row /\ rows[j].gen \in Nat /\ me.row.gen \in Nat
  BY DEF CallInv, TypeInv, TypeOK, StoreTypeOK, Submission, Row
<1>2. CASE Resubmit(s)
  <2>1. PICK i \in Jobs, t \in Tenants, p \in Packages : Submit(s, i, t, p)
    BY <1>2 DEF Resubmit
  <2>2. s \notin held /\ held' = held
    BY <1>1, <2>1 DEF Submit, SlotsMatchCalls, limiterVars
  <2>3. CASE sub'[s].step = "return"
    BY <1>1, <2>1, <2>2, <2>3, Submitting
       DEF HoldsClaim, Conflicts, Exists, storeVars
  <2>4. CASE sub'[s].step = "admit"
    <3>1. CASE UNCHANGED storeVars /\ sub'[s].row = rows[i] /\ Exists(i)
               /\ ~Conflicts(rows[i], t, p)
      BY <1>1, <2>1, <2>2, <2>4, <3>1, Submitting
         DEF HoldsClaim, Conflicts, Exists, storeVars
    <3>2. CASE sub'[s].row = AcceptedRow(t, p) /\ Create(i, t, p)
      <4>1. rows'[i] = AcceptedRow(t, p)
        BY <1>1, <3>2 DEF Create, Write
      <4> QED
        BY <1>1, <2>1, <2>2, <2>4, <3>2, <4>1, Submitting, AcceptedColumns
           DEF HoldsClaim, Exists
    <3> QED BY <1>1, <2>1, <2>4, <3>1, <3>2, Submitting
  <2> QED BY <1>1, <2>1, <2>3, <2>4, Submitting
<1>3. CASE RefuseAdmission(s)
  BY <1>1, <1>3, Answering
     DEF RefuseAdmission, SlotsMatchCalls, HoldsClaim, storeVars, limiterVars,
         Exists
<1>4. CASE TakeSlot(s)
  <2>1. CASE AnswerError(s, "capacity_exhausted")
    BY <1>1, <1>4, <2>1, Answering DEF TakeSlot, HoldsClaim
  <2>2. CASE Goto(s, [me EXCEPT !.step = "claim", !.observed = now])
    <3>1. /\ sub'[s].step = "claim" /\ sub'[s].job = j
          /\ sub'[s].tenant = me.tenant /\ sub'[s].package = me.package
          /\ sub'[s].row = me.row
      BY <1>1, <2>2 DEF Goto, Submission
    <3> QED BY <1>1, <1>4, <3>1 DEF TakeSlot, HoldsClaim, storeVars, Exists
  <2> QED BY <1>4, <2>1, <2>2 DEF TakeSlot
<1>5. CASE Claim(s)
  <2>1. me.step = "claim" /\ held' = held /\ s \in held
    BY <1>1, <1>5 DEF Claim, SlotsMatchCalls, limiterVars
  <2>2. CASE ClaimForRendering(j, me.observed)
             /\ Goto(s, [me EXCEPT !.step = "render", !.row = rows'[j],
                                   !.observed = 0])
    <3>1. /\ sub'[s].step = "render" /\ sub'[s].job = j
          /\ sub'[s].tenant = me.tenant /\ sub'[s].package = me.package
          /\ sub'[s].row = rows'[j]
      BY <1>1, <2>2 DEF Goto, Submission
    <3>2. rows'[j] = [rows[j] EXCEPT !.status = "rendering", !.gen = @ + 1]
      BY <1>1, <2>2 DEF ClaimForRendering, Write
    <3>3. /\ rows'[j].status = "rendering" /\ rows'[j].gen = rows[j].gen + 1
          /\ rows'[j].tenant = rows[j].tenant
          /\ rows'[j].package = rows[j].package
      BY <1>1, <3>2 DEF Row
    <3> QED BY <1>1, <2>1, <3>1, <3>3 DEF HoldsClaim, Exists
  <2>3. CASE AnswerJob(s, me.row, NoDigest) /\ UNCHANGED storeVars
    BY <1>1, <2>1, <2>3, Answering DEF HoldsClaim, storeVars, Exists
  <2>4. CASE AnswerError(s, "internal_error") /\ UNCHANGED storeVars
    BY <1>1, <2>1, <2>4, Answering DEF HoldsClaim
  <2> QED BY <1>5, <2>2, <2>3, <2>4 DEF Claim, Faulty
<1>6. CASE Render(s)
  <2>1. /\ me.step = "render" /\ held' = held /\ s \in held
        /\ UNCHANGED storeVars
    BY <1>1, <1>6 DEF Render, SlotsMatchCalls, limiterVars
  <2>2. ASSUME NEW sha \in Digests,
               Goto(s, [me EXCEPT !.step = "record", !.bytes = sha])
        PROVE  Kept
    <3>1. /\ sub'[s].step = "record" /\ sub'[s].job = j
          /\ sub'[s].tenant = me.tenant /\ sub'[s].package = me.package
          /\ sub'[s].row = me.row
      BY <1>1, <2>2 DEF Goto, Submission
    <3> QED BY <1>1, <2>1, <3>1 DEF HoldsClaim, storeVars, Exists
  <2>3. ASSUME NEW c, NEW error \in FailureAnswers, FailWith(s, c, error)
        PROVE  Kept
    BY <1>1, <2>1, <2>3, Answering DEF HoldsClaim, storeVars, Exists
  <2>4. \A f \in EngineFailures : f[2] \in FailureAnswers
    BY DEF EngineFailures
  <2> QED BY <1>6, <2>2, <2>3, <2>4 DEF Render
<1>7. CASE RecordRender(s)
  <2>1. me.step = "record" /\ held' = held /\ s \in held /\ HoldsClaim(s)
    BY <1>1, <1>7 DEF RecordRender, SlotsMatchCalls, limiterVars, HoldsClaim
  <2>2. CASE MarkRendered(j, me.row.gen, me.bytes)
             /\ Goto(s, [me EXCEPT !.step = "deliver", !.row = rows'[j]])
    <3>1. /\ sub'[s].step = "deliver" /\ sub'[s].job = j
          /\ sub'[s].tenant = me.tenant /\ sub'[s].package = me.package
          /\ sub'[s].row = rows'[j] /\ sub'[s].bytes = me.bytes
      BY <1>1, <2>2 DEF Goto, Submission
    <3>2. me.bytes \in Digests
      BY <1>1, <2>1 DEF TypeInv, Equipped
    <3>3. rows'[j] = RenderedRow(rows[j], me.bytes)
      BY <1>1, <2>2 DEF MarkRendered, Write
    <3> QED BY <1>1, <2>1, <3>1, <3>2, <3>3, OutcomeColumns
            DEF HoldsClaim, Exists
  <2>3. CASE ~MayMarkRendered(j, me.row.gen) /\ LoseFence(s) /\ UNCHANGED storeVars
    <3>1. /\ sub'[s].step = "adopt" /\ sub'[s].job = j
          /\ sub'[s].tenant = me.tenant /\ sub'[s].package = me.package
          /\ sub'[s].row = me.row
      BY <1>1, <2>3 DEF LoseFence, Goto, Submission
    <3>2. rows[j].gen > me.row.gen
      BY <1>1, <2>1, <2>3 DEF MayMarkRendered, Fenced
    <3> QED BY <1>1, <2>1, <2>3, <3>1, <3>2
            DEF HoldsClaim, Supersedes, storeVars, Exists
  <2>4. CASE LoseResult(s) /\ UNCHANGED storeVars
    BY <1>1, <2>1, <2>4, Answering
       DEF LoseResult, HoldsClaim, storeVars, Exists
  <2> QED BY <1>7, <2>2, <2>3, <2>4 DEF RecordRender, Faulty
<1>8. CASE Adopt(s)
  <2>1. me.step = "adopt" /\ UNCHANGED storeVars
    BY <1>8 DEF Adopt, Faulty
  <2>2. CASE AnswerJob(s, rows[j], AdoptedBytes(rows[j], me.bytes))
    BY <1>1, <2>1, <2>2, Answering
       DEF AdoptedBytes, HoldsClaim, storeVars, Exists
  <2>3. CASE AnswerError(s, "internal_error")
    BY <1>1, <2>1, <2>3, Answering DEF HoldsClaim
  <2> QED BY <1>8, <2>2, <2>3 DEF Adopt
<1>9. CASE RecordFailure(s)
  <2>1. me.step = "fail" /\ held' = held /\ me.failure \in Categories
    BY <1>1, <1>9 DEF RecordFailure, limiterVars, TypeInv, Equipped
  <2>2. CASE MarkFailed(j, me.row.gen, me.failure) /\ AnswerError(s, me.answer)
    <3>1. rows'[j] = FailedRow(rows[j], me.failure)
      BY <1>1, <2>2 DEF MarkFailed, Write
    <3> QED BY <1>1, <2>1, <2>2, <3>1, Answering, OutcomeColumns
            DEF HoldsClaim, Exists
  <2>3. CASE /\ ~MayMarkFailed(j, me.row.gen) /\ UNCHANGED storeVars
             /\ Goto(s, [me EXCEPT !.step = "reread"])
    <3>1. /\ sub'[s].step = "reread" /\ sub'[s].job = j
          /\ sub'[s].tenant = me.tenant /\ sub'[s].package = me.package
          /\ sub'[s].row = me.row /\ sub'[s].answer = me.answer
      BY <1>1, <2>3 DEF Goto, Submission
    <3>2. s \in held => rows[j].gen > me.row.gen
      BY <1>1, <2>1, <2>3 DEF MayMarkFailed, Fenced, InFlight, HoldsClaim
    <3> QED BY <1>1, <2>1, <2>3, <3>1, <3>2
            DEF HoldsClaim, Supersedes, storeVars, Exists
  <2>4. CASE LoseFailure(s)
    BY <1>1, <2>1, <2>4, Answering DEF LoseFailure, HoldsClaim
  <2> QED BY <1>9, <2>2, <2>3, <2>4 DEF RecordFailure
<1>10. CASE Reread(s)
  <2>1. me.step = "reread" /\ UNCHANGED storeVars
    BY <1>10 DEF Reread, Faulty
  <2>2. CASE IsFailure(rows[j]) /\ AnswerError(s, me.answer)
    BY <1>1, <2>1, <2>2, Answering DEF IsFailure, HoldsClaim, storeVars
  <2>3. CASE AnswerJob(s, rows[j], NoDigest)
    BY <1>1, <2>1, <2>3, Answering DEF HoldsClaim, storeVars, Exists
  <2>4. CASE AnswerError(s, "internal_error")
    BY <1>1, <2>1, <2>4, Answering DEF HoldsClaim
  <2> QED BY <1>10, <2>2, <2>3, <2>4 DEF Reread
<1>11. ASSUME NEW state, SettleAs(s, state), UNCHANGED storeVars,
              me.step \in {"deliver", "await"}
       PROVE  Kept
  <2>1. /\ sub'[s].step = "file" /\ sub'[s].job = j
        /\ sub'[s].tenant = me.tenant /\ sub'[s].package = me.package
        /\ sub'[s].row = me.row /\ sub'[s].bytes = me.bytes
    BY <1>1, <1>11 DEF SettleAs, Goto, Submission
  <2> QED BY <1>1, <1>11, <2>1 DEF HoldsClaim, storeVars, Exists
<1>12. CASE Deliver(s)
  <2>1. me.step = "deliver" /\ UNCHANGED storeVars
    BY <1>12 DEF Deliver
  <2>2. CASE AnswerJob(s, me.row, me.bytes)
    BY <1>1, <2>1, <2>2, Answering DEF HoldsClaim, storeVars, Exists
  <2>3. CASE Goto(s, [me EXCEPT !.step = "await"])
    <3>1. /\ sub'[s].step = "await" /\ sub'[s].job = j
          /\ sub'[s].tenant = me.tenant /\ sub'[s].package = me.package
          /\ sub'[s].row = me.row /\ sub'[s].bytes = me.bytes
      BY <1>1, <2>3 DEF Goto, Submission
    <3> QED BY <1>1, <2>1, <3>1 DEF HoldsClaim, storeVars, Exists
  <2> QED BY <1>11, <1>12, <2>1, <2>2, <2>3 DEF Deliver
<1>13. CASE Settle(s)
  BY <1>11, <1>13 DEF Settle
<1>14. CASE FileOutcome(s)
  <2>1. me.step = "file"
    BY <1>14 DEF FileOutcome
  <2>2. CASE RecordArchiveOutcome(j, me.row.gen, me.custody)
             /\ AnswerJob(s, rows'[j], me.bytes)
    <3>1. rows'[j] = [rows[j] EXCEPT !.archive = me.custody]
      BY <1>1, <2>2 DEF RecordArchiveOutcome, Write
    <3>2. /\ rows'[j].status = rows[j].status /\ rows'[j].sha = rows[j].sha
          /\ rows'[j].tenant = rows[j].tenant
          /\ rows'[j].package = rows[j].package
      BY <1>1, <3>1 DEF Row
    <3> QED BY <1>1, <2>1, <2>2, <3>2, Answering DEF HoldsClaim, Exists
  <2>3. CASE AnswerJob(s, me.row, me.bytes) /\ UNCHANGED storeVars
    BY <1>1, <2>1, <2>3, Answering DEF HoldsClaim, storeVars, Exists
  <2> QED BY <1>14, <2>2, <2>3 DEF FileOutcome
<1>15. CASE Return(s)
  <2>1. sub'[s].step = "idle"
    BY <1>1, <1>15 DEF Return, Goto, Idle
  <2> QED BY <1>1, <2>1 DEF HoldsClaim
<1> QED
  BY <1>2, <1>3, <1>4, <1>5, <1>6, <1>7, <1>8, <1>9, <1>10, <1>12, <1>13,
     <1>14, <1>15 DEF Proceed

-----------------------------------------------------------------------------
(* The invariant is kept *)

\* A call that holds a claim after its step held that claim before, or has
\* just taken a later one than anybody has.
LEMMA ClaimSteps ==
    ASSUME CallInv, NEW s \in Submissions, Resubmit(s) \/ Proceed(s),
           HoldsClaim(s)'
    PROVE  /\ sub'[s].job = sub[s].job
           /\ \/ HoldsClaim(s) /\ sub'[s].row = sub[s].row
              \/ sub'[s].row.gen = rows[sub[s].job].gen + 1
<1> DEFINE me == sub[s]
           j == sub[s].job
<1>1. /\ TypeInv /\ SlotsMatchCalls
      /\ sub \in [Submissions -> Submission]
      /\ me \in Submission /\ j \in Jobs /\ rows \in [Jobs -> Row]
      /\ rows[j] \in Row /\ rows[j].gen \in Nat
  BY DEF CallInv, TypeInv, TypeOK, StoreTypeOK, Submission, Row
<1>2. sub'[s].step \in {"render", "record", "fail"} /\ s \in held'
  BY DEF HoldsClaim
<1>3. CASE Resubmit(s)
  BY <1>1, <1>2, <1>3, Submitting DEF Resubmit
<1>4. CASE RefuseAdmission(s)
  BY <1>1, <1>2, <1>4 DEF RefuseAdmission, SlotsMatchCalls, limiterVars
<1>5. CASE Claim(s)
  <2>1. CASE ClaimForRendering(j, me.observed)
             /\ Goto(s, [me EXCEPT !.step = "render", !.row = rows'[j],
                                   !.observed = 0])
    <3>1. sub'[s].job = j /\ sub'[s].row = rows'[j]
      BY <1>1, <2>1 DEF Goto, Submission
    <3>2. rows'[j] = [rows[j] EXCEPT !.status = "rendering", !.gen = @ + 1]
      BY <1>1, <2>1 DEF ClaimForRendering, Write
    <3> QED BY <1>1, <3>1, <3>2 DEF Row
  <2>2. CASE AnswerJob(s, me.row, NoDigest) \/ AnswerError(s, "internal_error")
    BY <1>1, <1>2, <2>2, Answering
  <2> QED BY <1>5, <2>1, <2>2 DEF Claim
<1>6. CASE Render(s)
  <2>1. me.step = "render" /\ HoldsClaim(s)
    BY <1>1, <1>6 DEF Render, SlotsMatchCalls, HoldsClaim
  <2>2. ASSUME NEW sha, Goto(s, [me EXCEPT !.step = "record", !.bytes = sha])
        PROVE  sub'[s].job = j /\ sub'[s].row = me.row
    BY <1>1, <2>2 DEF Goto, Submission
  <2> QED BY ZenonT(30), <1>1, <1>6, <2>1, <2>2, Answering DEF Render
<1>7. CASE RecordRender(s)
  <2>1. me.step = "record" /\ HoldsClaim(s)
    BY <1>1, <1>7 DEF RecordRender, SlotsMatchCalls, HoldsClaim
  <2>2. CASE Goto(s, [me EXCEPT !.step = "deliver", !.row = rows'[j]])
    BY <1>1, <1>2, <2>2 DEF Goto, Submission
  <2>3. CASE LoseFence(s)
    BY <1>1, <1>2, <2>3 DEF LoseFence, Goto, Submission
  <2>4. CASE LoseResult(s)
    BY <1>1, <2>1, <2>4, Answering DEF LoseResult
  <2> QED BY <1>7, <2>2, <2>3, <2>4 DEF RecordRender
<1>8. CASE \/ TakeSlot(s) \/ Adopt(s) \/ RecordFailure(s) \/ Reread(s)
           \/ Deliver(s) \/ Settle(s) \/ FileOutcome(s) \/ Return(s)
  <2>1. /\ \A row, bytes : ~AnswerJob(s, row, bytes)
        /\ \A error : ~AnswerError(s, error)
    BY <1>1, <1>2, Answering
  <2>2. ASSUME NEW state, SettleAs(s, state)
        PROVE  FALSE
    BY <1>1, <1>2, <2>2 DEF SettleAs, Goto, Submission
  <2>3. ASSUME NEW step \in {"claim", "reread", "await"}, NEW at,
               \/ Goto(s, [me EXCEPT !.step = step])
               \/ Goto(s, [me EXCEPT !.step = step, !.observed = at])
        PROVE  FALSE
    BY ZenonT(30), <1>1, <1>2, <2>3 DEF Goto, Submission
  <2>4. ~Goto(s, Idle)
    BY <1>1, <1>2 DEF Goto, Idle
  <2>5. ~TakeSlot(s) /\ ~RecordFailure(s) /\ ~Deliver(s)
    BY <2>1, <2>2, <2>3 DEF TakeSlot, RecordFailure, LoseFailure, Deliver
  <2>6. ~Adopt(s) /\ ~Reread(s) /\ ~Settle(s) /\ ~FileOutcome(s) /\ ~Return(s)
    BY <2>1, <2>2, <2>4 DEF Adopt, Reread, Settle, FileOutcome, Return
  <2> QED BY <1>8, <2>5, <2>6
<1> QED
  BY <1>3, <1>4, <1>5, <1>6, <1>7, <1>8 DEF Proceed

\* Claims stay apart.
LEMMA CallsKeepClaimsApart ==
    ASSUME CallInv, NEW v \in Submissions, Resubmit(v) \/ Proceed(v)
    PROVE  ExclusiveClaim'
<1>1. SUFFICES ASSUME NEW s \in Submissions, NEW u \in Submissions, s # u,
                      HoldsClaim(s)', HoldsClaim(u)',
                      sub'[s].job = sub'[u].job, u # v
               PROVE  sub'[s].row.gen # sub'[u].row.gen
  BY DEF ExclusiveClaim
<1>2. /\ sub'[u] = sub[u] /\ HoldsClaim(u)
  BY <1>1, CallSteps DEF CallInv, HoldsClaim, limiterVars, Acquire, Release
<1>3. CASE s # v
  <2>1. sub'[s] = sub[s] /\ HoldsClaim(s)
    BY <1>1, <1>3, CallSteps
       DEF CallInv, HoldsClaim, limiterVars, Acquire, Release
  <2> QED BY <1>1, <1>2, <2>1 DEF CallInv, ExclusiveClaim
<1>4. CASE s = v
  <2>1. /\ sub'[s].job = sub[s].job
        /\ \/ HoldsClaim(s) /\ sub'[s].row = sub[s].row
           \/ sub'[s].row.gen = rows[sub[s].job].gen + 1
    BY <1>1, <1>4, ClaimSteps
  <2>2. /\ sub[u].row.gen <= rows[sub[u].job].gen
        /\ sub[u].row.gen \in Nat /\ rows[sub[u].job].gen \in Nat
    BY <1>2 DEF CallInv, Claimed, TypeInv, TypeOK, StoreTypeOK, Submission, Row
  <2> QED BY <1>1, <1>2, <2>1, <2>2 DEF CallInv, ExclusiveClaim
<1> QED BY <1>3, <1>4

\* What is in custody, or on its way, stays the artifact: rows only go on,
\* and what a call delivers is the artifact it recorded.
LEMMA NextKeepsCustody ==
    ASSUME CallInv, [Next]_vars
    PROVE  CustodyIsTheArtifact'
<1>1. ASSUME NEW d \in wire \cup documents
      PROVE  /\ rows'[d.job].status = "rendered"
             /\ rows'[d.job].sha = d.sha
             /\ rows'[d.job].tenant = d.tenant
  <2>1. d.job \in Jobs
    BY DEF CallInv, TypeInv, TypeOK
  <2> QED
    BY <2>1, TableGoesOn DEF CallInv, CustodyIsTheArtifact, Exists, Terminal
<1>2. ASSUME wire' \cup documents' \subseteq wire \cup documents
      PROVE  CustodyIsTheArtifact'
  BY <1>1, <1>2 DEF CustodyIsTheArtifact
<1>3. ASSUME NEW s \in Submissions, Resubmit(s) \/ Proceed(s)
      PROVE  CustodyIsTheArtifact'
  <2>1. CASE Deliver(s)
    <3>1. /\ wire' \subseteq wire \cup {Document(sub[s])}
          /\ documents' = documents /\ rows' = rows
      BY <2>1 DEF Deliver, storeVars
    <3>2. /\ rows[sub[s].job].status = "rendered"
          /\ rows[sub[s].job].sha = sub[s].bytes
          /\ rows[sub[s].job].tenant = sub[s].row.tenant
      BY <2>1 DEF Deliver, CallInv, Recorded, Owned
    <3> QED
      BY <3>1, <3>2 DEF CallInv, CustodyIsTheArtifact, Document
  <2>2. CASE ~Deliver(s)
    BY ZenonT(30), <1>2, <1>3, <2>2
       DEF Resubmit, Submit, Proceed, RefuseAdmission, TakeSlot, Claim, Render,
           RecordRender, Adopt, RecordFailure, Reread, Settle, FileOutcome,
           Return, outside
  <2> QED BY <2>1, <2>2
<1>4. CASE \E d \in wire : Archive(d)
  BY <1>2, <1>4 DEF Archive
<1>5. CASE Crash \/ BeginShutdown \/ DrainStep \/ Exit \/ TickClock
           \/ UNCHANGED vars
  BY <1>2, <1>5
     DEF Crash, BeginShutdown, DrainStep, Exit, ProcessEnds, TickClock,
         outside, vars
<1> QED BY <1>3, <1>4, <1>5 DEF Next

\* A row comes from an intake that let its tenant send its package, and
\* keeps both; a call only ever writes the row of a job that exists.
LEMMA NextKeepsScope ==
    ASSUME CallInv, [Next]_vars
    PROVE  RowsInScope'
<1>1. SUFFICES ASSUME NEW j \in Jobs, rows'[j].tenant \in Tenants
               PROVE  InScope(rows'[j].tenant, rows'[j].package)
  BY DEF RowsInScope
<1>2. rows \in [Jobs -> Row]
  BY DEF CallInv, TypeInv, TypeOK, StoreTypeOK
<1>3. CASE Exists(j)
  <2>1. rows'[j].tenant = rows[j].tenant /\ rows'[j].package = rows[j].package
    BY <1>3, TableGoesOn DEF CallInv
  <2> QED BY <1>1, <1>3, <2>1 DEF CallInv, RowsInScope
<1>4. CASE rows'[j] = rows[j]
  BY <1>1, <1>4 DEF CallInv, RowsInScope
<1>5. CASE ~Exists(j) /\ rows'[j] # rows[j]
  <2>1. ~Exists(j) /\ rows'[j] # rows[j]
    BY <1>5
  <2>2. ASSUME NEW v \in Submissions, Resubmit(v)
        PROVE  InScope(rows'[j].tenant, rows'[j].package)
    <3>1. PICK i \in Jobs, t \in Tenants, p \in Packages : Submit(v, i, t, p)
      BY <2>2 DEF Resubmit
    <3>2. Create(i, t, p) /\ InScope(t, p)
      BY <2>1, <3>1 DEF Submit, Faulty, storeVars
    <3>3. rows'[j] = AcceptedRow(t, p)
      BY <1>2, <2>1, <3>2 DEF Create, Write
    <3> QED BY <3>2, <3>3, AcceptedColumns
  <2>3. ASSUME NEW v \in Submissions, Proceed(v)
        PROVE  FALSE
    <3>1. ASSUME NEW k \in Jobs, NEW row, NEW at, Write(k, row, at), Exists(k)
          PROVE  FALSE
      BY <1>2, <2>1, <3>1 DEF Write
    <3>2. sub[v].job \in Jobs /\ ~UNCHANGED storeVars
      BY <2>1 DEF CallInv, TypeInv, TypeOK, Submission, storeVars
    <3>3. sub[v].step \in {"claim", "record", "fail", "file"} =>
             Exists(sub[v].job)
      BY DEF CallInv, Owned
    <3>4. ~Claim(v)
      BY <3>1, <3>2, <3>3 DEF Claim, Faulty, ClaimForRendering
    <3>5. ~RecordRender(v)
      BY <3>1, <3>2, <3>3 DEF RecordRender, Faulty, MarkRendered
    <3>6. ~RecordFailure(v)
      BY <3>1, <3>2, <3>3 DEF RecordFailure, Faulty, MarkFailed
    <3>7. ~FileOutcome(v)
      BY <3>1, <3>2, <3>3 DEF FileOutcome, RecordArchiveOutcome
    <3>8. /\ ~RefuseAdmission(v) /\ ~TakeSlot(v) /\ ~Render(v) /\ ~Adopt(v)
          /\ ~Reread(v) /\ ~Deliver(v) /\ ~Settle(v) /\ ~Return(v)
      BY <3>2 DEF RefuseAdmission, TakeSlot, Render, Adopt, Reread, Deliver,
                  Settle, Return, Faulty
    <3> QED BY <2>3, <3>4, <3>5, <3>6, <3>7, <3>8 DEF Proceed
  <2>4. ASSUME \/ Crash \/ BeginShutdown \/ DrainStep \/ Exit \/ TickClock
               \/ UNCHANGED vars \/ \E d \in wire : Archive(d)
        PROVE  FALSE
    BY <2>1, <2>4 DEF Crash, BeginShutdown, DrainStep, Exit, ProcessEnds,
                      TickClock, Tick, Archive, vars, storeVars
  <2> QED BY <2>2, <2>3, <2>4 DEF Next
<1> QED BY <1>3, <1>4, <1>5

\* What every call relies on survives every step.
LEMMA NextKeepsCallInv ==
    ASSUME CallInv, [Next]_vars
    PROVE  CallInv'
<1>1. LimiterInv' /\ SlotsMatchCalls'
  BY NextKeepsSlots DEF CallInv
<1>2. TypeInv'
  BY <1>1, NextKeepsTypes DEF CallInv, LimiterInv
<1>3. CustodyIsTheArtifact' /\ RowsInScope'
  BY NextKeepsCustody, NextKeepsScope
<1>4. ASSUME NEW v \in Submissions, Resubmit(v) \/ Proceed(v)
      PROVE  CallInv'
  <2>1. ASSUME NEW s \in Submissions, s # v
        PROVE  (Owned(s) /\ Screened(s) /\ Claimed(s) /\ Recorded(s) /\ Told(s))'
    <3>1. sub'[s] = sub[s] /\ (s \in held <=> s \in held')
      BY <1>4, <2>1, CallSteps DEF CallInv, limiterVars, Acquire, Release
    <3> QED BY <1>4, <2>1, <3>1, ClaimsAreRespected, StandingStill
  <2>2. \A s \in Submissions :
           (Owned(s) /\ Screened(s) /\ Claimed(s) /\ Recorded(s) /\ Told(s))'
    BY <1>4, <2>1, SteppingOn
  <2> QED
    BY <1>1, <1>2, <1>3, <1>4, <2>2, CallsKeepClaimsApart DEF CallInv
<1>5. ASSUME UNCHANGED <<rows, sub, held>>
      PROVE  CallInv'
  <2>1. ExclusiveClaim'
    BY <1>5 DEF CallInv, ExclusiveClaim, HoldsClaim
  <2> QED BY <1>1, <1>2, <1>3, <1>5, <2>1, StandingStill DEF CallInv
<1>6. CASE Crash \/ Exit
  <2>1. sub' = [s \in Submissions |-> Idle] /\ held' = {}
    BY <1>6 DEF Crash, Exit, ProcessEnds
  <2>2. \A s \in Submissions :
           (Owned(s) /\ Screened(s) /\ Claimed(s) /\ Recorded(s) /\ Told(s))'
    BY <2>1
       DEF Owned, Screened, Claimed, Recorded, Told, HoldsClaim, Idle
  <2>3. ExclusiveClaim'
    BY <2>1 DEF ExclusiveClaim, HoldsClaim
  <2> QED BY <1>1, <1>2, <1>3, <2>2, <2>3 DEF CallInv
<1>7. CASE BeginShutdown \/ TickClock \/ (\E d \in wire : Archive(d))
           \/ UNCHANGED vars
  BY <1>5, <1>7
     DEF BeginShutdown, StartDrain, TickClock, Tick, Archive, vars, storeVars,
         limiterVars
<1>8. CASE DrainStep
  BY <1>5, <1>8
     DEF DrainStep, Drain, DrainSlot, DrainComplete, DrainTimeout, storeVars
<1> QED BY <1>4, <1>6, <1>7, <1>8 DEF Next

\* It holds at first: nobody has called.
LEMMA CallsStart == Init => CallInv
<1> SUFFICES ASSUME Init PROVE CallInv
  OBVIOUS
<1>1. TypeInv /\ LimiterInv
  BY TypesStart, LimiterStarts DEF Init
<1>2. held = {} /\ wire = {} /\ documents = {}
      /\ sub = [s \in Submissions |-> Idle]
  BY DEF Init, LimiterInit
<1>3. SlotsMatchCalls /\ ExclusiveClaim /\ CustodyIsTheArtifact
  BY <1>2 DEF SlotsMatchCalls, ExclusiveClaim, HoldsClaim,
              CustodyIsTheArtifact, Idle
<1>4. \A s \in Submissions :
         Owned(s) /\ Screened(s) /\ Claimed(s) /\ Recorded(s) /\ Told(s)
  BY <1>2 DEF Owned, Screened, Claimed, Recorded, Told, HoldsClaim, Idle
<1>5. RowsInScope
  <2>1. \A j \in Jobs : rows[j] = AbsentRow \/ rows[j] \in LegacyRows
    BY DEF Init, StoreInit
  <2> QED BY <2>1, LegacyRowsExist, SentinelAssumption
          DEF RowsInScope, AbsentRow
<1> QED BY <1>1, <1>3, <1>4, <1>5 DEF CallInv

-----------------------------------------------------------------------------
(* The theorems *)

\* The invariant of every reachable state, with all its calls, crashes,
\* takeovers and late deliveries (render_submission.py:101-504).
THEOREM CallInvariant == Spec => []CallInv
BY CallsStart, NextKeepsCallInv, PTL DEF Spec

\* Every variable holds what the code can put there.
THEOREM LifecycleTyped == Spec => []TypeOK
<1>1. CallInv => TypeOK
  BY DEF CallInv, TypeInv
<1> QED BY <1>1, CallInvariant, PTL

\* A claim of a job has one holder, whoever stalls, takes over or returns
\* (render_store.py:279-333).
THEOREM ClaimsAreExclusive == Spec => []ExclusiveClaim
<1>1. CallInv => ExclusiveClaim
  BY DEF CallInv
<1> QED BY <1>1, CallInvariant, PTL

\* A finished render, or the failure of one, is set aside only for a later
\* claim (render_submission.py:283-327, 350-375).
THEOREM FenceIsLostOnlyToTakeover == Spec => []FenceLostOnlyToTakeover
<1>1. CallInv => FenceLostOnlyToTakeover
  BY DEF CallInv, Claimed, FenceLostOnlyToTakeover
<1> QED BY <1>1, CallInvariant, PTL

\* Bytes in an answer are the artifact of the row in the answer and of the
\* row in the store (render_submission.py:324-348).
THEOREM AnsweredBytesAreTheArtifact == Spec => []AnswerBytesAreTheArtifact
<1>1. CallInv => AnswerBytesAreTheArtifact
  BY DEF CallInv, Recorded, AnswerBytesAreTheArtifact
<1> QED BY <1>1, CallInvariant, PTL

\* Nobody is told that a render failed unless its job failed, and nobody is
\* turned away for the tenant a package names who has a job with that package
\* (render_submission.py:101-104, 350-385, 475-492).
THEOREM ToldFailuresAreTrue == Spec => []FailureAnswersAreTrue
<1>1. ASSUME CallInv, NEW s \in Submissions, sub[s].step = "return"
      PROVE  /\ sub[s].answer \in {"package_invalid", "execution_failed"} =>
                   rows[sub[s].job].status = "failed"
             /\ sub[s].answer \in {"tenant_contradiction",
                                  "scope_contradiction"} =>
                   \A j \in Jobs : rows[j].tenant = sub[s].tenant =>
                                    rows[j].package # sub[s].package
  <2>1. /\ sub[s].answer \in FailureAnswers =>
              rows[sub[s].job].status = "failed"
        /\ sub[s].answer \in TenantRefusals =>
              ~InScope(sub[s].tenant, sub[s].package)
    BY <1>1 DEF CallInv, Told
  <2>2. sub[s].tenant \in Tenants /\ sub[s].package \in Packages
    BY <1>1 DEF CallInv, TypeInv, TypeOK, Submission
  <2>3. ASSUME NEW j \in Jobs, rows[j].tenant = sub[s].tenant,
               rows[j].package = sub[s].package
        PROVE  InScope(sub[s].tenant, sub[s].package)
    BY <1>1, <2>2, <2>3 DEF CallInv, RowsInScope
  <2> QED BY <2>1, <2>3 DEF FailureAnswers, TenantRefusals
<1>2. CallInv => FailureAnswersAreTrue
  BY <1>1 DEF FailureAnswersAreTrue
<1> QED BY <1>2, CallInvariant, PTL

\* A job is shown to its own tenant only, though rereads are not scoped
\* (render_submission.py:329-348, 475-492).
THEOREM AnswersKeepToTheTenant == Spec => []AnswersStayInTenant
<1>1. CallInv => AnswersStayInTenant
  BY DEF CallInv, Owned, AnswersStayInTenant
<1> QED BY <1>1, CallInvariant, PTL

\* Archive holds, and can still receive, nothing of a job but its artifact,
\* filed for its owner (render_submission.py:292-323).
THEOREM CustodyHoldsTheArtifact == Spec => []CustodyIsTheArtifact
<1>1. CallInv => CustodyIsTheArtifact
  BY DEF CallInv
<1> QED BY <1>1, CallInvariant, PTL

\* Every path out of a call gives its slot back, and none gives it back early
\* (render_submission.py:209-214).
THEOREM SlotsFollowCalls == Spec => []SlotsMatchCalls
<1>1. CallInv => SlotsMatchCalls
  BY DEF CallInv
<1> QED BY <1>1, CallInvariant, PTL

\* A drain that completed leaves no claim and no delivery in the process
\* (main.py:100-122).
THEOREM DrainsStrandNothing == Spec => []DrainedStrandsNothing
<1>1. CallInv => DrainedStrandsNothing
  BY InvMeansQuiet
     DEF CallInv, DrainedMeansQuiet, SlotsMatchCalls, HoldsClaim,
         DrainedStrandsNothing
<1> QED BY <1>1, CallInvariant, PTL

\* The service uses the store as RenderStore says a caller may, so all that
\* is proved of StoreSpec holds of the service (render_submission.py:101-504,
\* render_store.py:182-529).
THEOREM LifecycleUsesTheStore == Spec => StoreSpec
<1>1. Init => StoreInit
  BY DEF Init
<1>2. CallInv /\ [Next]_vars => [StoreNext]_storeVars
  BY NextIsStoreStep DEF CallInv
<1> QED BY <1>1, <1>2, CallInvariant, PTL DEF Spec, StoreSpec

-----------------------------------------------------------------------------
(* The refinement.  It is in two halves: a step of the store opens a job,  *)
(* decides it, or shows through the mapping as nothing at all; only        *)
(* Archive's commit moves custody, and then CallInv says what it deposits. *)

\* A job that exists was created for a package.
Filled == \A j \in Jobs : Exists(j) => rows[j].package \in Packages

\* What a submission created, and what an earlier release left, has one.
LEMMA FilledStarts ==
    ASSUME StoreInit
    PROVE  Filled
<1> SUFFICES ASSUME NEW j \in Jobs, Exists(j) PROVE rows[j].package \in Packages
  BY DEF Filled
<1>1. rows[j] \in LegacyRows
  BY DEF StoreInit, Exists, AbsentRow
<1> QED BY <1>1, LegacyRowsAgree

\* Only creation gives a job its package.
LEMMA FilledStays ==
    ASSUME StoreTypeOK, Filled, [StoreNext]_storeVars
    PROVE  Filled'
<1> SUFFICES ASSUME NEW i \in Jobs, Exists(i)' PROVE rows'[i].package \in Packages
  BY DEF Filled
<1>1. CASE Exists(i)
  BY <1>1, StepKeepsOwner DEF Filled
<1>2. CASE ~Exists(i)
  <2>1. ASSUME NEW j \in Jobs, NEW row, NEW at, Write(j, row, at), j # i
        PROVE  FALSE
    BY <1>2, <2>1 DEF Write, StoreTypeOK, Exists
  <2>2. CASE UNCHANGED storeVars \/ Tick
    BY <1>2, <2>2 DEF storeVars, Tick, Exists
  <2>3. ASSUME NEW t \in Tenants, NEW p \in Packages, Create(i, t, p)
        PROVE  rows'[i].package \in Packages
    <3>1. rows'[i] = AcceptedRow(t, p)
      BY <2>3 DEF Create, Write, StoreTypeOK
    <3> QED BY <3>1, AcceptedColumns
  <2>4. /\ \A at : ~ClaimForRendering(i, at)
        /\ \A gen, sha : ~MarkRendered(i, gen, sha)
        /\ \A gen, c : ~MarkFailed(i, gen, c)
        /\ \A gen, a : ~RecordArchiveOutcome(i, gen, a)
    BY <1>2
       DEF ClaimForRendering, Claimable, MarkRendered, MayMarkRendered,
           MarkFailed, MayMarkFailed, Fenced, InFlight, RecordArchiveOutcome,
           MayRecordArchive, Exists
  <2> QED
    BY <2>1, <2>2, <2>3, <2>4, StoreSteps
       DEF Create, ClaimForRendering, MarkRendered, MarkFailed,
           RecordArchiveOutcome
<1> QED BY <1>1, <1>2

-----------------------------------------------------------------------------
(* The refinement *)

\* A job through the mapping: whom it is for, and what it came to.
LEMMA Mapping ==
    ASSUME StoreTypeOK, ColumnsAgree, Filled, NEW j \in Jobs
    PROVE  /\ Owner(j) = {} <=> ~Exists(j)
           /\ Exists(j) =>
                 /\ Owner(j) = {<<rows[j].tenant, rows[j].package>>}
                 /\ <<rows[j].tenant, rows[j].package>>
                       \in (Tenants \cup {NoTenant}) \X Packages
           /\ Result(j) = {} <=> rows[j].status \notin Terminal
           /\ rows[j].status = "rendered" =>
                 /\ Result(j) = {<<"rendered", rows[j].sha>>}
                 /\ rows[j].sha \in Digests
           /\ rows[j].status = "failed" =>
                 /\ Result(j) = {<<"failed", rows[j].failure>>}
                 /\ rows[j].failure \in Categories
BY DEF StoreTypeOK, ColumnsAgree, Filled, Row, Owner, Result, Exists, Terminal

\* The jobs a deployment starts with are open or decided, never half of each.
LEMMA OutcomeStarts == Init => Outcome!OutcomeInit
<1> SUFFICES ASSUME Init PROVE Outcome!OutcomeInit
  OBVIOUS
<1>1. StoreTypeOK /\ ColumnsAgree /\ Filled
  BY StoreStarts, FilledStarts DEF Init
<1>2. \A j \in Jobs :
         /\ Owner(j) \in {{}} \cup
               {{o} : o \in (Tenants \cup {NoTenant}) \X Packages}
         /\ Result(j) \in {{}} \cup {{r} : r \in Outcome!Results}
         /\ Owner(j) = {} => Result(j) = {}
  BY <1>1, Mapping DEF Outcome!Results, Exists, Terminal
<1> QED BY <1>2 DEF Init, Outcome!OutcomeInit

\* A step of the store opens one job, decides one, or changes neither.
LEMMA StoreStepsRefine ==
    ASSUME StoreTypeOK, ColumnsAgree, Filled, [StoreNext]_storeVars,
           UNCHANGED documents
    PROVE  [Outcome!OutcomeNext]_(Outcome!outcomeVars)
<1> USE DEF StoreTypeOK
<1>0. Filled' /\ StoreTypeOK' /\ ColumnsAgree'
  BY FilledStays, StoreStepKeepsInv
<1>1. ASSUME \A j \in Jobs : /\ rows'[j].status \in Terminal \/ rows[j].status \in Terminal
                                   => rows'[j].status = rows[j].status
                             /\ Exists(j)' <=> Exists(j)
                             /\ rows'[j].tenant = rows[j].tenant
                             /\ rows'[j].package = rows[j].package
                             /\ rows'[j].sha = rows[j].sha
                             /\ rows'[j].failure = rows[j].failure
      PROVE  UNCHANGED Outcome!outcomeVars
  <2>1. \A j \in Jobs : Owner(j)' = Owner(j)
    BY <1>1 DEF Owner
  <2>2. \A j \in Jobs : Result(j)' = Result(j)
    BY <1>1 DEF Result, Terminal
  <2> QED BY <2>1, <2>2 DEF Outcome!outcomeVars
<1>2. CASE UNCHANGED storeVars \/ Tick
  BY <1>1, <1>2 DEF storeVars, Tick, Exists
<1>3. ASSUME NEW j \in Jobs, NEW row \in Row, NEW at, Write(j, row, at)
      PROVE  /\ rows'[j] = row
             /\ \A i \in Jobs \ {j} : /\ rows'[i] = rows[i]
                                      /\ Owner(i)' = Owner(i)
                                      /\ Result(i)' = Result(i)
  <2>1. rows'[j] = row /\ \A i \in Jobs \ {j} : rows'[i] = rows[i]
    BY <1>3 DEF Write
  <2> QED BY <2>1 DEF Owner, Result, Exists
<1>4. ASSUME NEW j \in Jobs, NEW t \in Tenants, NEW p \in Packages,
             Create(j, t, p)
      PROVE  Outcome!OutcomeNext
  <2>1. Write(j, AcceptedRow(t, p), now) /\ AcceptedRow(t, p) \in Row
    BY <1>4, NewRowsAreRows DEF Create
  <2>2. ~Exists(j) /\ rows'[j] = AcceptedRow(t, p)
    BY <1>3, <1>4, <2>1 DEF Create
  <2>3. /\ Owner(j) = {} /\ Owner(j)' = {<<t, p>>}
        /\ Result(j) = {} /\ Result(j)' = {}
    BY <2>2, AcceptedColumns DEF Owner, Result, Exists
  <2>4. Outcome!Open(j, <<t, p>>)
    <3>1. \A i \in Jobs : /\ Owner(i)' = IF i = j THEN {<<t, p>>} ELSE Owner(i)
                          /\ Result(i)' = Result(i)
      BY <1>3, <2>1, <2>3
    <3> QED BY <2>3, <3>1 DEF Outcome!Open
  <2> QED BY <2>4 DEF Outcome!OutcomeNext
<1>5. ASSUME NEW j \in Jobs, NEW at, ClaimForRendering(j, at)
      PROVE  UNCHANGED Outcome!outcomeVars
  <2> DEFINE row == [rows[j] EXCEPT !.status = "rendering", !.gen = @ + 1]
  <2>0. rows[j] \in Row /\ rows[j].gen + 1 \in Nat
    BY DEF Row
  <2>1. /\ row \in Row /\ row.status = "rendering"
        /\ row.tenant = rows[j].tenant /\ row.package = rows[j].package
        /\ row.sha = rows[j].sha /\ row.failure = rows[j].failure
    BY <2>0 DEF Row, InFlight
  <2>2. rows[j].status \in InFlight /\ Write(j, row, at)
    BY <1>5 DEF ClaimForRendering, Claimable, InFlight
  <2> HIDE DEF row
  <2>3. rows'[j] = row /\ \A i \in Jobs \ {j} : rows'[i] = rows[i]
    BY <1>3, <2>1, <2>2
  <2> QED BY <1>1, <2>1, <2>2, <2>3 DEF InFlight, Terminal, Exists
<1>6. ASSUME NEW j \in Jobs, NEW row \in Row, NEW at, NEW r \in Outcome!Results,
             Write(j, row, at), Exists(j), rows[j].status \notin Terminal,
             row.tenant = rows[j].tenant, row.package = rows[j].package,
             row.status \in Terminal, Result(j)' = {r}
      PROVE  Outcome!OutcomeNext
  <2>1. rows'[j] = row /\ Owner(j)' = Owner(j) /\ Owner(j) # {} /\ Result(j) = {}
    BY <1>3, <1>6, Mapping DEF Owner, Exists, Terminal
  <2>2. \A i \in Jobs : /\ Owner(i)' = Owner(i)
                        /\ Result(i)' = IF i = j THEN {r} ELSE Result(i)
    BY <1>3, <1>6, <2>1
  <2>3. Outcome!Decide(j, r)
    BY <2>1, <2>2 DEF Outcome!Decide
  <2> QED BY <2>3 DEF Outcome!OutcomeNext
<1>7. ASSUME NEW j \in Jobs, NEW sha \in Digests, NEW gen,
             MarkRendered(j, gen, sha)
      PROVE  Outcome!OutcomeNext
  <2>1. /\ Write(j, RenderedRow(rows[j], sha), now)
        /\ rows[j].status = "rendering"
    BY <1>7 DEF MarkRendered, MayMarkRendered, Fenced
  <2>2. rows'[j] = RenderedRow(rows[j], sha) /\ RenderedRow(rows[j], sha) \in Row
    BY <1>3, <2>1, OutcomeColumns
  <2>3. Result(j)' = {<<"rendered", sha>>}
    BY <2>2, OutcomeColumns DEF Result
  <2>4. <<"rendered", sha>> \in Outcome!Results
    BY DEF Outcome!Results
  <2> QED BY <1>6, <2>1, <2>2, <2>3, <2>4, OutcomeColumns DEF Terminal, Exists
<1>8. ASSUME NEW j \in Jobs, NEW c \in Categories, NEW gen,
             MarkFailed(j, gen, c)
      PROVE  Outcome!OutcomeNext
  <2>1. /\ Write(j, FailedRow(rows[j], c), now)
        /\ rows[j].status \in InFlight
    BY <1>8 DEF MarkFailed, MayMarkFailed, Fenced
  <2>2. rows'[j] = FailedRow(rows[j], c) /\ FailedRow(rows[j], c) \in Row
    BY <1>3, <2>1, OutcomeColumns
  <2>3. Result(j)' = {<<"failed", c>>}
    BY <2>2, OutcomeColumns DEF Result
  <2>4. <<"failed", c>> \in Outcome!Results
    BY DEF Outcome!Results
  <2> QED
    BY <1>6, <2>1, <2>2, <2>3, <2>4, OutcomeColumns DEF Terminal, InFlight, Exists
<1>9. ASSUME NEW j \in Jobs, NEW a \in ArchiveStates, NEW gen,
             RecordArchiveOutcome(j, gen, a)
      PROVE  UNCHANGED Outcome!outcomeVars
  <2> DEFINE row == [rows[j] EXCEPT !.archive = a]
  <2>1. /\ row \in Row /\ row.status = rows[j].status
        /\ row.tenant = rows[j].tenant /\ row.package = rows[j].package
        /\ row.sha = rows[j].sha /\ row.failure = rows[j].failure
    BY DEF Row
  <2>2. Write(j, row, now)
    BY <1>9 DEF RecordArchiveOutcome
  <2> HIDE DEF row
  <2>3. rows'[j] = row /\ \A i \in Jobs \ {j} : rows'[i] = rows[i]
    BY <1>3, <2>1, <2>2
  <2> QED BY <1>1, <2>1, <2>3 DEF Exists
<1> QED BY <1>2, <1>4, <1>5, <1>7, <1>8, <1>9, StoreSteps

\* Every step of the lifecycle opens, decides, deposits, or is none of it.
LEMMA NextRefines ==
    ASSUME CallInv, Filled, [Next]_vars
    PROVE  [Outcome!OutcomeNext]_(Outcome!outcomeVars)
<1>1. /\ StoreTypeOK /\ ColumnsAgree /\ [StoreNext]_storeVars
  BY NextIsStoreStep DEF CallInv, TypeInv, TypeOK
<1>2. CASE UNCHANGED documents
  BY <1>1, <1>2, StoreStepsRefine
<1>3. ASSUME NEW d \in wire, Archive(d)
      PROVE  Outcome!OutcomeNext
  <2>1. /\ d.job \in Jobs /\ d.sha \in Digests
        /\ d = [job |-> d.job, sha |-> d.sha, tenant |-> d.tenant]
    BY DEF CallInv, TypeInv, TypeOK
  <2>2. /\ rows[d.job].status = "rendered"
        /\ rows[d.job].sha = d.sha /\ rows[d.job].tenant = d.tenant
    BY DEF CallInv, CustodyIsTheArtifact
  <2> DEFINE o == <<d.tenant, rows[d.job].package>>
  <2>3. /\ Owner(d.job) = {o} /\ o \in (Tenants \cup {NoTenant}) \X Packages
        /\ Result(d.job) = {<<"rendered", d.sha>>} /\ o[1] = d.tenant
    BY <1>1, <2>1, <2>2, Mapping DEF Exists
  <2>4. /\ documents' = documents \cup {d} /\ rows' = rows
        /\ \A i \in Jobs : Owner(i)' = Owner(i) /\ Result(i)' = Result(i)
    BY <1>3 DEF Archive, storeVars, Owner, Result, Exists
  <2>5. Outcome!Deposit(d.job, o, d.sha)
    BY <2>1, <2>3, <2>4 DEF Outcome!Deposit
  <2> QED BY <2>1, <2>3, <2>5 DEF Outcome!OutcomeNext
<1>4. ASSUME NEW s \in Submissions, Resubmit(s) \/ Proceed(s)
      PROVE  UNCHANGED documents
  <2>1. Resubmit(s) \/ RefuseAdmission(s) \/ TakeSlot(s) \/ Claim(s) => UNCHANGED documents
    BY ZenonT(30) DEF Resubmit, Submit, RefuseAdmission, TakeSlot, Claim, outside
  <2>2. Render(s) \/ RecordRender(s) \/ Adopt(s) \/ RecordFailure(s)
           => UNCHANGED documents
    BY DEF Render, RecordRender, Adopt, RecordFailure, outside
  <2>3. Reread(s) \/ Deliver(s) \/ Settle(s) \/ FileOutcome(s) \/ Return(s)
           => UNCHANGED documents
    BY DEF Reread, Deliver, Settle, FileOutcome, Return, outside
  <2> QED BY <1>4, <2>1, <2>2, <2>3 DEF Proceed
<1>5. CASE Crash \/ BeginShutdown \/ DrainStep \/ Exit \/ TickClock
           \/ UNCHANGED vars
  BY <1>2, <1>5
     DEF Crash, BeginShutdown, DrainStep, Exit, ProcessEnds, TickClock,
         outside, vars
<1> QED BY <1>2, <1>3, <1>4, <1>5 DEF Next

\* Every job that ever exists has a package.
LEMMA AlwaysFilled == Spec => []Filled
<1>1. Init => Filled
  BY FilledStarts DEF Init
<1>2. CallInv /\ Filled /\ [Next]_vars => Filled'
  BY NextIsStoreStep, FilledStays DEF CallInv, TypeInv, TypeOK
<1> QED BY <1>1, <1>2, CallInvariant, PTL DEF Spec

\* Attempts, takeovers, crashes, retries and late deliveries implement the
\* write-once promise: a job is opened for one owner, decided once, and
\* nothing but what was decided is deposited (render_submission.py:101-504,
\* render_store.py:182-529, archive_handoff.py:334-441).
THEOREM LifecycleImplementsOutcome == Spec => ImplementsOutcome
<1>1. Init => Outcome!OutcomeInit
  BY OutcomeStarts
<1>2. CallInv /\ Filled /\ [Next]_vars =>
         [Outcome!OutcomeNext]_(Outcome!outcomeVars)
  BY NextRefines
<1> QED
  BY <1>1, <1>2, CallInvariant, AlwaysFilled, PTL
     DEF Spec, ImplementsOutcome, Outcome!OutcomeSpec

\* A job never has two documents in custody, however often it was rendered
\* and by however many attempts (render_submission.py:292-323).
THEOREM NoSecondDocument == Spec => []Outcome!OneDocumentPerJob
<1>1. CallInv => Outcome!OneDocumentPerJob
  <2> SUFFICES ASSUME CallInv, NEW d \in documents, NEW e \in documents,
                      d.job = e.job
               PROVE  d = e
    BY DEF Outcome!OneDocumentPerJob
  <2>1. /\ d = [job |-> d.job, sha |-> d.sha, tenant |-> d.tenant]
        /\ e = [job |-> e.job, sha |-> e.sha, tenant |-> e.tenant]
    BY DEF CallInv, TypeInv, TypeOK
  <2>2. d.sha = e.sha /\ d.tenant = e.tenant
    BY DEF CallInv, CustodyIsTheArtifact
  <2> QED BY <2>1, <2>2
<1> QED BY <1>1, CallInvariant, PTL

-----------------------------------------------------------------------------
(* Custody, from the render to the column *)

\* A call whose render is recorded and whose custody is not decided.
Delivering(s) == sub[s].step \in {"deliver", "await", "file"}

\* Archive holds a document of the job; or it neither holds nor can still
\* receive one.
Filed(j) == \E d \in documents : d.job = j
Unfiled(j) == \A d \in wire \cup documents : d.job # j

\* What a delivering call relies on: nobody has written the job's custody,
\* nothing of the job has left before it, and what it is about to record is so.
Filing(s) ==
    LET me == sub[s] IN
    /\ Delivering(s) => rows[me.job].archive = "none"
    /\ me.step = "deliver" => Unfiled(me.job)
    /\ me.step = "file" /\ me.custody = "archived_verified" => Filed(me.job)
    /\ me.step = "file" /\ me.custody = "archive_failed" => Unfiled(me.job)

\* The truth of the column needs more than itself: one delivery per job, and
\* no document both held and on the way.
CustodyInv ==
    /\ CustodyColumnIsTrue
    /\ wire \cap documents = {}
    /\ \A s, u \in Submissions :
          s # u /\ Delivering(s) /\ Delivering(u) => sub[s].job # sub[u].job
    /\ \A s \in Submissions : Filing(s)

\* A row's custody changes only where a call files what it learned; a row
\* that appears has none.
LEMMA CustodyColumnSteps ==
    ASSUME CallInv, NEW v \in Submissions, Resubmit(v) \/ Proceed(v),
           NEW j \in Jobs
    PROVE  \/ rows'[j].archive = rows[j].archive
           \/ rows'[j].archive = "none" /\ ~Exists(j)
           \/ FileOutcome(v) /\ sub[v].job = j
                /\ rows'[j].archive = sub[v].custody
<1> DEFINE i == sub[v].job
<1>1. /\ rows \in [Jobs -> Row] /\ i \in Jobs /\ rows[i] \in Row
  BY DEF CallInv, TypeInv, TypeOK, StoreTypeOK, Submission
<1>2. ASSUME NEW k \in Jobs, NEW row, NEW at, Write(k, row, at)
      PROVE  rows'[j] = IF j = k THEN row ELSE rows[j]
  BY <1>1, <1>2 DEF Write
<1>3. ASSUME UNCHANGED storeVars
      PROVE  rows'[j] = rows[j]
  BY <1>3 DEF storeVars
<1>4. CASE Resubmit(v)
  <2>1. PICK k \in Jobs, t \in Tenants, p \in Packages : Submit(v, k, t, p)
    BY <1>4 DEF Resubmit
  <2>2. UNCHANGED storeVars \/ Create(k, t, p)
    BY <2>1 DEF Submit, Faulty
  <2> QED BY <1>2, <1>3, <2>2, AcceptedColumns DEF Create
<1>5. ASSUME NEW row, NEW at, row.archive = rows[i].archive,
             UNCHANGED storeVars \/ Write(i, row, at)
      PROVE  rows'[j].archive = rows[j].archive
  BY <1>1, <1>2, <1>3, <1>5
<1>6. CASE Claim(v)
  <2> DEFINE row == [rows[i] EXCEPT !.status = "rendering", !.gen = @ + 1]
  <2>1. row.archive = rows[i].archive
    BY <1>1 DEF Row
  <2>2. UNCHANGED storeVars \/ Write(i, row, sub[v].observed)
    BY <1>6 DEF Claim, Faulty, ClaimForRendering
  <2> HIDE DEF row
  <2> QED BY <1>5, <2>1, <2>2
<1>7. CASE RecordRender(v)
  <2> DEFINE row == RenderedRow(rows[i], sub[v].bytes)
  <2>1. row.archive = rows[i].archive
    BY <1>1 DEF RenderedRow, Row
  <2>2. UNCHANGED storeVars \/ Write(i, row, now)
    BY <1>7 DEF RecordRender, Faulty, MarkRendered
  <2> HIDE DEF row
  <2> QED BY <1>5, <2>1, <2>2
<1>8. CASE RecordFailure(v)
  <2> DEFINE row == FailedRow(rows[i], sub[v].failure)
  <2>1. row.archive = rows[i].archive
    BY <1>1 DEF FailedRow, Row
  <2>2. UNCHANGED storeVars \/ Write(i, row, now)
    BY <1>8 DEF RecordFailure, Faulty, MarkFailed
  <2> HIDE DEF row
  <2> QED BY <1>5, <2>1, <2>2
<1>9. CASE FileOutcome(v)
  <2> DEFINE row == [rows[i] EXCEPT !.archive = sub[v].custody]
  <2>1. row.archive = sub[v].custody
    BY <1>1 DEF Row
  <2>2. UNCHANGED storeVars \/ Write(i, row, now)
    BY <1>9 DEF FileOutcome, RecordArchiveOutcome
  <2> HIDE DEF row
  <2>3. \/ rows'[j].archive = rows[j].archive
        \/ i = j /\ rows'[j].archive = sub[v].custody
    BY <1>1, <1>2, <1>3, <2>1, <2>2
  <2> QED BY <1>9, <2>3
<1>10. CASE \/ RefuseAdmission(v) \/ TakeSlot(v) \/ Render(v) \/ Adopt(v)
           \/ Reread(v) \/ Deliver(v) \/ Settle(v) \/ Return(v)
  BY <1>3, <1>10 DEF RefuseAdmission, TakeSlot, Render, Adopt, Reread,
                    Deliver, Settle, Return, Faulty
<1> QED BY <1>4, <1>6, <1>7, <1>8, <1>9, <1>10 DEF Proceed

\* How a call comes to deliver and what each step of a delivery moves: the
\* recorded render, the first byte, the settlement.
LEMMA DeliverySteps ==
    ASSUME CallInv, NEW v \in Submissions, Resubmit(v) \/ Proceed(v)
    PROVE  /\ documents' = documents
           /\ \/ ~Delivering(v)' /\ wire' = wire
              \/ /\ sub'[v].job = sub[v].job
                 /\ \/ /\ sub'[v].step = "deliver" /\ wire' = wire
                       /\ rows[sub[v].job].status = "rendering"
                       /\ rows'[sub[v].job].status = "rendered"
                    \/ /\ sub[v].step = "deliver" /\ rows' = rows
                       /\ sub'[v].step = "await"
                       /\ wire' = wire \cup {Document(sub[v])}
                    \/ /\ sub[v].step \in {"deliver", "await"} /\ rows' = rows
                       /\ sub'[v].step = "file" /\ wire' = wire
                       /\ sub'[v].custody = Unproven
                    \/ /\ sub[v].step = "deliver" /\ rows' = rows
                       /\ sub'[v].step = "file" /\ wire' = wire
                       /\ sub'[v].custody = "archive_failed"
                    \/ /\ sub[v].step = "await" /\ rows' = rows
                       /\ sub'[v].step = "file" /\ wire' = wire
                       /\ sub'[v].custody = "archived_verified"
                       /\ Document(sub[v]) \in documents
                    \/ /\ sub[v].step = "await" /\ rows' = rows
                       /\ sub'[v].step = "file"
                       /\ sub'[v].custody = "archive_failed"
                       /\ Document(sub[v]) \in wire
                       /\ wire' = wire \ {Document(sub[v])}
<1> USE DEF Delivering
<1> DEFINE me == sub[v]
<1>1. /\ TypeInv /\ sub \in [Submissions -> Submission] /\ me \in Submission
      /\ rows \in [Jobs -> Row] /\ me.job \in Jobs
  BY DEF CallInv, TypeInv, TypeOK, StoreTypeOK, Submission
<1>2. documents' = documents
  BY ZenonT(30) DEF Resubmit, Submit, Proceed, RefuseAdmission, TakeSlot, Claim, Render,
         RecordRender, Adopt, RecordFailure, Reread, Deliver, Settle,
         FileOutcome, Return, outside
<1>3. CASE \/ Resubmit(v) \/ RefuseAdmission(v) \/ TakeSlot(v) \/ Claim(v)
           \/ Render(v) \/ Adopt(v) \/ RecordFailure(v) \/ Reread(v)
           \/ FileOutcome(v) \/ Return(v)
  <2>1. wire' = wire
    BY ZenonT(30), <1>3 DEF Resubmit, Submit, RefuseAdmission, TakeSlot, Claim, Render,
                Adopt, RecordFailure, Reread, FileOutcome, Return, outside
  <2>2. ASSUME NEW step \in {"claim", "render", "record", "reread"}, NEW row,
               NEW at, NEW sha,
               \/ Goto(v, [me EXCEPT !.step = step])
               \/ Goto(v, [me EXCEPT !.step = step, !.observed = at])
               \/ Goto(v, [me EXCEPT !.step = step, !.bytes = sha])
               \/ Goto(v, [me EXCEPT !.step = step, !.row = row, !.observed = at])
        PROVE  ~Delivering(v)'
    BY ZenonT(30), <1>1, <2>2 DEF Goto, Submission
  <2>3. /\ \A row, bytes : AnswerJob(v, row, bytes) => ~Delivering(v)'
        /\ \A error : AnswerError(v, error) => ~Delivering(v)'
        /\ \A c, error : FailWith(v, c, error) => ~Delivering(v)'
    BY <1>1, Answering
  <2>4. Goto(v, Idle) => ~Delivering(v)'
    BY <1>1 DEF Goto, Idle
  <2>5. CASE Resubmit(v)
    <3>1. PICK j \in Jobs, t \in Tenants, p \in Packages : Submit(v, j, t, p)
      BY <2>5 DEF Resubmit
    <3> QED BY <1>1, <1>2, <2>1, <3>1, Submitting
  <2> HIDE DEF Delivering
  <2>6. CASE RefuseAdmission(v) \/ TakeSlot(v) \/ Claim(v) \/ Render(v)
    <3>1. RefuseAdmission(v) \/ Claim(v) => ~Delivering(v)'
      BY <2>2, <2>3 DEF RefuseAdmission, Claim
    <3>2. TakeSlot(v) => ~Delivering(v)'
      BY <2>2, <2>3 DEF TakeSlot
    <3>3. Render(v) => ~Delivering(v)'
      BY <2>2, <2>3 DEF Render
    <3> QED BY <1>2, <2>1, <2>6, <3>1, <3>2, <3>3
  <2>7. CASE \/ Adopt(v) \/ RecordFailure(v) \/ Reread(v) \/ FileOutcome(v)
             \/ Return(v)
    <3>1. Adopt(v) \/ Reread(v) \/ FileOutcome(v) \/ Return(v) => ~Delivering(v)'
      BY <2>3, <2>4 DEF Adopt, Reread, FileOutcome, Return
    <3>2. RecordFailure(v) => ~Delivering(v)'
      BY <2>2, <2>3 DEF RecordFailure, LoseFailure
    <3> QED BY <1>2, <2>1, <2>7, <3>1, <3>2
  <2> QED BY <1>3, <2>5, <2>6, <2>7
<1>4. CASE RecordRender(v)
  <2>1. wire' = wire
    BY <1>4 DEF RecordRender, outside
  <2>2. CASE MarkRendered(me.job, me.row.gen, me.bytes)
             /\ Goto(v, [me EXCEPT !.step = "deliver", !.row = rows'[me.job]])
    <3>1. sub'[v].step = "deliver" /\ sub'[v].job = me.job
      BY <1>1, <2>2 DEF Goto, Submission
    <3>2. /\ rows[me.job].status = "rendering"
          /\ rows'[me.job] = RenderedRow(rows[me.job], me.bytes)
      BY <1>1, <2>2 DEF MarkRendered, MayMarkRendered, Fenced, Write
    <3>3. rows'[me.job].status = "rendered"
      BY <1>1, <3>2 DEF RenderedRow, Row
    <3> QED BY <1>2, <2>1, <3>1, <3>2, <3>3
  <2>3. CASE LoseFence(v)
    BY <1>1, <1>2, <2>1, <2>3 DEF LoseFence, Goto, Submission
  <2>4. CASE LoseResult(v)
    BY <1>1, <1>2, <2>1, <2>4, Answering DEF LoseResult
  <2> QED BY <1>4, <2>2, <2>3, <2>4 DEF RecordRender
<1>5. ASSUME NEW state, SettleAs(v, state)
      PROVE  /\ sub'[v].step = "file" /\ sub'[v].custody = state
             /\ sub'[v].job = me.job
  BY <1>1, <1>5 DEF SettleAs, Goto, Submission
<1>6. CASE Deliver(v)
  <2>1. me.step = "deliver" /\ rows' = rows
    BY <1>6 DEF Deliver, storeVars
  <2>2. CASE AnswerJob(v, me.row, me.bytes) /\ UNCHANGED wire
    BY <1>1, <1>2, <2>2, Answering
  <2>3. CASE /\ wire' = wire \cup {Document(me)}
             /\ Goto(v, [me EXCEPT !.step = "await"])
    <3>1. sub'[v].step = "await" /\ sub'[v].job = me.job
      BY <1>1, <2>3 DEF Goto, Submission
    <3> QED BY <1>2, <2>1, <2>3, <3>1
  <2>4. CASE /\ SettleAs(v, "archive_failed") \/ SettleAs(v, Unproven)
             /\ UNCHANGED wire
    BY <1>2, <1>5, <2>1, <2>4
  <2> QED BY <1>6, <2>2, <2>3, <2>4 DEF Deliver
<1>7. CASE Settle(v)
  <2>1. me.step = "await" /\ rows' = rows
    BY <1>7 DEF Settle, storeVars
  <2> QED BY <1>2, <1>5, <1>7, <2>1 DEF Settle
<1> QED BY <1>3, <1>4, <1>6, <1>7 DEF Proceed

\* Whatever left of a delivering call's job is that call's document.
LEMMA OneOfAJob ==
    ASSUME CallInv, NEW s \in Submissions, Delivering(s),
           NEW d \in wire \cup documents, d.job = sub[s].job
    PROVE  d = Document(sub[s])
<1>1. d = [job |-> d.job, sha |-> d.sha, tenant |-> d.tenant]
  BY DEF CallInv, TypeInv, TypeOK
<1>2. d.sha = rows[sub[s].job].sha /\ d.tenant = rows[sub[s].job].tenant
  BY DEF CallInv, CustodyIsTheArtifact
<1>3. /\ rows[sub[s].job].sha = sub[s].bytes
      /\ rows[sub[s].job].tenant = sub[s].row.tenant
  <2>1. sub[s].row.tenant = sub[s].tenant /\ rows[sub[s].job].tenant = sub[s].tenant
    BY DEF CallInv, Delivering, Owned
  <2> QED BY <2>1 DEF CallInv, Delivering, Recorded
<1> QED BY <1>1, <1>2, <1>3 DEF Document

\* A step of a call keeps the column true: what it files is what it learned,
\* and nobody else's delivery is of its job.
LEMMA CallsKeepCustodyTrue ==
    ASSUME CallInv, CustodyInv, NEW v \in Submissions, Resubmit(v) \/ Proceed(v)
    PROVE  CustodyInv'
<1> DEFINE me == sub[v]
<1>1. /\ \A u \in Submissions \ {v} : sub'[u] = sub[u]
      /\ \A s \in Submissions : sub[s].job \in Jobs
      /\ \A d \in wire \cup documents : d.job \in Jobs
      /\ Document(me).job = me.job
  BY CallSteps DEF CallInv, TypeInv, TypeOK, Submission, Document
<1>2. /\ \A s \in Submissions : Delivering(s) => rows[sub[s].job].status = "rendered"
      /\ \A d \in wire \cup documents : rows[d.job].status = "rendered"
  BY DEF CallInv, Recorded, Delivering, CustodyIsTheArtifact
<1>3. \A j \in Jobs : rows[j].status = "rendered" => rows'[j].status = "rendered"
  BY TableGoesOn DEF CallInv, Terminal, Next
<1>4. ASSUME NEW j \in Jobs
      PROVE  \/ rows'[j].archive = rows[j].archive
             \/ rows'[j].archive = "none" /\ rows[j].status = "absent"
             \/ /\ me.step = "file" /\ j = me.job /\ rows'[j].archive = me.custody
                /\ ~Delivering(v)' /\ wire' = wire
  <2>1. FileOutcome(v) => me.step = "file" /\ wire' = wire /\ ~Delivering(v)'
    BY Answering DEF FileOutcome, outside, CallInv, Delivering
  <2> QED BY <2>1, CustodyColumnSteps DEF Exists
<1>5. /\ documents' = documents
      /\ \A d \in wire' : \/ d \in wire
                          \/ /\ d = Document(me) /\ me.step = "deliver"
                             /\ sub'[v].step = "await"
  BY DeliverySteps
<1>6. ASSUME NEW j \in Jobs, Unfiled(j), me.step = "deliver" => me.job # j
      PROVE  Unfiled(j)'
  BY <1>1, <1>5, <1>6 DEF Unfiled
<1>7. CustodyColumnIsTrue'
  <2> SUFFICES ASSUME NEW j \in Jobs
               PROVE  /\ rows'[j].archive # "none" => rows'[j].status = "rendered"
                      /\ rows'[j].archive = "archived_verified" => Filed(j)'
                      /\ rows'[j].archive = "archive_failed" => Unfiled(j)'
    BY DEF CustodyColumnIsTrue, Filed, Unfiled
  <2>1. CASE rows'[j].archive = rows[j].archive
    <3>1. me.step = "deliver" => rows[me.job].archive = "none"
      BY DEF CustodyInv, Filing, Delivering
    <3>2. /\ rows[j].archive # "none" => rows[j].status = "rendered"
          /\ rows[j].archive = "archived_verified" => Filed(j)
          /\ rows[j].archive = "archive_failed" => Unfiled(j)
      BY DEF CustodyInv, CustodyColumnIsTrue, Filed, Unfiled
    <3>3. Filed(j) => Filed(j)'
      BY <1>5 DEF Filed
    <3> QED BY <1>3, <1>6, <2>1, <3>1, <3>2, <3>3
  <2>2. CASE /\ me.step = "file" /\ j = me.job /\ rows'[j].archive = me.custody
             /\ wire' = wire
    <3>1. /\ me.custody = "archived_verified" => Filed(j)
          /\ me.custody = "archive_failed" => Unfiled(j)
          /\ rows[j].status = "rendered"
      BY <1>2, <2>2 DEF CustodyInv, Filing, Delivering
    <3> QED BY <1>3, <1>5, <2>2, <3>1 DEF Filed, Unfiled
  <2> QED BY <1>4, <2>1, <2>2
<1>8. (wire \cap documents = {})'
  <2>1. me.step = "deliver" => Document(me) \notin documents
    BY <1>1 DEF CustodyInv, Filing, Unfiled
  <2> QED BY <1>5, <2>1 DEF CustodyInv
<1>9. ASSUME Delivering(v)'
      PROVE  /\ sub'[v].job = me.job
             /\ Delivering(v) \/ rows[me.job].status = "rendering"
  BY <1>9, DeliverySteps DEF Delivering
<1>10. ASSUME NEW s \in Submissions, NEW u \in Submissions, s # u,
              Delivering(s)', Delivering(u)'
       PROVE  sub'[s].job # sub'[u].job
  <2>1. \A w \in Submissions \ {v} : Delivering(w)' <=> Delivering(w)
    BY <1>1 DEF Delivering
  <2> QED BY <1>1, <1>2, <1>9, <1>10, <2>1 DEF CustodyInv
<1>11. ASSUME NEW s \in Submissions, s # v
       PROVE  Filing(s)'
  <2>1. sub'[s] = sub[s] /\ (Delivering(s)' <=> Delivering(s))
    BY <1>1, <1>11 DEF Delivering
  <2>2. ASSUME Delivering(s) PROVE rows'[sub[s].job].archive = "none"
    <3>1. Delivering(v) => me.job # sub[s].job
      BY <1>11, <2>2 DEF CustodyInv
    <3> QED BY <1>1, <1>2, <1>4, <2>2, <3>1 DEF Delivering, CustodyInv, Filing
  <2>3. ASSUME Delivering(s), Unfiled(sub[s].job) PROVE Unfiled(sub[s].job)'
    <3>1. Delivering(v) => me.job # sub[s].job
      BY <1>11, <2>3 DEF CustodyInv
    <3> QED BY <1>1, <1>6, <2>1, <2>3, <3>1 DEF Delivering
  <2>4. Filed(sub[s].job) => Filed(sub[s].job)'
    BY <1>5, <2>1 DEF Filed
  <2> QED BY <2>1, <2>2, <2>3, <2>4 DEF CustodyInv, Filing, Delivering
<1>12. Filing(v)'
  <2>1. CASE ~Delivering(v)'
    BY <2>1 DEF Filing, Delivering
  <2>2. CASE /\ sub'[v].step = "deliver" /\ wire' = wire /\ sub'[v].job = me.job
             /\ rows[me.job].status = "rendering"
    <3>1. rows[me.job].archive = "none"
      BY <1>1, <2>2 DEF CustodyInv, CustodyColumnIsTrue
    <3>2. rows'[me.job].archive = "none"
      BY <1>1, <1>4, <2>2, <3>1 DEF Delivering
    <3>3. Unfiled(me.job)
      BY <1>2, <2>2 DEF Unfiled
    <3> QED BY <1>5, <2>2, <3>2, <3>3 DEF Filing, Unfiled
  <2>3. CASE /\ Delivering(v) /\ rows' = rows /\ sub'[v].job = me.job
             /\ sub'[v].step # "deliver"
    <3>1. rows'[me.job].archive = "none"
      BY <2>3 DEF CustodyInv, Filing
    <3>2. CASE sub'[v].step = "await"
      BY <2>3, <3>1, <3>2 DEF Filing
    <3>3. CASE sub'[v].step = "file" /\ sub'[v].custody = Unproven
      BY <2>3, <3>1, <3>3 DEF Filing, Unproven
    <3>4. CASE /\ me.step = "deliver" /\ wire' = wire /\ sub'[v].step = "file"
               /\ sub'[v].custody = "archive_failed"
      <4>1. Unfiled(me.job)'
        BY <1>5, <2>3, <3>4 DEF CustodyInv, Filing, Unfiled
      <4> QED BY <2>3, <3>1, <3>4, <4>1 DEF Filing, Unfiled
    <3>5. CASE /\ me.step = "await" /\ sub'[v].step = "file"
               /\ sub'[v].custody = "archived_verified"
               /\ Document(me) \in documents
      <4>1. Filed(me.job)'
        BY <1>1, <1>5, <2>3, <3>5 DEF Filed
      <4> QED BY <2>3, <3>1, <3>5, <4>1 DEF Filing, Filed
    <3>6. CASE /\ me.step = "await" /\ sub'[v].step = "file"
               /\ sub'[v].custody = "archive_failed"
               /\ Document(me) \in wire /\ wire' = wire \ {Document(me)}
      <4>1. \A d \in wire \cup documents : d.job = me.job => d = Document(me)
        BY <3>6, OneOfAJob DEF Delivering
      <4>2. Document(me) \notin documents
        BY <3>6 DEF CustodyInv
      <4>3. Unfiled(me.job)'
        BY <1>5, <2>3, <3>6, <4>1, <4>2 DEF Unfiled
      <4> QED BY <2>3, <3>1, <3>6, <4>3 DEF Filing, Unfiled
    <3> QED
      BY <2>1, <2>2, <2>3, <3>2, <3>3, <3>4, <3>5, <3>6, DeliverySteps
  <2> QED BY <2>1, <2>2, <2>3, DeliverySteps DEF Delivering
<1> QED BY <1>7, <1>8, <1>10, <1>11, <1>12 DEF CustodyInv

\* So does everything else: a late commit turns a delivery into a document,
\* and a process that ends files nothing.
LEMMA NextKeepsCustodyTrue ==
    ASSUME CallInv, CustodyInv, [Next]_vars
    PROVE  CustodyInv'
<1>1. CASE \E v \in Submissions : Resubmit(v) \/ Proceed(v)
  BY <1>1, CallsKeepCustodyTrue
<1>2. ASSUME UNCHANGED <<rows, sub, wire, documents>>
      PROVE  CustodyInv'
  BY <1>2 DEF CustodyInv, CustodyColumnIsTrue, Delivering, Filing, Filed, Unfiled
<1>3. CASE BeginShutdown \/ DrainStep \/ TickClock \/ UNCHANGED vars
  BY <1>2, <1>3
     DEF BeginShutdown, DrainStep, TickClock, Tick, outside, storeVars, vars
<1>4. CASE Crash \/ Exit
  <2>1. /\ sub' = [s \in Submissions |-> Idle]
        /\ UNCHANGED <<rows, wire, documents>>
    BY <1>4 DEF Crash, Exit, ProcessEnds, storeVars
  <2>2. \A s \in Submissions : ~Delivering(s)' /\ Filing(s)'
    BY <2>1 DEF Delivering, Filing, Idle
  <2> QED BY <2>1, <2>2 DEF CustodyInv, CustodyColumnIsTrue
<1>5. ASSUME NEW d \in wire, Archive(d)
      PROVE  CustodyInv'
  <2>1. /\ UNCHANGED <<rows, sub>>
        /\ wire' = wire \ {d} /\ documents' = documents \cup {d}
    BY <1>5 DEF Archive, storeVars
  <2>2. \A j : (Filed(j) => Filed(j)') /\ (Unfiled(j) => Unfiled(j)')
    BY <2>1 DEF Filed, Unfiled
  <2>3. CustodyColumnIsTrue'
    BY <2>1 DEF CustodyInv, CustodyColumnIsTrue
  <2>4. \A s \in Submissions : Filing(s)'
    BY <2>1, <2>2 DEF CustodyInv, Filing, Delivering, Filed, Unfiled
  <2> QED BY <2>1, <2>3, <2>4 DEF CustodyInv, Delivering
<1> QED BY <1>1, <1>3, <1>4, <1>5 DEF Next

\* Nothing is in custody at first, not of the jobs of an older release either.
LEMMA CustodyStarts == Init => CustodyInv
<1> SUFFICES ASSUME Init PROVE CustodyInv
  OBVIOUS
<1>1. /\ wire = {} /\ documents = {} /\ sub = [s \in Submissions |-> Idle]
  BY DEF Init
<1>2. \A j \in Jobs : rows[j].archive = "none"
  <2>1. \A j \in Jobs : rows[j] = AbsentRow \/ rows[j] \in LegacyRows
    BY DEF Init, StoreInit
  <2>2. AbsentRow.archive = "none"
    BY DEF AbsentRow
  <2> QED BY <2>1, <2>2, LegacyRowsExist
<1>3. \A s \in Submissions : ~Delivering(s) /\ Filing(s)
  BY <1>1 DEF Delivering, Filing, Idle
<1> QED BY <1>1, <1>2, <1>3 DEF CustodyInv, CustodyColumnIsTrue

-----------------------------------------------------------------------------
(* Claims, from the row to the holder *)

\* The claim a row shows is some call's: RenderingIsHeld of one job.
HeldBy(s, j) == HoldsClaim(s) /\ sub[s].job = j /\ sub[s].row.gen = rows[j].gen

\* RenderingIsHeld needs that a process that was never stopped never drained.
HeldInv == RenderingIsHeld /\ (stops = 0 => drain = "off")

\* A row is at rendering because it was, under the same claim, or because a
\* call has just claimed it and holds the claim.
LEMMA RenderingSteps ==
    ASSUME CallInv, NEW v \in Submissions, Resubmit(v) \/ Proceed(v),
           NEW j \in Jobs, rows'[j].status = "rendering"
    PROVE  \/ rows[j].status = "rendering" /\ rows'[j].gen = rows[j].gen
           \/ HeldBy(v, j)'
<1> DEFINE i == sub[v].job
<1>1. /\ rows \in [Jobs -> Row] /\ i \in Jobs /\ rows[i] \in Row
      /\ rows[j] \in Row /\ sub \in [Submissions -> Submission]
      /\ sub[v] \in Submission /\ TypeInv
  BY DEF CallInv, TypeInv, TypeOK, StoreTypeOK, Submission
<1>2. ASSUME NEW k \in Jobs, NEW row, NEW at, Write(k, row, at),
             row.status = "rendering" =>
                rows[k].status = "rendering" /\ row.gen = rows[k].gen
      PROVE  rows[j].status = "rendering" /\ rows'[j].gen = rows[j].gen
  BY <1>1, <1>2 DEF Write
<1>3. ASSUME UNCHANGED storeVars
      PROVE  rows[j].status = "rendering" /\ rows'[j].gen = rows[j].gen
  BY <1>3 DEF storeVars
<1>4. CASE Resubmit(v)
  <2>1. PICK k \in Jobs, t \in Tenants, p \in Packages : Submit(v, k, t, p)
    BY <1>4 DEF Resubmit
  <2>2. UNCHANGED storeVars \/ Write(k, AcceptedRow(t, p), now)
    BY <2>1 DEF Submit, Faulty, Create
  <2> QED BY <1>2, <1>3, <2>2, AcceptedColumns
<1>5. CASE Claim(v)
  <2>1. CASE UNCHANGED storeVars
    BY <1>3, <2>1
  <2>2. CASE /\ ClaimForRendering(i, sub[v].observed)
             /\ Goto(v, [sub[v] EXCEPT !.step = "render", !.row = rows'[i],
                                       !.observed = 0])
    <3>1. CASE i # j
      BY <1>1, <2>2, <3>1 DEF ClaimForRendering, Write
    <3>2. CASE i = j
      <4>1. /\ sub'[v].step = "render" /\ sub'[v].job = j
            /\ sub'[v].row = rows'[j]
        BY <1>1, <2>2, <3>2 DEF Goto, Submission
      <4>2. v \in held'
        BY <1>5 DEF Claim, CallInv, SlotsMatchCalls, limiterVars
      <4> QED BY <4>1, <4>2 DEF HeldBy, HoldsClaim
    <3> QED BY <3>1, <3>2
  <2> QED BY <1>5, <2>1, <2>2 DEF Claim, Faulty
<1>6. CASE RecordRender(v)
  <2>1. RenderedRow(rows[i], sub[v].bytes).status = "rendered"
    BY <1>1 DEF RenderedRow, Row
  <2>2. UNCHANGED storeVars \/ Write(i, RenderedRow(rows[i], sub[v].bytes), now)
    BY <1>6 DEF RecordRender, Faulty, MarkRendered
  <2> QED BY <1>1, <1>2, <1>3, <2>1, <2>2
<1>7. CASE RecordFailure(v)
  <2>1. FailedRow(rows[i], sub[v].failure).status = "failed"
    BY <1>1 DEF FailedRow, Row
  <2>2. UNCHANGED storeVars \/ Write(i, FailedRow(rows[i], sub[v].failure), now)
    BY <1>7 DEF RecordFailure, Faulty, MarkFailed
  <2> QED BY <1>1, <1>2, <1>3, <2>1, <2>2
<1>8. CASE FileOutcome(v)
  <2> DEFINE row == [rows[i] EXCEPT !.archive = sub[v].custody]
  <2>1. row.status = rows[i].status /\ row.gen = rows[i].gen
    BY <1>1 DEF Row
  <2>2. UNCHANGED storeVars \/ Write(i, row, now)
    BY <1>8 DEF FileOutcome, RecordArchiveOutcome
  <2> HIDE DEF row
  <2> QED BY <1>1, <1>2, <1>3, <2>1, <2>2
<1>9. CASE \/ RefuseAdmission(v) \/ TakeSlot(v) \/ Render(v) \/ Adopt(v)
           \/ Reread(v) \/ Deliver(v) \/ Settle(v) \/ Return(v)
  BY <1>3, <1>9 DEF RefuseAdmission, TakeSlot, Render, Adopt, Reread,
                    Deliver, Settle, Return, Faulty
<1> QED BY <1>4, <1>5, <1>6, <1>7, <1>8, <1>9 DEF Proceed

\* A holder keeps its claim through every step that does not decide the job.
LEMMA HoldersKeepHolding ==
    ASSUME CallInv, NEW v \in Submissions, Resubmit(v) \/ Proceed(v),
           NEW s \in Submissions, NEW j \in Jobs, HeldBy(s, j),
           "mark_failed" \notin FaultyOps,
           rows'[j].status = "rendering", rows'[j].gen = rows[j].gen
    PROVE  HeldBy(s, j)'
<1> USE DEF HeldBy
<1> DEFINE me == sub[v]
<1>1. /\ TypeInv /\ SlotsMatchCalls
      /\ sub \in [Submissions -> Submission] /\ me \in Submission
      /\ rows \in [Jobs -> Row] /\ me.job \in Jobs /\ rows[me.job] \in Row
      /\ rows[j].status = "rendering"
  BY DEF CallInv, Claimed, TypeInv, TypeOK, StoreTypeOK, Submission
<1>2. CASE s # v
  BY <1>1, <1>2, CallSteps DEF HoldsClaim, limiterVars, Acquire, Release
<1>3. CASE s = v
  <2>1. me.step \in {"render", "record", "fail"} /\ v \in held
    BY <1>3 DEF HoldsClaim
  <2>2. CASE Render(v)
    <3>1. /\ sub'[v].step \in {"record", "fail"} /\ sub'[v].job = me.job
          /\ sub'[v].row = me.row
      <4>1. ASSUME NEW sha, Goto(v, [me EXCEPT !.step = "record", !.bytes = sha])
            PROVE  /\ sub'[v].step = "record" /\ sub'[v].job = me.job
                   /\ sub'[v].row = me.row
        BY <1>1, <4>1 DEF Goto, Submission
      <4> QED BY <1>1, <2>2, <4>1, Answering DEF Render
    <3> QED
      BY <1>3, <2>1, <2>2, <3>1 DEF Render, HoldsClaim, storeVars, limiterVars
  <2>3. CASE RecordRender(v)
    <3>1. ~MarkRendered(me.job, me.row.gen, me.bytes)
      <4>1. SUFFICES ASSUME MarkRendered(me.job, me.row.gen, me.bytes) PROVE FALSE
        OBVIOUS
      <4>2. rows'[j] = RenderedRow(rows[j], me.bytes)
        BY <1>1, <1>3, <4>1 DEF MarkRendered, Write
      <4>3. rows'[j].status = "rendered"
        BY <1>1, <1>3, <4>2 DEF RenderedRow, Row
      <4> QED BY <4>3
    <3>2. MayMarkRendered(me.job, me.row.gen)
      BY <1>1, <1>3 DEF MayMarkRendered, Fenced
    <3>3. LoseResult(v) /\ UNCHANGED <<rows, held>>
      BY <2>3, <3>1, <3>2 DEF RecordRender, Faulty, storeVars, limiterVars
    <3> QED
      BY <1>1, <1>3, <2>1, <3>3, Answering DEF LoseResult, HoldsClaim
  <2>4. CASE RecordFailure(v)
    <3>1. ~MarkFailed(me.job, me.row.gen, me.failure)
      <4>1. SUFFICES ASSUME MarkFailed(me.job, me.row.gen, me.failure) PROVE FALSE
        OBVIOUS
      <4>2. rows'[j] = FailedRow(rows[j], me.failure)
        BY <1>1, <1>3, <4>1 DEF MarkFailed, Write
      <4>3. rows'[j].status = "failed"
        BY <1>1, <1>3, <4>2 DEF FailedRow, Row
      <4> QED BY <4>3
    <3>2. MayMarkFailed(me.job, me.row.gen)
      BY <1>1, <1>3 DEF MayMarkFailed, Fenced, InFlight
    <3> QED BY <2>4, <3>1, <3>2 DEF RecordFailure, Faulty
  <2>5. ~Resubmit(v)
    BY ZenonT(30), <2>1 DEF Resubmit, Submit
  <2>6. ~RefuseAdmission(v) /\ ~TakeSlot(v) /\ ~Claim(v) /\ ~Adopt(v)
    BY <2>1 DEF RefuseAdmission, TakeSlot, Claim, Adopt
  <2>7. ~Reread(v) /\ ~Deliver(v) /\ ~Settle(v) /\ ~FileOutcome(v) /\ ~Return(v)
    BY <2>1 DEF Reread, Deliver, Settle, FileOutcome, Return
  <2> QED BY <2>2, <2>3, <2>4, <2>5, <2>6, <2>7 DEF Proceed
<1> QED BY <1>2, <1>3

\* No path out of a claim strands it.
LEMMA NextKeepsHeld ==
    ASSUME CallInv, HeldInv, [Next]_vars
    PROVE  HeldInv'
<1>1. stops \in Nat
  BY DeploymentAssumption DEF CallInv, TypeInv, TypeOK
<1>2. SUFFICES ASSUME stops' = 0
               PROVE  HeldInv'
  BY DEF HeldInv, RenderingIsHeld
<1>3. ~Crash /\ ~BeginShutdown
  BY <1>1, <1>2 DEF Crash, BeginShutdown
<1>4. stops = 0
  <2>1. ASSUME NEW v \in Submissions, Resubmit(v) \/ Proceed(v)
        PROVE  stops' = stops
    BY ZenonT(30), <2>1 DEF Resubmit, Submit, Proceed, RefuseAdmission, TakeSlot, Claim,
                Render, RecordRender, Adopt, RecordFailure, Reread, Deliver,
                Settle, FileOutcome, Return, outside
  <2>2. ASSUME \/ DrainStep \/ Exit \/ TickClock \/ UNCHANGED vars
               \/ \E d \in wire : Archive(d)
        PROVE  stops' = stops
    BY <2>2 DEF DrainStep, Exit, TickClock, Archive, outside, vars
  <2> QED BY <1>2, <1>3, <2>1, <2>2 DEF Next
<1>5. drain = "off" /\ ~DrainStep /\ ~Exit
  BY <1>4 DEF HeldInv, DrainStep, Drain, DrainSlot, DrainComplete, DrainTimeout,
              Exit
<1>6. ASSUME NEW v \in Submissions, Resubmit(v) \/ Proceed(v)
      PROVE  HeldInv'
  <2>1. drain' = "off"
    BY <1>5, <1>6, CallSteps DEF CallInv, limiterVars, Acquire, Release
  <2>2. ASSUME "mark_failed" \notin FaultyOps, NEW j \in Jobs \ LegacyJobs,
               rows'[j].status = "rendering"
        PROVE  \E s \in Submissions : HeldBy(s, j)'
    <3>1. CASE rows[j].status = "rendering" /\ rows'[j].gen = rows[j].gen
      <4>1. PICK s \in Submissions : HeldBy(s, j)
        BY <1>4, <2>2, <3>1 DEF HeldInv, RenderingIsHeld, HeldBy
      <4> QED BY <1>6, <2>2, <3>1, <4>1, HoldersKeepHolding
    <3>2. CASE HeldBy(v, j)'
      BY <3>2
    <3> QED BY <1>6, <2>2, <3>1, <3>2, RenderingSteps
  <2> QED BY <2>1, <2>2 DEF HeldInv, RenderingIsHeld, HeldBy
<1>7. CASE TickClock \/ (\E d \in wire : Archive(d)) \/ UNCHANGED vars
  <2>1. UNCHANGED <<rows, sub, held, drain, stops>>
    BY <1>7 DEF TickClock, Tick, Archive, outside, storeVars, limiterVars, vars
  <2> QED BY <2>1 DEF HeldInv, RenderingIsHeld, HoldsClaim
<1> QED BY <1>3, <1>5, <1>6, <1>7 DEF Next

\* The claims an older release left behind are all there is at first.
LEMMA HeldStarts == Init => HeldInv
<1> SUFFICES ASSUME Init PROVE HeldInv
  OBVIOUS
<1>1. \A j \in Jobs \ LegacyJobs : rows[j] = AbsentRow
  BY DEF Init, StoreInit
<1>2. AbsentRow.status = "absent"
  BY DEF AbsentRow
<1> QED BY <1>1, <1>2 DEF Init, LimiterInit, HeldInv, RenderingIsHeld

\* A row is true of the process and of Archive, for any number of calls,
\* takeovers, store errors and late commits: a custody state is what Archive
\* has, and a claim on a row is a claim some call holds, until the process is
\* stopped (archive_handoff.py:334-441, render_submission.py:163-165, 262-281).
THEOREM RowsStayTrue == Spec => []RowsAreTrue
<1>1. Init => CustodyInv /\ HeldInv
  BY CustodyStarts, HeldStarts
<1>2. CallInv /\ CustodyInv /\ HeldInv /\ [Next]_vars => (CustodyInv /\ HeldInv)'
  BY NextKeepsCustodyTrue, NextKeepsHeld
<1>3. CustodyInv /\ HeldInv => RowsAreTrue
  BY DEF CustodyInv, HeldInv, RowsAreTrue
<1> QED BY <1>1, <1>2, <1>3, CallInvariant, PTL DEF Spec

=============================================================================
