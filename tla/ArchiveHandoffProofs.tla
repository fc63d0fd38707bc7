------------------------ MODULE ArchiveHandoffProofs ------------------------
(***************************************************************************)
(* What a delivery may conclude, proved for any number of attempts and any *)
(* documents already in Archive or filed while it runs.                    *)
(*                                                                         *)
(* The conclusions are not inductive: whether an exhausted loop proves     *)
(* absence depends on which attempts were sent and answered, so the        *)
(* invariant carries that history.                                         *)
(***************************************************************************)
EXTENDS ArchiveHandoff, TLAPS

\* Until the loop settles, at most the attempt that waits is in flight, and
\* an attempt that left the process is on record: it waits, or was answered.
History ==
    /\ step # "settled" => outcome = Undecided
    /\ step \in {"connect", "retry"} => inFlight = {}
    /\ step = "wait" => inFlight \subseteq {attempt} /\ sent # {}
    /\ step \in {"connect", "retry"} /\ ~answered => sent = {}
    /\ answered => sent # {}

\* What Archive did, and what an answer on its way says of it.
Commitment ==
    /\ \A d, e \in stored : d.id = e.id => d = e
    /\ \A d \in stored :
          d.by = "this" => d.metadata = delivery /\ verdict = "accepts"
                           /\ sent # {}
    /\ step = "wait" /\ reply # "none" => inFlight = {}

\* The document an answer or an outcome stands for.
DeliveredIsFiled == \E d \in stored : d.metadata = delivery

\* What a refusal stands for: this content, or this id with other metadata.
Refused ==
    verdict = "refuses" \/ \E d \in Filed : d.metadata # delivery

\* What the answer on its way, and the outcome, say of Archive.
Testimony ==
    /\ reply = "document" => DeliveredIsFiled
    /\ reply = "refused" => Refused
    /\ outcome.state = "archived_verified" => DeliveredIsFiled
    /\ outcome.state = "archive_failed" /\ outcome.reason = "answered" =>
          Refused
    /\ step = "settled" => outcome.request = RequestId(delivery)
    /\ outcome.state = "archived_verified" => step = "settled"

HandoffInv ==
    /\ HandoffTypeOK
    /\ History
    /\ Commitment
    /\ Testimony
    /\ FailedIsAbsent
    /\ PendingWasSent

\* Two documents have the same id only for the same reference and bytes.
LEMMA IdsNameArtifacts ==
    ASSUME NEW p \in Payloads, NEW q \in Payloads
    PROVE  RequestId(p) = RequestId(q) <=>
              p.reference = q.reference /\ p.bytes = q.bytes
BY DEF RequestId

\* A document in Archive is filed under the id of its own metadata.
LEMMA DocumentFields ==
    ASSUME HandoffTypeOK, NEW d \in stored
    PROVE  /\ d.metadata \in Payloads
           /\ d.id = RequestId(d.metadata)
           /\ d.by \in {"this", "another"}
<1>1. PICK p \in Payloads, by \in {"this", "another"} : d = Document(p, by)
  BY DEF HandoffTypeOK
<1> QED BY <1>1 DEF Document

\* A delivery starts with nothing sent or concluded, and nothing of it filed.
LEMMA HandoffStarts == HandoffInit => HandoffInv
<1> SUFFICES ASSUME HandoffInit PROVE HandoffInv
  OBVIOUS
<1> USE DEF HandoffInit
<1>1. HandoffTypeOK
  <2>1. 1 \in 1..MaxAttempts
    BY MaxAttemptsAssumption
  <2>2. stored \subseteq {Document(p, by) : p \in Payloads,
                                           by \in {"this", "another"}}
    OBVIOUS
  <2>3. /\ delivery \in Payloads
        /\ outcome \in {Undecided}
        /\ reply = "none" /\ answered \in BOOLEAN
        /\ sent = {} /\ inFlight = {}
        /\ verdict \in {"accepts", "refuses"} /\ step = "connect"
    OBVIOUS
  <2> QED BY <2>1, <2>2, <2>3 DEF HandoffTypeOK
<1>2. History /\ Commitment
  BY DEF History, Commitment
<1>3. outcome.state = "none"
  BY DEF Undecided
<1>4. Testimony /\ FailedIsAbsent /\ PendingWasSent
  BY <1>3 DEF Testimony, FailedIsAbsent, PendingWasSent
<1> QED BY <1>1, <1>2, <1>4 DEF HandoffInv

\* A refused delivery has no document of its own: its id is taken by another.
LEMMA RefusedIsAbsent ==
    ASSUME HandoffTypeOK, Commitment, Refused
    PROVE  \A d \in stored : d.by # "this"
<1> SUFFICES ASSUME NEW d \in stored, d.by = "this" PROVE FALSE
  OBVIOUS
<1>1. d.metadata = delivery /\ verdict = "accepts"
  BY DEF Commitment
<1>2. PICK e \in Filed : e.metadata # delivery
  BY <1>1 DEF Refused
<1>3. d.id = e.id
  BY <1>1, <1>2, DocumentFields DEF Filed
<1> QED BY <1>1, <1>2, <1>3 DEF Commitment, Filed

\* The loop's own steps keep the invariant.
LEMMA LoopKeepsInv ==
    ASSUME HandoffInv, Loop \/ Unexpected
    PROVE  HandoffInv'
<1>1. /\ UNCHANGED <<delivery, archive>>
      /\ \/ SettleOn("archived_verified", "answered") /\ reply = "document"
         \/ SettleOn("archive_failed", "answered") /\ reply = "refused"
         \/ SettleOn("archive_pending", "answered")
         \/ SettleOn("archive_pending", "unobserved")
         \/ SettleOn("archive_pending", "unexpected")
         \/ SettleOn("archive_pending", "exhausted")
         \/ SettleOn("archive_failed", "exhausted")
         \/ step' # "settled" /\ UNCHANGED outcome /\ step # "settled"
      /\ reply' \in {"none", reply}
  BY DEF Loop, NotSent, Post, Observe, Unobserved, Retry, Unexpected, SettleOn,
         UnnamedState, UnobservedState, ExhaustedState
<1>2. UNCHANGED <<delivery, verdict, stored, Filed, Refused, DeliveredIsFiled>>
  BY <1>1 DEF archive, Filed, Refused, DeliveredIsFiled
<1>3. Testimony'
  BY <1>1, <1>2 DEF HandoffInv, Testimony, SettleOn
<1>4. ASSUME SettleOn("archive_failed", "answered"), reply = "refused",
             step = "wait"
      PROVE  \A d \in stored : d.by # "this"
  BY <1>4, RefusedIsAbsent DEF HandoffInv, Testimony
<1>5. ASSUME NEW s \in States, NEW r \in Reasons, SettleOn(s, r)
      PROVE  /\ outcome' \in [state : States, reason : Reasons,
                              request : {RequestId(p) : p \in Payloads}]
             /\ outcome'.state = s /\ outcome'.reason = r
             /\ step' = "settled"
             /\ UNCHANGED <<delivery, attempt, answered>>
  BY <1>5 DEF SettleOn, HandoffInv, HandoffTypeOK
<1> USE DEF HandoffInv, HandoffTypeOK, History, Commitment,
            FailedIsAbsent, PendingWasSent, Undecided, Replies, States,
            Reasons, archive
<1>10. CASE NotSent
  BY <1>3, <1>10 DEF NotSent
<1>11. CASE Post
  BY <1>3, <1>11 DEF Post
<1>12. CASE Observe
  <2>1. CASE reply = "document" /\ SettleOn("archived_verified", "answered")
    BY <1>3, <1>5, <1>12, <2>1 DEF Observe
  <2>2. CASE reply = "no_document_id" /\ SettleOn(UnnamedState, "answered")
    BY <1>3, <1>5, <1>12, <2>2 DEF Observe, UnnamedState
  <2>3. CASE reply = "refused" /\ SettleOn("archive_failed", "answered")
    BY <1>3, <1>4, <1>5, <1>12, <2>3 DEF Observe
  <2>4. CASE reply = "unavailable" /\ step' = "retry" /\ answered' = TRUE
             /\ UNCHANGED <<delivery, attempt, outcome>>
    BY <1>3, <1>12, <2>4 DEF Observe
  <2>5. \/ reply = "document" /\ SettleOn("archived_verified", "answered")
        \/ reply = "no_document_id" /\ SettleOn(UnnamedState, "answered")
        \/ reply = "refused" /\ SettleOn("archive_failed", "answered")
        \/ /\ reply = "unavailable" /\ step' = "retry" /\ answered' = TRUE
           /\ UNCHANGED <<delivery, attempt, outcome>>
    BY <1>12 DEF Observe
  <2> HIDE DEF HandoffInv
  <2> QED BY <2>1, <2>2, <2>3, <2>4, <2>5
<1>13. CASE Unobserved
  BY <1>3, <1>5, <1>13 DEF Unobserved, UnobservedState
<1>14. CASE Retry
  <2>1. CASE /\ MayRetry /\ step' = "connect" /\ attempt' = attempt + 1
             /\ UNCHANGED <<delivery, answered, outcome>>
    <3>1. attempt' \in 1..MaxAttempts
      BY <2>1, MaxAttemptsAssumption DEF MayRetry
    <3> QED BY <1>3, <1>14, <2>1, <3>1 DEF Retry
  <2>2. CASE SettleOn(ExhaustedState, "exhausted")
    <3>1. CASE answered
      <4>1. SettleOn("archive_pending", "exhausted") /\ step = "retry"
        BY <1>14, <2>2, <3>1 DEF Retry, ExhaustedState
      <4>2. UNCHANGED <<sent, inFlight, reply, archive>>
        BY <1>14 DEF Retry
      <4> QED BY <1>3, <1>5, <3>1, <4>1, <4>2
    <3>2. CASE ~answered
      <4>1. SettleOn("archive_failed", "exhausted") /\ step = "retry"
        BY <1>14, <2>2, <3>2 DEF Retry, ExhaustedState
      <4>2. UNCHANGED <<sent, inFlight, reply, archive>>
        BY <1>14 DEF Retry
      <4>3. inFlight = {} /\ \A d \in stored : d.by # "this"
        <5>1. step = "retry" /\ ~answered
          BY <3>2, <4>1
        <5>2. inFlight = {} /\ sent = {}
          BY <5>1 DEF HandoffInv, History
        <5> QED BY <5>2 DEF HandoffInv, Commitment
      <4> QED BY <1>3, <1>5, <3>2, <4>1, <4>2, <4>3
    <3> QED BY <3>1, <3>2
  <2> QED BY <1>14, <2>1, <2>2 DEF Retry
<1>15. CASE Unexpected
  BY <1>3, <1>5, <1>15 DEF Unexpected
<1> QED BY <1>10, <1>11, <1>12, <1>13, <1>14, <1>15 DEF Loop

\* Archive only ever gains documents, one to an id.
LEMMA ArchiveGrows ==
    ASSUME HandoffInv, NEW p \in Payloads, NEW by \in {"this", "another"},
           \A d \in stored : d.id # RequestId(p),
           stored' = stored \cup {Document(p, by)},
           UNCHANGED delivery
    PROVE  /\ stored' \subseteq {Document(q, b) : q \in Payloads,
                                                b \in {"this", "another"}}
           /\ \A d, e \in stored' : d.id = e.id => d = e
<1>1. Document(p, by).id = RequestId(p)
  BY DEF Document
<1> QED BY <1>1 DEF HandoffInv, HandoffTypeOK, Commitment

\* Archive's steps keep it: a late commit is one nobody has called failed.
LEMMA ArchiveKeepsInv ==
    ASSUME HandoffInv, Archive
    PROVE  HandoffInv'
<1> USE DEF HandoffInv, HandoffTypeOK, History, Commitment,
            FailedIsAbsent, PendingWasSent, Undecided, Replies, States,
            Reasons, client
<1>1. ASSUME NEW n \in inFlight, NEW r \in Replies, Answer(n, r)
      PROVE  /\ sent # {} /\ n \in 1..MaxAttempts
             /\ inFlight' = inFlight \ {n}
             /\ reply' \in {"none"} \cup Replies
             /\ step = "wait" => inFlight' = {} /\ reply' = r
             /\ step # "wait" => reply' = reply
             /\ UNCHANGED <<client, sent, verdict>>
  BY <1>1 DEF Answer
<1>2. ASSUME stored \subseteq stored', UNCHANGED <<client, verdict>>
      PROVE  /\ DeliveredIsFiled => DeliveredIsFiled'
             /\ Refused => Refused'
  BY <1>2 DEF DeliveredIsFiled, Refused, Filed
<1>7. ASSUME NEW n \in inFlight, NEW r \in Replies, Answer(n, r),
             stored' \subseteq {Document(q, b) : q \in Payloads,
                                               b \in {"this", "another"}}
      PROVE  HandoffTypeOK' /\ History'
  <2>1. delivery' \in Payloads /\ outcome' = outcome
    BY <1>1, <1>7
  <2>5. /\ inFlight' = inFlight \ {n} /\ reply' \in {"none"} \cup Replies
        /\ UNCHANGED <<client, sent, verdict>>
    <3> HIDE DEF HandoffInv
    <3> QED BY <1>1, <1>7
  <2>2. /\ sent' = sent /\ inFlight' \subseteq sent' /\ sent' \subseteq 1..MaxAttempts
        /\ step' = step /\ attempt' = attempt /\ answered' = answered
        /\ verdict' = verdict /\ reply' \in {"none"} \cup Replies
    BY <2>5
  <2>3. HandoffTypeOK'
    <3>1. outcome' \in {Undecided} \cup
                         [state : States, reason : Reasons,
                          request : {RequestId(p) : p \in Payloads}]
      BY <2>1 DEF HandoffInv, HandoffTypeOK
    <3> QED BY <1>7, <2>1, <2>2, <3>1 DEF HandoffTypeOK
  <2>4. History'
    BY <1>1, <1>7
  <2> QED BY <2>3, <2>4
<1>3. ASSUME NEW n \in inFlight, Commit(n) PROVE HandoffInv'
  <2>1. PICK r \in {"document", "no_document_id", "unavailable"} : Answer(n, r)
    BY <1>3 DEF Commit
  <2>2. /\ verdict = "accepts"
        /\ \A d \in Filed : d.metadata = delivery
        /\ stored' = IF Filed = {} THEN stored \cup {Document(delivery, "this")}
                                  ELSE stored
    BY <1>3 DEF Commit, Metadata
  <2>3. Document(delivery, "this").metadata = delivery
    BY DEF Document
  <2>4. DeliveredIsFiled'
    BY <1>1, <2>1, <2>2, <2>3 DEF DeliveredIsFiled, Filed
  <2>5. outcome.state # "archive_failed"
    BY <1>3
  <2>6. ~Refused
    BY <2>2 DEF Refused
  <2>7. Testimony'
    BY <1>1, <1>2, <2>1, <2>2, <2>4, <2>5, <2>6 DEF Testimony
  <2>8. CASE Filed = {}
    <3>1. \A d \in stored : d.id # RequestId(delivery)
      BY <2>8 DEF Filed
    <3>2. stored' = stored \cup {Document(delivery, "this")}
      BY <2>2, <2>8
    <3>3. UNCHANGED delivery
      BY <1>1, <2>1
    <3>4. /\ stored' \subseteq {Document(q, b) : q \in Payloads,
                                               b \in {"this", "another"}}
          /\ \A d, e \in stored' : d.id = e.id => d = e
      BY <3>1, <3>2, <3>3, ArchiveGrows
    <3>5. HandoffTypeOK' /\ History'
      BY <1>1, <1>7, <2>1, <3>4
    <3>6. Commitment'
      BY <1>1, <2>1, <2>2, <2>3, <3>2, <3>4
    <3> QED BY <1>1, <2>1, <2>5, <2>7, <3>5, <3>6
  <2>9. CASE Filed # {}
    BY <1>1, <2>1, <2>2, <2>5, <2>7, <2>9
  <2> QED BY <2>8, <2>9
<1>4. ASSUME NEW n \in inFlight, Refuse(n) PROVE HandoffInv'
  <2>1. Answer(n, "refused") /\ UNCHANGED stored /\ Refused
    BY <1>4 DEF Refuse, Refused, Metadata
  <2>2. Testimony'
    BY <1>1, <1>2, <2>1 DEF Testimony
  <2>3. HandoffTypeOK' /\ History'
    BY <1>1, <1>7, <2>1
  <2>4. Commitment' /\ FailedIsAbsent' /\ PendingWasSent'
    BY <1>1, <2>1
  <2> QED BY <2>2, <2>3, <2>4
<1>5. ASSUME NEW n \in inFlight, FailBefore(n) PROVE HandoffInv'
  <2>1. PICK r \in {"no_document_id", "unavailable"} : Answer(n, r)
    BY <1>5 DEF FailBefore
  <2>2. UNCHANGED stored
    BY <1>5 DEF FailBefore
  <2>3. Testimony'
    BY <1>1, <1>2, <2>1, <2>2 DEF Testimony
  <2>4. HandoffTypeOK' /\ History'
    BY <1>1, <1>7, <2>1, <2>2
  <2>5. Commitment' /\ FailedIsAbsent' /\ PendingWasSent'
    BY <1>1, <2>1, <2>2
  <2> QED BY <2>3, <2>4, <2>5
<1>6. ASSUME NEW p \in Payloads, FileAnother(p) PROVE HandoffInv'
  <2>1. /\ \A d \in stored : d.id # RequestId(p)
        /\ stored' = stored \cup {Document(p, "another")}
        /\ UNCHANGED <<client, sent, inFlight, reply, verdict>>
    BY <1>6 DEF FileAnother
  <2>2. Document(p, "another").by = "another"
    BY DEF Document
  <2>3. /\ stored' \subseteq {Document(q, b) : q \in Payloads,
                                             b \in {"this", "another"}}
        /\ \A d, e \in stored' : d.id = e.id => d = e
    BY <2>1, ArchiveGrows
  <2>4. Testimony'
    BY <1>2, <2>1 DEF Testimony
  <2>5. HandoffTypeOK' /\ History'
    BY <2>1, <2>3
  <2>6. Commitment'
    BY <2>1, <2>2, <2>3
  <2> QED BY <2>1, <2>2, <2>4, <2>5, <2>6
<1> QED BY <1>3, <1>4, <1>5, <1>6 DEF Archive

\* The invariant holds throughout a delivery.
THEOREM HandoffInvariant == HandoffSpec => []HandoffInv
<1>1. HandoffInv /\ UNCHANGED handoffVars => HandoffInv'
  BY DEF handoffVars, client, archive, HandoffInv, HandoffTypeOK, History,
         Commitment, Testimony, DeliveredIsFiled, Refused, Filed,
         FailedIsAbsent, PendingWasSent
<1>2. HandoffInv /\ [HandoffNext]_handoffVars => HandoffInv'
  BY <1>1, LoopKeepsInv, ArchiveKeepsInv DEF HandoffNext
<1> QED BY <1>2, HandoffStarts, PTL DEF HandoffSpec

\* Custody is only called verified where Archive holds the document of this
\* reference, these bytes and this origin, after any number of retries and
\* whatever else Archive holds (archive_handoff.py:454-481).
THEOREM VerifiedDeliveriesAreStored == HandoffSpec => []VerifiedIsStored
<1>1. HandoffInv => VerifiedIsStored
  <2> SUFFICES ASSUME HandoffInv, outcome.state = "archived_verified"
               PROVE  \E d \in stored :
                         d.id = outcome.request /\ d.metadata = delivery
    BY DEF VerifiedIsStored
  <2>1. PICK d \in stored : d.metadata = delivery
    BY DEF HandoffInv, Testimony, DeliveredIsFiled
  <2>2. d.id = RequestId(delivery) /\ outcome.request = RequestId(delivery)
    BY <2>1, DocumentFields DEF HandoffInv, Testimony
  <2> QED BY <2>1, <2>2
<1> QED BY <1>1, HandoffInvariant, PTL

\* A delivery called failed left no document, and nothing of it is still on
\* its way (archive_handoff.py:21-31, 334-379).
THEOREM FailedDeliveriesAreAbsent == HandoffSpec => []FailedIsAbsent
<1>1. HandoffInv => FailedIsAbsent
  BY DEF HandoffInv
<1> QED BY <1>1, HandoffInvariant, PTL

\* However often and by whomever a reference's bytes are delivered, one
\* document of them is filed; the id left for reconciliation finds it and no
\* other; and only this content, or this very artifact filed by another
\* origin, gets a delivery refused (archive_handoff.py:12-19, 85-110).
THEOREM OneDocumentIsFiled == HandoffSpec => []OneDocument
<1>1. ASSUME HandoffInv PROVE OneDocument
  <2>1. HandoffTypeOK /\ Commitment /\ Testimony /\ delivery \in Payloads
    BY <1>1 DEF HandoffInv, HandoffTypeOK
  <2>2. ASSUME NEW d \in stored, NEW e \in stored,
               d.metadata.reference = e.metadata.reference,
               d.metadata.bytes = e.metadata.bytes
        PROVE  d = e
    <3>1. d.id = e.id
      BY <2>1, <2>2, DocumentFields, IdsNameArtifacts
    <3> QED BY <2>1, <3>1 DEF Commitment
  <2>3. ASSUME NEW d \in stored
        PROVE  d.id = RequestId(delivery) <=> OfThisArtifact(d)
    BY <2>1, DocumentFields, IdsNameArtifacts DEF OfThisArtifact
  <2>4. step = "settled" => outcome.request = RequestId(delivery)
    BY <2>1 DEF Testimony
  <2>5. ASSUME outcome.state = "archive_failed", outcome.reason = "answered",
               verdict # "refuses"
        PROVE  \E d \in stored : OfThisArtifact(d) /\ d.metadata # delivery
    BY <2>1, <2>3, <2>5 DEF Testimony, Refused, Filed
  <2> QED BY <2>2, <2>3, <2>4, <2>5 DEF OneDocument
<1> QED BY <1>1, HandoffInvariant, PTL

\* A delivery left to reconciliation is one that left the process, unless
\* the loop itself broke (archive_handoff.py:343-349).
THEOREM PendingDeliveriesWereSent == HandoffSpec => []PendingWasSent
<1>1. HandoffInv => PendingWasSent
  BY DEF HandoffInv
<1> QED BY <1>1, HandoffInvariant, PTL

=============================================================================
