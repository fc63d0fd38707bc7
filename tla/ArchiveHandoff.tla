--------------------------- MODULE ArchiveHandoff ---------------------------
(***************************************************************************)
(* One delivery of a rendered artifact into Archive's custody: the posting *)
(* loop of src/app/services/archive_handoff.py against an Archive that may *)
(* be unreachable, fail before or after it commits, answer late, or have   *)
(* its answer lost.  RenderLifecycle abstracts this loop to its Deliver,   *)
(* Archive and Settle steps.                                               *)
(*                                                                         *)
(* Archive is external, and holds the documents of other deliveries too:   *)
(* of other bytes under the same reference, of the same bytes by another   *)
(* job or another configuration, of this very payload in an earlier        *)
(* delivery.  What the code relies on is modelled: Archive files one       *)
(* document under a request id, a replay with the same metadata converges  *)
(* on it, the same id with other metadata is a 409, and any other 4xx is   *)
(* its verdict on the content, which does not change.  An Archive that     *)
(* also answered 4xx unread (429 to a retry, say) would break              *)
(* FailedIsAbsent.                                                         *)
(***************************************************************************)
EXTENDS Naturals, FiniteSets

CONSTANTS
    MaxAttempts,    \* archive_max_attempts
    References,     \* document references
    Contents,       \* artifact digests: which bytes
    Origins         \* the rest of the metadata: package and configuration

ASSUME MaxAttemptsAssumption == MaxAttempts \in Nat \ {0}

VARIABLES
    delivery,       \* the reference, the bytes and the origin delivered
    step,           \* where the loop is
    attempt,        \* the loop's counter
    answered,       \* last_answer_detail is set
    outcome,        \* the ArchiveHandoffOutcome: its state, why, and the id
    sent,           \* the attempts whose request left the process
    inFlight,       \* those that have not reached Archive
    reply,          \* the answer on its way to the attempt that waits
    verdict,        \* what Archive makes of this content
    stored          \* the documents in Archive

client == <<delivery, step, attempt, answered, outcome>>
archive == <<verdict, stored>>
handoffVars == <<client, sent, inFlight, reply, archive>>

\* Answers, by what _settled_outcome tells apart: 200 or 201 with a document
\* id, without one, any 4xx, anything else.
Replies == {"document", "no_document_id", "refused", "unavailable"}

States == {"archived_verified", "archive_pending", "archive_failed"}
Reasons == {"answered", "unobserved", "exhausted", "unexpected"}

Undecided == [state |-> "none", reason |-> "none", request |-> <<>>]

Payloads == [reference : References, bytes : Contents, origin : Origins]

\* Mutant of RequestId: the attempt counter goes into the id.
RequestIdPerAttempt(p) == <<"areq", p.reference, p.bytes, attempt>>

\* derive_archive_request_id: a digest of the reference and the bytes and of
\* nothing else (two of them never collide).
RequestId(p) == <<"areq", p.reference, p.bytes>>

\* Mutant of Metadata: render_attempt_id is the attempt counter.
MetadataPerAttempt == [delivery EXCEPT !.origin = <<@, attempt>>]

\* build_archive_metadata: every field is the package's, the bytes' or the
\* configuration's, so a retry reproduces it exactly.
Metadata == delivery

\* A document in Archive; by says which delivery's request filed it.
Document(metadata, by) ==
    [id |-> RequestId(metadata), metadata |-> metadata, by |-> by]

\* What Archive has filed under this delivery's request id.
Filed == {d \in stored : d.id = RequestId(delivery)}

HandoffInit ==
    /\ delivery \in Payloads
    /\ step = "connect" /\ attempt = 1 /\ answered = FALSE
    /\ outcome = Undecided
    /\ sent = {} /\ inFlight = {} /\ reply = "none"
    /\ verdict \in {"accepts", "refuses"} /\ stored = {}

SettleOn(state, reason) ==
    /\ step' = "settled"
    /\ outcome' = [state |-> state, reason |-> reason,
                   request |-> RequestId(delivery)]
    /\ UNCHANGED <<delivery, attempt, answered>>

-----------------------------------------------------------------------------
(* The transport: StdlibArchiveTransport.post_document *)

\* The connect itself failed: nothing can have been sent.
NotSent ==
    /\ step = "connect"
    /\ step' = "retry"
    /\ UNCHANGED <<delivery, attempt, answered, outcome>>
    /\ UNCHANGED <<sent, inFlight, reply, archive>>

\* Connected: from here on bytes may have left the process.
Post ==
    /\ step = "connect"
    /\ step' = "wait"
    /\ sent' = sent \cup {attempt}
    /\ inFlight' = inFlight \cup {attempt}
    /\ reply' = "none"
    /\ UNCHANGED <<delivery, attempt, answered, outcome, archive>>

-----------------------------------------------------------------------------
(* Archive *)

\* An answer is observed only by the attempt that still waits for it.
Answer(n, r) ==
    /\ inFlight' = inFlight \ {n}
    /\ reply' = IF step = "wait" /\ n = attempt THEN r ELSE reply
    /\ UNCHANGED <<client, sent, verdict>>

\* The document is filed, or found filed by a request with the same metadata,
\* whatever the caller then gets to see.
Commit(n) ==
    /\ n \in inFlight /\ verdict = "accepts"
    /\ \A d \in Filed : d.metadata = Metadata
    /\ stored' = IF Filed = {} THEN stored \cup {Document(Metadata, "this")}
                              ELSE stored
    /\ \E r \in {"document", "no_document_id", "unavailable"} : Answer(n, r)

\* Archive judges the content and refuses it, or refuses the request id with
\* other metadata than it was filed with.
Refuse(n) ==
    /\ n \in inFlight
    /\ verdict = "refuses" \/ \E d \in Filed : d.metadata # Metadata
    /\ Answer(n, "refused")
    /\ UNCHANGED stored

\* Something failed, or something in between answered, before anything was
\* committed.
FailBefore(n) ==
    /\ n \in inFlight
    /\ \E r \in {"no_document_id", "unavailable"} : Answer(n, r)
    /\ UNCHANGED stored

\* Another delivery's request is filed: an earlier one of this payload, the
\* same bytes from another job, a regenerated document.
FileAnother(p) ==
    /\ p = delivery => verdict = "accepts"
    /\ \A d \in stored : d.id # RequestId(p)
    /\ stored' = stored \cup {Document(p, "another")}
    /\ UNCHANGED <<client, sent, inFlight, reply, verdict>>

-----------------------------------------------------------------------------
(* The loop: _post_until_settled *)

\* A delivery sent and not seen to end is never called absent.
UnobservedState == "archive_pending"

\* What running out of attempts proves: unavailability if any attempt was
\* answered, absence if none was ever sent.
ExhaustedState ==
    IF answered THEN "archive_pending" ELSE "archive_failed"

\* Mutant of UnnamedState: any success is taken for custody.
UnnamedVerified == "archived_verified"

\* A success that names no document.
UnnamedState == "archive_pending"

Observe ==
    /\ step = "wait"
    /\ \/ reply = "document" /\ SettleOn("archived_verified", "answered")
       \/ reply = "no_document_id" /\ SettleOn(UnnamedState, "answered")
       \/ reply = "refused" /\ SettleOn("archive_failed", "answered")
       \/ /\ reply = "unavailable"
          /\ step' = "retry" /\ answered' = TRUE
          /\ UNCHANGED <<delivery, attempt, outcome>>
    /\ UNCHANGED <<sent, inFlight, reply, archive>>

\* Mutant of Unobserved: the transport has no timeout.
NeverTimesOut == FALSE

\* The deadline passes, or the connection is lost after the first byte.
Unobserved ==
    /\ step = "wait"
    /\ SettleOn(UnobservedState, "unobserved")
    /\ UNCHANGED <<sent, inFlight, reply, archive>>

MayRetry == attempt < MaxAttempts

Retry ==
    /\ step = "retry"
    /\ \/ /\ MayRetry
          /\ step' = "connect" /\ attempt' = attempt + 1
          /\ UNCHANGED <<delivery, answered, outcome>>
       \/ ~MayRetry /\ SettleOn(ExhaustedState, "exhausted")
    /\ UNCHANGED <<sent, inFlight, reply, archive>>

\* hand_off_and_record catches anything else that goes wrong in the loop.
Unexpected ==
    /\ step # "settled"
    /\ SettleOn("archive_pending", "unexpected")
    /\ UNCHANGED <<sent, inFlight, reply, archive>>

-----------------------------------------------------------------------------
Loop == NotSent \/ Post \/ Observe \/ Unobserved \/ Retry

Archive ==
    \/ \E n \in inFlight : Commit(n) \/ Refuse(n) \/ FailBefore(n)
    \/ \E p \in Payloads : FileAnother(p)

HandoffNext == Loop \/ Unexpected \/ Archive

HandoffSpec == HandoffInit /\ [][HandoffNext]_handoffVars

\* The transport's timeout bounds every wait; nothing need go wrong.
HandoffFairSpec == HandoffSpec /\ WF_handoffVars(Loop)

-----------------------------------------------------------------------------
\* The loop's locals, its outcome and Archive hold what they can hold.
HandoffTypeOK ==
    /\ delivery \in Payloads
    /\ step \in {"connect", "wait", "retry", "settled"}
    /\ attempt \in 1..MaxAttempts
    /\ answered \in BOOLEAN
    /\ outcome \in {Undecided} \cup
                    [state : States, reason : Reasons,
                     request : {RequestId(p) : p \in Payloads}]
    /\ sent \subseteq 1..MaxAttempts /\ inFlight \subseteq sent
    /\ reply \in {"none"} \cup Replies
    /\ verdict \in {"accepts", "refuses"}
    /\ stored \subseteq {Document(p, by) : p \in Payloads,
                                         by \in {"this", "another"}}

\* A document of this delivery's reference and bytes.
OfThisArtifact(d) ==
    /\ d.metadata.reference = delivery.reference
    /\ d.metadata.bytes = delivery.bytes

\* Verified custody is custody: Archive holds this reference's document with
\* these bytes and this origin, and not merely some document
\* (archive_handoff.py:454-481).
VerifiedIsStored ==
    outcome.state = "archived_verified" =>
        \E d \in stored : d.id = outcome.request /\ d.metadata = delivery

\* archive_failed is a proof of absence: no attempt of this delivery filed a
\* document, and no request of it is left that still could.  A retry of a
\* committed attempt is never taken for a misuse of the request id
\* (archive_handoff.py:12-31, 146-150, 334-379).
FailedIsAbsent ==
    outcome.state = "archive_failed" =>
        inFlight = {} /\ \A d \in stored : d.by # "this"

\* A reference and its bytes have one document however often and by whomever
\* they are delivered; the id an outcome leaves for reconciliation finds that
\* document and no other; and regenerated bytes are not turned away for the
\* document of the old ones (archive_handoff.py:12-19, 85-110, 443-451).
OneDocument ==
    /\ \A d, e \in stored :
          /\ d.metadata.reference = e.metadata.reference
          /\ d.metadata.bytes = e.metadata.bytes
          => d = e
    /\ step = "settled" =>
          \A d \in stored : d.id = outcome.request <=> OfThisArtifact(d)
    /\ outcome.state = "archive_failed" /\ outcome.reason = "answered" =>
          \/ verdict = "refuses"
          \/ \E d \in stored : OfThisArtifact(d) /\ d.metadata # delivery

\* A delivery that never left the process is not left for reconciliation to
\* look for, unless the loop itself broke (archive_handoff.py:343-349).
PendingWasSent ==
    outcome.state = "archive_pending" /\ outcome.reason # "unexpected" =>
        sent # {}

\* The synchronous submit that waits for the delivery is let go: the loop
\* settles whatever Archive and the network do.
DeliverySettles == <>(step = "settled")

=============================================================================
