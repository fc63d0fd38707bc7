---------------------------- MODULE HttpBoundary ----------------------------
(***************************************************************************)
(* A request at the edge of lotus-render: correlation is bound, the body   *)
(* is read off the stream under a limit and replayed, and one transport    *)
(* tenant is admitted, before any handler runs.                            *)
(* src/app/middleware/{correlation,http_boundary}.py,                      *)
(* dependencies/admitted_tenant.py and the order main.py stacks them in.   *)
(*                                                                         *)
(* A body is a number of bytes; its declared length is absent, unusable,   *)
(* or on either side of the limit, and the stream need not agree with it.  *)
(***************************************************************************)
EXTENDS Naturals, Sequences

CONSTANTS
    Requests,
    MaxBody,        \* max_request_body_bytes
    ChunkSizes,     \* sizes a chunk of the stream may have
    TenantFields,   \* X-Tenant-Id header fields, as a sequence of values
    Malformed,      \* values that are padded, too long or unprintable
    Traces          \* correlation headers: traceparent, X-Trace-Id and
                    \* X-Correlation-Id

ASSUME MaxBodyAssumption == MaxBody \in Nat \ {0}
ASSUME ChunkAssumption == ChunkSizes \subseteq Nat
ASSUME FieldsAssumption == TenantFields \subseteq Seq(STRING)

VARIABLE req

\* A request nobody sent yet.
Unsent == [at |-> "unsent", declared |-> "absent", sent |-> 0, kept |-> 0,
           tenants |-> <<>>, trace |-> "none", corr |-> "none", status |-> 0]

BoundaryInit == req = [r \in Requests |-> Unsent]

\* What is left of a request once its body was handed on or dropped.
Without(r) ==
    [Unsent EXCEPT !.trace = req[r].trace, !.corr = req[r].corr]

\* A refused request, with what it was refused for still in it.
Refused(q, status) == [q EXCEPT !.at = "answered", !.status = status]

-----------------------------------------------------------------------------
(* Correlation *)

\* A valid traceparent wins over X-Trace-Id; with neither, a fresh id.
TraceId(trace) ==
    IF trace.parent = "w3c" THEN "parent"
    ELSE IF trace.header # "none" THEN "header" ELSE "fresh"

\* The stack, outermost first: the middleware added last runs first.
Stack == <<"correlation", "limit">>

Bound(r, trace) ==
    [req[r] EXCEPT !.trace = TraceId(trace),
                   !.corr = IF trace.corr = "none" THEN "fresh" ELSE "caller"]

-----------------------------------------------------------------------------
(* The body *)

Unusable == {"malformed", "negative"}
Declared == Unusable \cup {"absent", "within", "over"}

\* Mutant of TooLong: a request without a declared length is taken at its word.
TooLongIfDeclared(r, size) ==
    req[r].declared # "absent" /\ req[r].kept + size > MaxBody

TooLong(r, size) == req[r].kept + size > MaxBody

\* The headers are in: an unusable or over-limit declaration is refused
\* before anything is read.
Arrived(r, declared, trace) ==
    LET bound == IF Stack[1] = "correlation" THEN Bound(r, trace) ELSE req[r]
        seen == [bound EXCEPT !.declared = declared]
    IN  CASE declared \in Unusable -> Refused(seen, 400)
          [] declared = "over" -> Refused(seen, 413)
          [] OTHER -> [seen EXCEPT !.at = "reading"]

Arrive(r) ==
    /\ req[r].at = "unsent"
    /\ \E declared \in Declared, trace \in Traces :
          req' = [req EXCEPT ![r] = Arrived(r, declared, trace)]

\* One chunk; an empty one is skipped, one that passes the limit ends it.
Chunk(r) ==
    /\ req[r].at = "reading"
    /\ \E size \in ChunkSizes :
          req' = [req EXCEPT ![r] =
             IF TooLong(r, size)
             THEN Refused([Without(r) EXCEPT !.sent = req[r].sent + size], 413)
             ELSE [req[r] EXCEPT !.sent = @ + size, !.kept = @ + size]]

\* The stream ends; what was kept is what every later receive will give.
EndOfStream(r) ==
    /\ req[r].at = "reading"
    /\ req' = [req EXCEPT ![r].at = "buffered"]

Disconnect(r) ==
    /\ req[r].at = "reading"
    /\ req' = [req EXCEPT ![r] = [Without(r) EXCEPT !.at = "dropped"]]

-----------------------------------------------------------------------------
(* The tenant *)

\* A field without a value.
Blank == ""

\* Mutant of TenantVerdict: the first of several fields is taken.
TenantVerdictOfFirst(fields) ==
    IF fields = <<>> \/ fields[1] = Blank THEN 401
    ELSE IF fields[1] \in Malformed THEN 400 ELSE 0

\* The status a tenant header is refused with, or 0 when it is admitted.
TenantVerdict(fields) ==
    IF Len(fields) > 1 THEN 400
    ELSE IF fields = <<>> \/ fields[1] = Blank THEN 401
    ELSE IF fields[1] \in Malformed THEN 400 ELSE 0

\* FastAPI solves the dependency before it validates the package.
AdmitTenant(r) ==
    /\ req[r].at = "buffered"
    /\ \E fields \in TenantFields :
          req' = [req EXCEPT ![r] =
             LET named == [Without(r) EXCEPT !.tenants = fields]
             IN  IF TenantVerdict(fields) # 0
                 THEN Refused(named, TenantVerdict(fields))
                 ELSE [named EXCEPT !.at = "admitted"]]

BoundaryNext(r) ==
    Arrive(r) \/ Chunk(r) \/ EndOfStream(r) \/ Disconnect(r) \/ AdmitTenant(r)

-----------------------------------------------------------------------------
(* Properties *)

\* Whatever length was declared, or none, and however the stream is cut into
\* chunks, no more than the limit is ever held and a handler only sees a body
\* that was received whole (http_boundary.py:32-42, 96-116).
BodyIsWholeAndBounded ==
    \A r \in Requests :
        /\ req[r].kept <= MaxBody
        /\ req[r].at = "buffered" => req[r].kept = req[r].sent

\* A request that reached a handler carries exactly one usable tenant field:
\* two equal ones are as ambiguous as two different ones
\* (admitted_tenant.py:30-75).
OneTenantIsAdmitted ==
    \A r \in Requests :
        req[r].at = "admitted" =>
            /\ Len(req[r].tenants) = 1
            /\ req[r].tenants[1] \notin Malformed \cup {Blank}

\* A request is refused for what is wrong with it and for nothing else: 413
\* exactly when more than the limit was declared or sent, 400 exactly when its
\* declared length is unusable or its tenant ambiguous or malformed, and 401
\* only when it names no tenant (http_boundary.py:24-42, 58-116,
\* admitted_tenant.py:30-75).
RefusalsSayWhy ==
    \A r \in Requests :
        LET q == req[r] IN
        /\ q.status = 413 <=> q.declared = "over" \/ q.sent > MaxBody
        /\ q.status = 400 <=>
              \/ q.declared \in Unusable
              \/ Len(q.tenants) > 1
              \/ Len(q.tenants) = 1 /\ q.tenants[1] \in Malformed \ {Blank}
        /\ q.status = 401 => q.tenants \in {<<>>, <<Blank>>}

\* Every answer, the refusals of the inner middleware and of the tenant
\* dependency too, was given with a correlation id and a trace id bound
\* (main.py:145-156, http_boundary.py:58-83).
RefusalsAreCorrelated ==
    \A r \in Requests :
        req[r].at \notin {"unsent", "dropped"} =>
            req[r].corr # "none" /\ req[r].trace # "none"

=============================================================================
