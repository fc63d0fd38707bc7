------------------------ MODULE RenderRequestProofs ------------------------
(***************************************************************************)
(* The safety of RenderRequest, proved for any number of requests at once, *)
(* any limit, chunks, headers and packages, and any number of edits.       *)
(***************************************************************************)
EXTENDS RenderRequest, TLAPS

Columns == {"at", "declared", "sent", "kept", "tenants", "trace", "corr", "status"}

\* The status of a request is the one its length, its body or its tenant
\* gives: RefusalsSayWhy of one request.
SaysWhy(q) ==
    /\ q.status = 413 <=> q.declared = "over" \/ q.sent > MaxBody
    /\ q.status = 400 <=>
          \/ q.declared \in Unusable
          \/ Len(q.tenants) > 1
          \/ Len(q.tenants) = 1 /\ q.tenants[1] \in Malformed \ {Blank}
    /\ q.status = 401 => q.tenants \in {<<>>, <<Blank>>}

\* A request that is still at the boundary has declared nothing wrong, and
\* all of it that was sent was kept.
Clean(q) ==
    /\ q.status = 0 /\ q.declared \notin Unusable \cup {"over"}
    /\ q.tenants = <<>> /\ q.kept = q.sent

\* What holds of one request at the boundary: it has its columns, what is kept
\* of it is within the limit, and it is bound, admitted and refused as its step
\* says.
Kept(q) ==
    /\ DOMAIN q = Columns
    /\ q.at \in {"unsent", "reading", "buffered", "admitted", "answered", "dropped"}
    /\ q.status \in {0, 400, 401, 413}
    /\ q.kept \in Nat /\ q.sent \in Nat /\ q.kept <= MaxBody
    /\ q.at \in {"unsent", "reading", "buffered"} => Clean(q)
    /\ SaysWhy(q)
    /\ q.at = "admitted" =>
          Len(q.tenants) = 1 /\ q.tenants[1] \notin Malformed \cup {Blank}
    /\ q.at \notin {"unsent", "dropped"} => q.corr # "none" /\ q.trace # "none"

BoundaryInv ==
    /\ DOMAIN req = Requests
    /\ \A r \in Requests : Kept(req[r])

-----------------------------------------------------------------------------
(* The boundary *)

\* What is left of a request is a request like an unsent one, but for its ids.
LEMMA LeftOver ==
    ASSUME NEW r \in Requests, Kept(req[r])
    PROVE  /\ DOMAIN Without(r) = Columns
           /\ Without(r).status = 0 /\ Without(r).kept = 0 /\ Without(r).sent = 0
           /\ Without(r).declared = "absent" /\ Without(r).tenants = <<>>
           /\ Without(r).corr = req[r].corr /\ Without(r).trace = req[r].trace
BY DEF Without, Unsent, Columns

\* A request of which nothing is wrong has no reason to be refused.
LEMMA CleanSaysWhy ==
    ASSUME NEW q, Clean(q), q.sent \in Nat, q.sent <= MaxBody
    PROVE  SaysWhy(q)
<1>1. Len(q.tenants) = 0
  BY DEF Clean
<1> QED BY <1>1, MaxBodyAssumption DEF Clean, SaysWhy

LEMMA BoundaryStarts == BoundaryInit => BoundaryInv
<1>1. Clean(Unsent) /\ Unsent.sent = 0
  BY DEF Clean, Unsent, Unusable
<1>2. SaysWhy(Unsent)
  BY <1>1, CleanSaysWhy, MaxBodyAssumption
<1>3. Kept(Unsent)
  BY <1>1, <1>2, MaxBodyAssumption DEF Kept, Unsent, Columns
<1> QED BY <1>3 DEF BoundaryInit, BoundaryInv

\* A tenant header is refused for what it is: with 400 when it is ambiguous or
\* malformed, with 401 when it names nobody; otherwise it is one usable field.
LEMMA VerdictsSayWhy ==
    ASSUME NEW fields \in TenantFields
    PROVE  /\ TenantVerdict(fields) \in {0, 400, 401}
           /\ TenantVerdict(fields) = 400 <=>
                 \/ Len(fields) > 1
                 \/ Len(fields) = 1 /\ fields[1] \in Malformed \ {Blank}
           /\ TenantVerdict(fields) = 401 => fields \in {<<>>, <<Blank>>}
           /\ TenantVerdict(fields) = 0 =>
                 Len(fields) = 1 /\ fields[1] \notin Malformed \cup {Blank}
<1>1. fields \in Seq(STRING) /\ Len(fields) \in Nat
  BY FieldsAssumption
<1>2. fields = <<>> <=> Len(fields) = 0
  BY <1>1
<1>3. CASE Len(fields) > 1
  BY <1>1, <1>2, <1>3 DEF TenantVerdict
<1>4. CASE Len(fields) = 0
  BY <1>1, <1>2, <1>4 DEF TenantVerdict
<1>5. CASE Len(fields) = 1
  <2>1. fields = <<fields[1]>>
    BY <1>1, <1>5
  <2>2. fields # <<>> /\ ~(Len(fields) > 1)
    BY <1>2, <1>5
  <2>3. CASE fields[1] = Blank
    BY <1>5, <2>1, <2>2, <2>3 DEF TenantVerdict
  <2>4. CASE fields[1] # Blank
    BY <1>5, <2>2, <2>4 DEF TenantVerdict
  <2> QED BY <2>3, <2>4
<1>6. \A n \in Nat : n > 1 \/ n = 0 \/ n = 1
  OBVIOUS
<1>7. Len(fields) > 1 \/ Len(fields) = 0 \/ Len(fields) = 1
  BY <1>1, <1>6, Zenon
<1> QED BY <1>3, <1>4, <1>5, <1>7, Zenon

\* A step of a request at the boundary moves that request alone, which was
\* not admitted yet, and keeps the invariant.
LEMMA BoundaryKeepsInv ==
    ASSUME BoundaryInv, NEW r \in Requests, BoundaryNext(r)
    PROVE  /\ BoundaryInv'
           /\ req[r].at # "admitted"
           /\ \A q \in Requests \ {r} : req'[q] = req[q]
<1>0. DOMAIN req = Requests /\ Kept(req[r])
  BY DEF BoundaryInv
<1> SUFFICES BoundaryInv' /\ \A q \in Requests \ {r} : req'[q] = req[q]
  BY DEF BoundaryNext, Arrive, Chunk, EndOfStream, Disconnect, AdmitTenant
<1>1. ASSUME NEW to, req' = [req EXCEPT ![r] = to], Kept(to)
      PROVE  BoundaryInv' /\ \A q \in Requests \ {r} : req'[q] = req[q]
  <2>1. DOMAIN req' = Requests /\ req'[r] = to /\ \A q \in Requests \ {r} : req'[q] = req[q]
    BY <1>0, <1>1
  <2> QED BY <1>1, <2>1 DEF BoundaryInv
<1>2. CASE Arrive(r)
  <2>1. PICK declared \in Declared, trace \in Traces :
          req' = [req EXCEPT ![r] = Arrived(r, declared, trace)]
    BY <1>2 DEF Arrive
  <2> DEFINE seen == [Bound(r, trace) EXCEPT !.declared = declared]
  <2>2. TraceId(trace) # "none" /\ Stack[1] = "correlation"
    BY DEF TraceId, Stack
  <2>3. Clean(req[r]) /\ req[r].at = "unsent"
    BY <1>0, <1>2 DEF Arrive, Kept
  <2>4. /\ DOMAIN seen = Columns
        /\ seen.corr # "none" /\ seen.trace # "none" /\ seen.declared = declared
        /\ seen.status = 0 /\ seen.tenants = <<>> /\ seen.at = "unsent"
        /\ seen.kept = req[r].kept /\ seen.sent = req[r].kept
        /\ seen.kept \in Nat /\ seen.kept <= MaxBody
    BY <1>0, <2>2, <2>3 DEF Bound, Kept, Clean, Columns
  <2>5. Len(<<>>) = 0
    OBVIOUS
  <2>6. CASE declared \in Unusable
    <3>1. Arrived(r, declared, trace) = Refused(seen, 400)
      BY <2>2, <2>6 DEF Arrived, Unusable
    <3> HIDE DEF seen
    <3>2. SaysWhy(Refused(seen, 400))
      BY <2>4, <2>5, <2>6, MaxBodyAssumption DEF Refused, SaysWhy, Columns, Unusable
    <3>3. Kept(Refused(seen, 400))
      BY <2>4, <3>2 DEF Refused, Kept, Columns
    <3> QED BY <1>1, <2>1, <3>1, <3>3
  <2>7. CASE declared \notin Unusable /\ declared = "over"
    <3>1. Arrived(r, declared, trace) = Refused(seen, 413)
      BY <2>2, <2>7 DEF Arrived
    <3> HIDE DEF seen
    <3>2. SaysWhy(Refused(seen, 413))
      BY <2>4, <2>5, <2>7, MaxBodyAssumption DEF Refused, SaysWhy, Columns
    <3>3. Kept(Refused(seen, 413))
      BY <2>4, <3>2 DEF Refused, Kept, Columns
    <3> QED BY <1>1, <2>1, <3>1, <3>3
  <2>8. CASE declared \notin Unusable /\ declared # "over"
    <3> DEFINE to == [seen EXCEPT !.at = "reading"]
    <3>1. Arrived(r, declared, trace) = to
      BY <2>2, <2>8 DEF Arrived
    <3> HIDE DEF seen
    <3>2. /\ DOMAIN to = Columns /\ to.at = "reading"
          /\ to.corr # "none" /\ to.trace # "none" /\ to.declared = declared
          /\ to.status = 0 /\ to.tenants = <<>> /\ to.kept = to.sent
          /\ to.kept \in Nat /\ to.kept <= MaxBody
      BY <2>4 DEF Columns
    <3> HIDE DEF to
    <3>3. Clean(to)
      BY <2>8, <3>2 DEF Clean
    <3>4. Kept(to)
      BY <3>2, <3>3, CleanSaysWhy DEF Kept
    <3> QED BY <1>1, <2>1, <3>1, <3>4
  <2> QED BY <2>6, <2>7, <2>8
<1>3. CASE Chunk(r)
  <2>1. PICK size \in ChunkSizes :
          req' = [req EXCEPT ![r] =
             IF TooLong(r, size)
             THEN Refused([Without(r) EXCEPT !.sent = req[r].sent + size], 413)
             ELSE [req[r] EXCEPT !.sent = req[r].sent + size, !.kept = req[r].kept + size]]
    BY <1>3 DEF Chunk
  <2>2. size \in Nat /\ req[r].at = "reading"
    BY <1>3, ChunkAssumption DEF Chunk
  <2>3. Clean(req[r]) /\ req[r].kept \in Nat /\ req[r].sent = req[r].kept
    BY <1>0, <2>2 DEF Kept, Clean
  <2>4. CASE TooLong(r, size)
    <3> DEFINE to == Refused([Without(r) EXCEPT !.sent = req[r].sent + size], 413)
    <3>1. /\ DOMAIN to = Columns /\ to.at = "answered" /\ to.status = 413
          /\ to.kept = 0 /\ to.sent = req[r].kept + size
          /\ to.declared = "absent" /\ to.tenants = <<>>
          /\ to.corr = req[r].corr /\ to.trace = req[r].trace
      BY <1>0, <2>3, LeftOver DEF Refused, Columns
    <3>2. to.sent \in Nat /\ to.sent > MaxBody
      BY <2>2, <2>3, <2>4, <3>1, MaxBodyAssumption DEF TooLong
    <3> HIDE DEF to
    <3>3. Len(to.tenants) = 0
      BY <3>1
    <3>4. SaysWhy(to)
      BY <3>1, <3>2, <3>3 DEF SaysWhy, Unusable
    <3>5. Kept(to)
      BY <1>0, <2>2, <3>1, <3>2, <3>4, MaxBodyAssumption DEF Kept
    <3> QED BY <1>1, <2>1, <2>4, <3>5 DEF to
  <2>5. CASE ~TooLong(r, size)
    <3> DEFINE to == [req[r] EXCEPT !.sent = req[r].sent + size, !.kept = req[r].kept + size]
    <3>1. req[r].kept + size \in Nat /\ req[r].kept + size <= MaxBody
      BY <2>2, <2>3, <2>5, MaxBodyAssumption DEF TooLong
    <3>2. /\ DOMAIN to = Columns /\ to.at = "reading" /\ to.status = req[r].status
          /\ to.kept = req[r].kept + size /\ to.sent = req[r].kept + size
          /\ to.declared = req[r].declared /\ to.tenants = req[r].tenants
          /\ to.corr = req[r].corr /\ to.trace = req[r].trace
      BY <1>0, <2>2, <2>3 DEF Kept, Columns
    <3> HIDE DEF to
    <3>3. Clean(to)
      BY <2>3, <3>2 DEF Clean
    <3>4. SaysWhy(to)
      BY <3>1, <3>2, <3>3, CleanSaysWhy
    <3>5. Kept(to)
      BY <1>0, <2>2, <3>1, <3>2, <3>3, <3>4 DEF Kept
    <3> QED BY <1>1, <2>1, <2>5, <3>5 DEF to
  <2> QED BY <2>4, <2>5
<1>4. CASE EndOfStream(r)
  <2> DEFINE to == [req[r] EXCEPT !.at = "buffered"]
  <2>1. req' = [req EXCEPT ![r] = to] /\ req[r].at = "reading"
    BY <1>0, <1>4 DEF EndOfStream
  <2>2. /\ DOMAIN to = Columns /\ to.at = "buffered" /\ to.status = req[r].status
        /\ to.kept = req[r].kept /\ to.sent = req[r].sent
        /\ to.declared = req[r].declared /\ to.tenants = req[r].tenants
        /\ to.corr = req[r].corr /\ to.trace = req[r].trace
    BY <1>0 DEF Kept, Columns
  <2> HIDE DEF to
  <2>3. Clean(to)
    BY <1>0, <2>1, <2>2 DEF Kept, Clean
  <2>4. SaysWhy(to)
    BY <1>0, <2>1, <2>2, <2>3, CleanSaysWhy DEF Kept, Clean
  <2>5. Kept(to)
    BY <1>0, <2>1, <2>2, <2>3, <2>4 DEF Kept
  <2> QED BY <1>1, <2>1, <2>5
<1>5. CASE Disconnect(r)
  <2> DEFINE to == [Without(r) EXCEPT !.at = "dropped"]
  <2>1. /\ DOMAIN to = Columns /\ to.at = "dropped" /\ to.status = 0
        /\ to.kept = 0 /\ to.sent = 0 /\ to.declared = "absent" /\ to.tenants = <<>>
    BY <1>0, LeftOver DEF Columns
  <2> HIDE DEF to
  <2>2. Clean(to)
    BY <2>1 DEF Clean, Unusable
  <2>3. Kept(to)
    BY <2>1, <2>2, CleanSaysWhy, MaxBodyAssumption DEF Kept
  <2> QED BY <1>1, <1>5, <2>3 DEF Disconnect, to
<1>6. CASE AdmitTenant(r)
  <2>1. PICK fields \in TenantFields :
          req' = [req EXCEPT ![r] =
             IF TenantVerdict(fields) # 0
             THEN Refused([Without(r) EXCEPT !.tenants = fields], TenantVerdict(fields))
             ELSE [[Without(r) EXCEPT !.tenants = fields] EXCEPT !.at = "admitted"]]
    BY <1>6 DEF AdmitTenant
  <2> DEFINE verdict == TenantVerdict(fields)
             to == IF verdict # 0
                   THEN Refused([Without(r) EXCEPT !.tenants = fields], verdict)
                   ELSE [[Without(r) EXCEPT !.tenants = fields] EXCEPT !.at = "admitted"]
  <2>2. req[r].at = "buffered"
    BY <1>6 DEF AdmitTenant
  <2>3. /\ DOMAIN to = Columns
        /\ to.at = IF verdict # 0 THEN "answered" ELSE "admitted"
        /\ to.status = verdict /\ to.kept = 0 /\ to.sent = 0
        /\ to.declared = "absent" /\ to.tenants = fields
        /\ to.corr = req[r].corr /\ to.trace = req[r].trace
    BY <1>0, LeftOver DEF Refused, Columns
  <2>4. req' = [req EXCEPT ![r] = to]
    BY <2>1
  <2> HIDE DEF to, verdict
  <2>5. SaysWhy(to)
    BY <2>3, VerdictsSayWhy, MaxBodyAssumption DEF SaysWhy, Unusable, verdict
  <2>6. Kept(to)
    BY <1>0, <2>2, <2>3, <2>5, VerdictsSayWhy, MaxBodyAssumption DEF Kept, verdict
  <2> QED BY <1>1, <2>4, <2>6
<1> QED BY <1>2, <1>3, <1>4, <1>5, <1>6 DEF BoundaryNext

-----------------------------------------------------------------------------
(* The engine *)

AttemptColumns ==
    {"at", "package", "status", "category", "error", "digest", "copied",
     "version", "name", "workspace", "cause", "killFailed"}

\* A failed render blames what ended its compile.
Blames(a) ==
    a.error.kind \in {"compile", "timeout"} =>
        LET category == JobCategory(a.error)
        IN  /\ category = a.category
            /\ a.cause = "bound" => category = "resource_limit_exceeded"
            /\ a.cause = "stopped" => category = "engine_unavailable"
            /\ a.cause = "engine" => category = "unexpected_render_error"
            /\ a.cause = "timeout" => category = "timeout"
            /\ category = "template_render_failed" => a.cause \in {"template", "daemon"}

\* What holds of one render: it has no error before its end, it is killed for
\* its timeout alone, and its compile has its own name and workspace.
Sound(r, a) ==
    /\ DOMAIN a = AttemptColumns
    /\ a.at \in {"idle", "measuring", "copying", "compiling", "killing", "done"}
    /\ a.status \in {"accepted", "validating_package", "rendering", "rendered", "failed"}
    /\ a.at # "done" => a.error = NoError
    /\ a.at = "killing" => a.cause = "timeout"
    /\ a.at \in {"compiling", "killing"} => a.name = r /\ a.workspace = TRUE
    /\ Blames(a)

\* The template bytes a render read are some the directory has had.
ReadFrom(a, n) == a.digest \in {Unread} \cup 0..n /\ a.copied \in {Unread} \cup 0..n

\* A container runs under its render's name, and either its render is still
\* in its compile or the kill of it failed.
Housed(a) ==
    \/ a.at \in {"compiling", "killing"} /\ a.workspace = TRUE
    \/ a.at = "done" /\ a.killFailed = TRUE

Boxed(c) == c.of \in Renders /\ c.name = c.of /\ Housed(attempt[c.of])

EngineInv ==
    /\ up \in BOOLEAN /\ edits \in Nat
    /\ DOMAIN attempt = Renders
    /\ \A r \in Renders : Sound(r, attempt[r]) /\ ReadFrom(attempt[r], edits)
    /\ \A c \in containers : Boxed(c)

LEMMA EngineStarts == EngineInit => EngineInv
<1> SUFFICES ASSUME EngineInit PROVE EngineInv
  OBVIOUS
<1>1. \A r \in Renders : attempt[r] = Idle
  BY DEF EngineInit
<1>2. ASSUME NEW r PROVE Sound(r, Idle) /\ ReadFrom(Idle, 0)
  BY DEF Sound, ReadFrom, Idle, AttemptColumns, Blames, NoError
<1> QED BY <1>1, <1>2 DEF EngineInit, EngineInv

\* One render moves on, and the containers left are others' or still housed.
LEMMA OneMoves ==
    ASSUME EngineInv, NEW r \in Renders, NEW to,
           attempt' = [attempt EXCEPT ![r] = to],
           Sound(r, to), ReadFrom(to, edits),
           edits' = edits, up' = up,
           \A c \in containers' :
               \/ c \in containers /\ c.of # r
               \/ c.of = r /\ c.name = r /\ Housed(to)
    PROVE  EngineInv' /\ attempt'[r] = to /\ \A q \in Renders \ {r} : attempt'[q] = attempt[q]
<1>1. /\ DOMAIN attempt' = Renders /\ attempt'[r] = to
      /\ \A q \in Renders \ {r} : attempt'[q] = attempt[q]
  BY DEF EngineInv
<1>2. \A q \in Renders : Sound(q, attempt'[q]) /\ ReadFrom(attempt'[q], edits)
  BY <1>1 DEF EngineInv
<1>3. ASSUME NEW c \in containers' PROVE Boxed(c)'
  <2>1. CASE c \in containers /\ c.of # r
    BY <1>1, <2>1 DEF EngineInv, Boxed
  <2>2. CASE c.of = r /\ c.name = r /\ Housed(to)
    BY <1>1, <2>2 DEF Boxed
  <2> QED BY <2>1, <2>2
<1> QED BY <1>1, <1>2, <1>3 DEF EngineInv

\* However a compile ended by itself, its exit is read as what ended it.
LEMMA ExitsAreRead ==
    ASSUME NEW r, NEW ending \in Endings(r)
    PROVE  LET category == ClassifyCompileFailure(ending.exit)
           IN  \/ /\ ending.cause \in {"template", "daemon"}
                  /\ category = "template_render_failed"
               \/ ending.cause = "bound" /\ category = "resource_limit_exceeded"
               \/ ending.cause = "stopped" /\ category = "engine_unavailable"
               \/ ending.cause = "engine" /\ category = "unexpected_render_error"
<1>1. ASSUME NEW signal \in {6, 9, 11, 15, 24}
      PROVE  ClassifyCompileFailure([code |-> ExitCode(signal), spoke |-> FALSE])
                = SignalFailure(signal)
  <2>1. CASE host = "docker"
    <3>1. ExitCode(signal) = 128 + signal
      BY <2>1 DEF ExitCode
    <3>2. 128 + signal > 128 /\ ~(128 + signal < 0) /\ (128 + signal) - 128 = signal
      OBVIOUS
    <3> QED BY <3>1, <3>2 DEF ClassifyCompileFailure
  <2>2. CASE host # "docker"
    <3>1. ExitCode(signal) = -signal
      BY <2>2 DEF ExitCode
    <3>2. -signal < 0 /\ -(-signal) = signal
      OBVIOUS
    <3> QED BY <3>1, <3>2 DEF ClassifyCompileFailure
  <2> QED BY <2>1, <2>2
<1>2. CASE /\ ending.cause \in {"template", "daemon"}
           /\ \/ ending.exit = [code |-> 125, spoke |-> TRUE]
              \/ ending.exit = [code |-> 1, spoke |-> TRUE]
              \/ ending.exit = [code |-> 1, spoke |-> FALSE]
  BY <1>2 DEF ClassifyCompileFailure
<1>3. CASE \E s \in {6, 9, 24} :
              ending = [cause |-> "bound", exit |-> [code |-> ExitCode(s), spoke |-> FALSE]]
  <2>1. PICK s \in {6, 9, 24} :
          ending = [cause |-> "bound", exit |-> [code |-> ExitCode(s), spoke |-> FALSE]]
    BY <1>3
  <2>2. SignalFailure(s) = "resource_limit_exceeded"
    BY DEF SignalFailure, BoundSignals
  <2> QED BY <1>1, <2>1, <2>2
<1>4. CASE ending = [cause |-> "stopped", exit |-> [code |-> ExitCode(15), spoke |-> FALSE]]
  BY <1>1, <1>4 DEF SignalFailure, BoundSignals, StoppedSignals
<1>5. CASE ending = [cause |-> "engine", exit |-> [code |-> ExitCode(11), spoke |-> FALSE]]
  BY <1>1, <1>5 DEF SignalFailure, BoundSignals, StoppedSignals
<1>6. CASE host = "docker" /\ Own(r) = {}
  <2>1. ending = [cause |-> "daemon", exit |-> [code |-> 125, spoke |-> TRUE]]
    BY <1>6 DEF Endings
  <2> QED BY <1>2, <2>1
<1>7. CASE ~(host = "docker" /\ Own(r) = {})
  <2> DEFINE OfTemplate == {[cause |-> "template", exit |-> [code |-> 1, spoke |-> TRUE]],
                            [cause |-> "template", exit |-> [code |-> 1, spoke |-> FALSE]]}
             OfBounds == {[cause |-> "bound", exit |-> [code |-> ExitCode(s), spoke |-> FALSE]]
                            : s \in {6, 9, 24}}
             OfRuntime == {[cause |-> "stopped", exit |-> [code |-> ExitCode(15), spoke |-> FALSE]],
                           [cause |-> "engine", exit |-> [code |-> ExitCode(11), spoke |-> FALSE]]}
  <2>1. Endings(r) = OfTemplate \cup OfBounds \cup OfRuntime
    BY <1>7, Zenon DEF Endings
  <2>2. CASE ending \in OfTemplate
    <3>1. CASE ending = [cause |-> "template", exit |-> [code |-> 1, spoke |-> TRUE]]
      BY <1>2, <3>1
    <3>2. CASE ending = [cause |-> "template", exit |-> [code |-> 1, spoke |-> FALSE]]
      BY <1>2, <3>2
    <3> QED BY <2>2, <3>1, <3>2
  <2>3. CASE ending \in OfBounds
    BY <1>3, <2>3
  <2>4. CASE ending \in OfRuntime
    BY <1>4, <1>5, <2>4
  <2> HIDE DEF OfTemplate, OfBounds, OfRuntime
  <2>5. ending \in OfTemplate \/ ending \in OfBounds \/ ending \in OfRuntime
    BY <2>1
  <2> QED BY <2>2, <2>3, <2>4, <2>5
<1> QED BY <1>6, <1>7

\* A step of a render is its own: it was under way, no other render moves,
\* and only a container of it that ended with it is gone.
LEMMA EngineKeepsInv ==
    ASSUME EngineInv, NEW r \in Renders, EngineStep(r)
    PROVE  /\ EngineInv'
           /\ attempt[r].at # "idle"
           /\ \A q \in Renders \ {r} : attempt'[q] = attempt[q]
           /\ \A c \in containers \ containers' : c.of = r /\ attempt'[r].at = "done"
<1>0. /\ Sound(r, attempt[r]) /\ ReadFrom(attempt[r], edits)
      /\ \A c \in containers : Boxed(c)
      /\ edits \in Nat /\ up \in BOOLEAN
  BY DEF EngineInv
<1>1. CASE Measure(r)
  <2>0. attempt[r].at = "measuring"
    BY <1>1 DEF Measure, Step
  <2> DEFINE to == [attempt[r] EXCEPT !.at = "copying", !.status = "rendering",
                       !.digest = edits, !.version = RecordedVersion(probe')]
  <2>1. /\ attempt' = [attempt EXCEPT ![r] = to]
        /\ edits' = edits /\ up' = up /\ containers' = containers
    BY <1>1 DEF Measure, Step
  <2>2. Sound(r, to)
    BY <1>0, <2>0 DEF Sound, Blames, AttemptColumns, NoError
  <2>3. ReadFrom(to, edits)
    BY <1>0 DEF ReadFrom, Sound, AttemptColumns
  <2>4. \A c \in containers : c.of # r
    BY <1>0, <2>0 DEF Boxed, Housed
  <2> HIDE DEF to
  <2> QED BY <2>0, <2>1, <2>2, <2>3, <2>4, OneMoves
<1>2. CASE Start(r)
  <2>0. attempt[r].at = "copying"
    BY <1>2 DEF Start, Step
  <2>1. \A c \in containers : c.of # r
    BY <1>0, <2>0 DEF Boxed, Housed
  <2>2. edits' = edits /\ up' = up
    BY <1>2 DEF Start
  <2>3. CASE host = "none"
    <3> DEFINE raised == Raise(r, [kind |-> "no_runtime", category |-> "none"],
                               attempt[r].status, "none")
               to == [raised EXCEPT !.copied = edits]
    <3>1. attempt' = [attempt EXCEPT ![r] = to] /\ containers' = containers
      BY <1>2, <2>3 DEF Start, Step
    <3>2. Sound(r, to) /\ ReadFrom(to, edits)
      BY <1>0 DEF Raise, Sound, ReadFrom, Blames, AttemptColumns
    <3> HIDE DEF to
    <3> QED BY <2>0, <2>1, <2>2, <3>1, <3>2, OneMoves
  <2>4. CASE host # "none"
    <3> DEFINE to == [attempt[r] EXCEPT !.at = "compiling", !.copied = edits,
                                        !.workspace = TRUE, !.name = ContainerName(r)]
    <3>1. /\ attempt' = [attempt EXCEPT ![r] = to]
          /\ containers' \subseteq containers \cup {[name |-> r, of |-> r]}
          /\ containers \subseteq containers'
      BY <1>2, <2>4 DEF Start, Step, ContainerName
    <3>2. Sound(r, to) /\ ReadFrom(to, edits) /\ Housed(to)
      BY <1>0, <2>0 DEF Sound, ReadFrom, Housed, Blames, AttemptColumns, ContainerName, NoError
    <3>3. \A c \in containers' :
             \/ c \in containers /\ c.of # r
             \/ c.of = r /\ c.name = r /\ Housed(to)
      BY <2>1, <3>1, <3>2
    <3> HIDE DEF to
    <3> QED BY <2>0, <2>2, <3>1, <3>2, <3>3, OneMoves
  <2> QED BY <2>3, <2>4
<1>3. CASE CompileFails(r)
  <2>1. PICK ending \in Endings(r) :
          Step(r, "compiling",
               [Raise(r, [kind |-> "compile", category |-> ClassifyCompileFailure(ending.exit)],
                      "failed", ClassifyCompileFailure(ending.exit))
                   EXCEPT !.cause = ending.cause])
    BY <1>3 DEF CompileFails
  <2> DEFINE category == ClassifyCompileFailure(ending.exit)
             error == [kind |-> "compile", category |-> category]
             to == [Raise(r, error, "failed", category) EXCEPT !.cause = ending.cause]
  <2>2. attempt[r].at = "compiling" /\ attempt' = [attempt EXCEPT ![r] = to]
    BY <2>1 DEF Step
  <2>3. JobCategory(error) = category
    BY DEF JobCategory, UnexpectedCategory
  <2>4. /\ DOMAIN to = AttemptColumns /\ to.at = "done" /\ to.status = "failed"
        /\ to.error = error /\ to.category = category /\ to.cause = ending.cause
        /\ to.digest = attempt[r].digest /\ to.copied = attempt[r].copied
    BY <1>0 DEF Raise, Sound, AttemptColumns
  <2>5. Blames(to)
    BY <2>3, <2>4, ExitsAreRead DEF Blames
  <2>6. Sound(r, to) /\ ReadFrom(to, edits)
    BY <1>0, <2>4, <2>5 DEF Sound, ReadFrom
  <2>7. /\ containers' = {c \in containers : c.of # r}
        /\ edits' = edits /\ up' = up
    BY <1>3 DEF CompileFails, Own
  <2>8. to.at = "done"
    BY <2>4
  <2> HIDE DEF to
  <2> QED BY <2>2, <2>6, <2>7, <2>8, OneMoves
<1>4. CASE CompileSucceeds(r)
  <2> DEFINE to == [attempt[r] EXCEPT !.at = "done", !.workspace = FALSE,
                                      !.status = "rendered", !.cause = "success"]
  <2>1. /\ attempt[r].at = "compiling" /\ attempt' = [attempt EXCEPT ![r] = to]
        /\ containers' = {c \in containers : c.of # r}
        /\ edits' = edits /\ up' = up
    BY <1>4 DEF CompileSucceeds, Step, Own
  <2>2. Sound(r, to) /\ ReadFrom(to, edits) /\ to.at = "done"
    BY <1>0, <2>1 DEF Sound, ReadFrom, Blames, AttemptColumns, NoError
  <2> HIDE DEF to
  <2> QED BY <2>1, <2>2, OneMoves
<1>5. CASE TimeOut(r)
  <2> DEFINE to == [attempt[r] EXCEPT !.at = "killing", !.cause = "timeout"]
  <2>1. /\ attempt[r].at = "compiling" /\ attempt' = [attempt EXCEPT ![r] = to]
        /\ containers' = containers /\ edits' = edits /\ up' = up
    BY <1>5 DEF TimeOut, Step
  <2>2. Sound(r, to) /\ ReadFrom(to, edits) /\ Housed(to)
    BY <1>0, <2>1 DEF Sound, ReadFrom, Housed, Blames, AttemptColumns, NoError
  <2>3. \A c \in containers : c.of = r => c.name = r
    BY <1>0 DEF Boxed
  <2> HIDE DEF to
  <2> QED BY <2>1, <2>2, <2>3, OneMoves
<1>6. CASE Kill(r)
  <2>1. PICK works \in {up, FALSE} :
          /\ Step(r, "killing",
               [Raise(r, [kind |-> "timeout", category |-> "none"], "failed", "timeout")
                  EXCEPT !.killFailed = ~works /\ Own(r) # {}])
          /\ containers' = IF works
                           THEN {c \in containers : c.name # attempt[r].name}
                           ELSE containers
    BY <1>6 DEF Kill
  <2> DEFINE error == [kind |-> "timeout", category |-> "none"]
             to == [Raise(r, error, "failed", "timeout")
                      EXCEPT !.killFailed = ~works /\ Own(r) # {}]
  <2>2. /\ attempt[r].at = "killing" /\ attempt' = [attempt EXCEPT ![r] = to]
        /\ edits' = edits /\ up' = up
    BY <1>6, <2>1 DEF Step, Kill
  <2>3. /\ DOMAIN to = AttemptColumns /\ to.at = "done" /\ to.status = "failed"
        /\ to.error = error /\ to.category = "timeout" /\ to.cause = "timeout"
        /\ to.digest = attempt[r].digest /\ to.copied = attempt[r].copied
        /\ to.killFailed = (~works /\ Own(r) # {})
    BY <1>0, <2>2 DEF Raise, Sound, AttemptColumns
  <2>4. JobCategory(error) = "timeout"
    BY DEF JobCategory
  <2>5. Sound(r, to) /\ ReadFrom(to, edits)
    BY <1>0, <2>3, <2>4 DEF Sound, ReadFrom, Blames
  <2>6. attempt[r].name = r /\ \A c \in containers : c.name = c.of
    BY <1>0, <2>2 DEF Sound, Boxed
  <2>7. CASE works
    <3>1. containers' = {c \in containers : c.of # r}
      BY <2>1, <2>6, <2>7
    <3>2. to.at = "done"
      BY <2>3
    <3> HIDE DEF to
    <3> QED BY <2>2, <2>5, <3>1, <3>2, OneMoves
  <2>8. CASE ~works
    <3>1. containers' = containers
      BY <2>1, <2>8
    <3>2. ASSUME NEW c \in containers, c.of = r PROVE c.name = r /\ Housed(to)
      <4>1. to.killFailed = TRUE
        BY <2>3, <2>8, <3>2 DEF Own
      <4> QED BY <2>3, <2>6, <3>2, <4>1 DEF Housed
    <3> HIDE DEF to
    <3> QED BY <2>2, <2>5, <3>1, <3>2, OneMoves
  <2> QED BY <2>7, <2>8
<1> QED BY <1>1, <1>2, <1>3, <1>4, <1>5, <1>6 DEF EngineStep

\* A render begins from a request's package, or ends there.
LEMMA ValidateKeepsInv ==
    ASSUME EngineInv, NEW r \in Renders, NEW package, Validate(r, package)
    PROVE  /\ EngineInv'
           /\ \A q \in Renders \ {r} : attempt'[q] = attempt[q]
           /\ containers' = containers
<1> DEFINE reason == DispatchReason(Manifests(ServedFiles), package, Formats)
           begun == [attempt[r] EXCEPT !.package = package.name,
                                       !.status = "validating_package"]
           incompatible == [begun EXCEPT !.at = "done",
                              !.error = [kind |-> "compatibility", category |-> reason]]
           undrawable == [begun EXCEPT !.at = "done", !.status = "failed",
                              !.category = "package_validation_failed",
                              !.error = [kind |-> "value", category |-> "context"]]
           going == [begun EXCEPT !.at = "measuring"]
<1>1. /\ attempt[r].at = "idle"
      /\ attempt' = [attempt EXCEPT ![r] =
            IF reason # "dispatched" THEN incompatible
            ELSE IF ~package.drawable THEN undrawable ELSE going]
      /\ edits' = edits /\ up' = up /\ containers' = containers
  BY DEF Validate, Step
<1>2. Sound(r, attempt[r]) /\ ReadFrom(attempt[r], edits) /\ \A c \in containers : Boxed(c)
  BY DEF EngineInv
<1>3. \A c \in containers : c.of # r
  BY <1>1, <1>2 DEF Boxed, Housed
<1>4. Sound(r, incompatible) /\ ReadFrom(incompatible, edits)
  BY <1>2 DEF Sound, ReadFrom, Blames, AttemptColumns
<1>5. Sound(r, undrawable) /\ ReadFrom(undrawable, edits)
  BY <1>2 DEF Sound, ReadFrom, Blames, AttemptColumns
<1>6. Sound(r, going) /\ ReadFrom(going, edits)
  BY <1>1, <1>2 DEF Sound, ReadFrom, Blames, AttemptColumns, NoError
<1> HIDE DEF incompatible, undrawable, going, reason
<1>7. PICK to : /\ attempt' = [attempt EXCEPT ![r] = to]
                /\ Sound(r, to) /\ ReadFrom(to, edits)
  BY <1>1, <1>4, <1>5, <1>6
<1> QED BY <1>1, <1>3, <1>7, OneMoves

\* The directory, the daemon and left-over containers move no render.
LEMMA SurroundingsKeepInv ==
    ASSUME EngineInv, ContainerEnds \/ Edit \/ DaemonFlips
    PROVE  /\ EngineInv' /\ attempt' = attempt
           /\ up' = up => \A c \in containers \ containers' : attempt[c.of].at = "done"
<1>1. CASE ContainerEnds
  BY <1>1 DEF ContainerEnds, EngineInv, Boxed
<1>2. CASE Edit
  <2>1. /\ edits' = edits + 1 /\ edits \in Nat
        /\ attempt' = attempt /\ up' = up /\ containers' = containers
    BY <1>2 DEF Edit, EngineInv
  <2>2. \A r \in Renders : ReadFrom(attempt[r], edits')
    BY <2>1 DEF EngineInv, ReadFrom
  <2> QED BY <2>1, <2>2 DEF EngineInv, Boxed
<1>3. CASE DaemonFlips
  BY <1>3 DEF DaemonFlips, EngineInv, Boxed
<1> QED BY <1>1, <1>2, <1>3

-----------------------------------------------------------------------------
(* The request and its render *)

\* A request costs the engine nothing before it is admitted.
RequestInv ==
    /\ BoundaryInv
    /\ EngineInv
    /\ \A r \in Requests : req[r].at # "admitted" => attempt[r] = Idle

LEMMA RequestStarts == RequestInit => RequestInv
BY BoundaryStarts, EngineStarts, OneRenderPerRequest
   DEF RequestInit, RequestInv, EngineInit

\* Every step keeps the invariant, and takes a container from a render that
\* is still waiting for it only by the daemon's end.
LEMMA RequestStepKeepsInv ==
    ASSUME RequestInv, [RequestNext]_requestVars
    PROVE  /\ RequestInv'
           /\ up' = up => \A c \in containers \ containers' : attempt'[c.of].at = "done"
<1> USE OneRenderPerRequest
<1>0. BoundaryInv /\ EngineInv
  BY DEF RequestInv
<1>1. ASSUME NEW r \in Requests, BoundaryNext(r), UNCHANGED engineVars
      PROVE  RequestInv' /\ containers' = containers
  <2>1. /\ BoundaryInv' /\ req[r].at # "admitted"
        /\ \A q \in Requests \ {r} : req'[q] = req[q]
    BY <1>0, <1>1, BoundaryKeepsInv
  <2>2. EngineInv' /\ attempt' = attempt /\ containers' = containers
    BY <1>0, <1>1 DEF engineVars, EngineInv, Boxed
  <2> QED BY <2>1, <2>2 DEF RequestInv
<1>2. ASSUME NEW r \in Requests, Handle(r)
      PROVE  RequestInv' /\ containers' = containers
  <2>1. PICK package \in Packages : Validate(r, package)
    BY <1>2 DEF Handle
  <2>2. req' = req /\ req[r].at = "admitted"
    BY <1>2 DEF Handle
  <2>3. /\ EngineInv' /\ containers' = containers
        /\ \A q \in Renders \ {r} : attempt'[q] = attempt[q]
    BY <1>0, <2>1, ValidateKeepsInv
  <2> QED BY <1>0, <2>2, <2>3 DEF RequestInv, BoundaryInv
<1>3. ASSUME NEW r \in Requests, EngineStep(r), UNCHANGED req
      PROVE  RequestInv' /\ \A c \in containers \ containers' : attempt'[c.of].at = "done"
  <2>1. /\ EngineInv' /\ attempt[r].at # "idle"
        /\ \A q \in Renders \ {r} : attempt'[q] = attempt[q]
        /\ \A c \in containers \ containers' : c.of = r /\ attempt'[r].at = "done"
    BY <1>0, <1>3, EngineKeepsInv
  <2>2. req[r].at = "admitted"
    BY <2>1 DEF RequestInv, Idle
  <2> QED BY <1>0, <1>3, <2>1, <2>2 DEF RequestInv, BoundaryInv
<1>4. CASE (ContainerEnds \/ Edit \/ DaemonFlips) /\ UNCHANGED req
  <2>1. /\ EngineInv' /\ attempt' = attempt
        /\ up' = up => \A c \in containers \ containers' : attempt[c.of].at = "done"
    BY <1>0, <1>4, SurroundingsKeepInv
  <2> QED BY <1>0, <1>4, <2>1 DEF RequestInv, BoundaryInv
<1>5. CASE UNCHANGED requestVars
  BY <1>0, <1>5 DEF requestVars, engineVars, RequestInv, BoundaryInv, EngineInv, Boxed
<1> QED BY <1>1, <1>2, <1>3, <1>4, <1>5 DEF RequestNext

\* RequestInv is inductive: it holds of every state the composition reaches.
THEOREM RequestInvariant == RequestSpec => []RequestInv
BY RequestStarts, RequestStepKeepsInv, PTL DEF RequestSpec

\* However a body is cut up and whatever it declared, it is held whole and
\* within the limit (http_boundary.py:32-42, 96-116).
THEOREM BodiesAreWholeAndBounded == RequestSpec => []BodyIsWholeAndBounded
<1>1. RequestInv => BodyIsWholeAndBounded
  BY DEF RequestInv, BoundaryInv, Kept, Clean, BodyIsWholeAndBounded
<1> QED BY <1>1, RequestInvariant, PTL

\* Nothing is resolved, copied or compiled for a request the boundary has not
\* let through, and every refusal is for what is wrong with the request, 413
\* for its size, 400 for its declared length or its tenant field and 401 for
\* naming no tenant, and is correlated (admitted_tenant.py:30-75,
\* http_boundary.py:24-42, 58-116).
THEOREM RefusalsAreFree == RequestSpec => []RefusalsCostNothing
<1>1. RequestInv => RequestTypeOK
  BY OneRenderPerRequest
     DEF RequestInv, BoundaryInv, Kept, EngineInv, Sound, ReadFrom, Boxed, RequestTypeOK
<1>2. RequestInv => OneTenantIsAdmitted /\ RefusalsAreCorrelated
  BY DEF RequestInv, BoundaryInv, Kept, OneTenantIsAdmitted, RefusalsAreCorrelated
<1>3. RequestInv => RefusalsSayWhy
  <2> SUFFICES ASSUME RequestInv, NEW r \in Requests PROVE SaysWhy(req[r])
    BY Zenon DEF RefusalsSayWhy, SaysWhy
  <2> QED BY DEF RequestInv, BoundaryInv, Kept
<1>4. RequestInv => RefusalsCostNothing
  BY <1>1, <1>2, <1>3 DEF RequestInv, RefusalsCostNothing
<1> QED BY <1>4, RequestInvariant, PTL

\* The category of a failed render blames what ended its compile, for every
\* exit code and every signal the model gives it (compile_failures.py:49-112,
\* render_job_views.py:46-68).
THEOREM FailuresBlameTheirCause == RequestSpec => []FailureBlamesItsCause
<1>1. RequestInv => FailureBlamesItsCause
  BY DEF RequestInv, EngineInv, Sound, Blames, FailureBlamesItsCause
<1> QED BY <1>1, RequestInvariant, PTL

\* A compile that still runs has its workspace, or outlived its kill
\* (typst_rendering.py:176-193, 330-347).
THEOREM CompilesAreHoused == RequestSpec => []ContainersHaveTheirWorkspace
<1>1. RequestInv => ContainersHaveTheirWorkspace
  BY DEF RequestInv, EngineInv, Boxed, Housed, ContainersHaveTheirWorkspace
<1> QED BY <1>1, RequestInvariant, PTL

\* A kill by name reaches only the container of the render that timed out
\* (typst_rendering.py:86-93).
THEOREM KillsStayHome == RequestSpec => KillsReachOnlyTheirOwn
<1>1. ASSUME RequestInv, [RequestNext]_requestVars
      PROVE  [up' = up => \A c \in containers \ containers' :
                 attempt'[c.of].at = "done"]_engineVars
  BY <1>1, RequestStepKeepsInv
<1> QED BY <1>1, RequestInvariant, PTL DEF RequestSpec, KillsReachOnlyTheirOwn

=============================================================================
