--------------------------- MODULE RenderRequest ---------------------------
(***************************************************************************)
(* A request from the wire to its document: HttpBoundary admits it, and    *)
(* the admitted request is one render of TypstEngine.  The store and the   *)
(* claim between the two are RenderLifecycle's and are left out here.      *)
(***************************************************************************)
EXTENDS HttpBoundary, TypstEngine

CONSTANT Packages       \* what a request may ask to render

ASSUME OneRenderPerRequest == Renders = Requests

requestVars == <<req, engineVars>>

RequestInit == BoundaryInit /\ EngineInit

\* The handler runs the engine for a request that was admitted.
Handle(r) ==
    /\ req[r].at = "admitted"
    /\ \E package \in Packages : Validate(r, package)
    /\ UNCHANGED req

RequestNext ==
    \/ \E r \in Requests :
          \/ BoundaryNext(r) /\ UNCHANGED engineVars
          \/ Handle(r)
          \/ EngineStep(r) /\ UNCHANGED req
    \/ (ContainerEnds \/ Edit \/ DaemonFlips) /\ UNCHANGED req

RequestSpec == RequestInit /\ [][RequestNext]_requestVars

\* A thread goes on, and the timeout and the kill are bounded waits; a
\* compile need not end by itself.
RequestFairSpec ==
    /\ RequestSpec
    /\ \A r \in Requests :
          /\ WF_requestVars(Handle(r))
          /\ WF_requestVars((Measure(r) \/ Start(r) \/ TimeOut(r) \/ Kill(r))
                             /\ UNCHANGED req)

-----------------------------------------------------------------------------
RequestTypeOK ==
    /\ \A r \in Requests :
          /\ req[r].at \in {"unsent", "reading", "buffered", "admitted",
                            "answered", "dropped"}
          /\ req[r].status \in {0, 400, 401, 413}
          /\ attempt[r].at \in {"idle", "measuring", "copying", "compiling",
                                "killing", "done"}
          /\ attempt[r].status \in {"accepted", "validating_package",
                                    "rendering", "rendered", "failed"}
          /\ {attempt[r].digest, attempt[r].copied} \subseteq {Unread} \cup 0..edits
    /\ \A c \in containers : c.of \in Requests

\* Nothing of a request the boundary refused, or is still reading, is ever
\* resolved, copied or compiled: the refusal costs no engine work.  Its
\* status is the one its length, its body or its tenant field gives, what
\* reaches a handler has one usable tenant, and the refusal is correlated
\* like every answer.
RefusalsCostNothing ==
    /\ RequestTypeOK
    /\ \A r \in Requests : req[r].at # "admitted" => attempt[r] = Idle
    /\ RefusalsSayWhy /\ OneTenantIsAdmitted /\ RefusalsAreCorrelated

\* Every admitted request's render ends, rendered or failed, though its
\* compile may hang and the kill of its container may fail.
RendersEnd ==
    \A r \in Requests : (req[r].at = "admitted") ~> (attempt[r].at = "done")

=============================================================================
