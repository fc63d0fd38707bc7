------------------------------ MODULE Readiness ------------------------------
(***************************************************************************)
(* What a process says of itself: the readiness probe, the supportability  *)
(* of /metadata and the gauge the scrape refreshes from it.                *)
(* src/app/services/render_{foundation,runtime}.py, dependencies/          *)
(* container.py, api/routes/system.py, observability/render_posture.py.    *)
(*                                                                         *)
(* A posture is of a process with valid settings, which name an engine and *)
(* its formats, and with its registry loaded, without which it does not    *)
(* start.  Its store is ready, refuses with a reason, or raises what the   *)
(* probe does not catch; counting its jobs in flight is another query.     *)
(***************************************************************************)
EXTENDS Integers

Postures ==
    [draining : BOOLEAN, store : {"ready", "refuses", "raises"}, runtime : BOOLEAN,
     counted : BOOLEAN, gauge : {"ready", "degraded", "unavailable"}]

\* Mutant of ReadinessStatus: a draining process is still ready.
ReadinessOfDependencies(p) ==
    IF p.store = "raises" THEN 500
    ELSE IF p.store = "ready" /\ p.runtime THEN 200 ELSE 503

\* GET /health/ready: the store is asked before the process is.
ReadinessStatus(p) ==
    IF p.store = "raises" THEN 500
    ELSE IF ~p.draining /\ p.store = "ready" /\ p.runtime THEN 200 ELSE 503

Supportability(p) ==
    CASE p.draining -> "degraded"
      [] ~p.draining /\ p.store # "ready" -> "unavailable"
      [] ~p.draining /\ p.store = "ready" ->
            IF p.runtime THEN "ready" ELSE "unavailable"

\* The scrape: what cannot be read leaves the gauge as it was.
Refreshed(p) == IF p.store = "raises" THEN p.gauge ELSE Supportability(p)

\* GET /metadata: the store twice more, unprotected, and the same refresh.
MetadataState(p) ==
    IF p.store = "raises" \/ ~p.counted THEN "error" ELSE Supportability(p)

-----------------------------------------------------------------------------
\* While the store can be asked, the probe, /metadata and the scrape agree
\* whether this process takes work; when it cannot, no probe says it does
\* (render_foundation.py:53-77, 126-151, system.py:67-135,
\* render_posture.py:30-58).
ReadinessAgrees(p) ==
    /\ MetadataState(p) = "ready" => ReadinessStatus(p) = 200
    /\ ReadinessStatus(p) = 200 /\ p.counted => MetadataState(p) = "ready"
    /\ p.store # "raises" => (ReadinessStatus(p) = 200 <=> Refreshed(p) = "ready")

=============================================================================
