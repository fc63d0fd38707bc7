---------------------------- MODULE TypstEngine ----------------------------
(***************************************************************************)
(* The PDF engine: one render is resolved, measured, copied to a workspace *)
(* and compiled by a child process that may fail, be killed or outlive its *)
(* timeout.  src/app/services/typst_rendering.py, compile_failures.py and  *)
(* the classification of engine errors in render_job_views.py.             *)
(*                                                                         *)
(* Renders run concurrently, the template directory stays editable while   *)
(* the process serves, and the compile runtime may come and go.            *)
(***************************************************************************)
EXTENDS TemplateRegistry, Integers

CONSTANTS
    Renders,        \* renders that may run at once
    ServedFiles,    \* the manifests the process loaded at its start
    Formats,        \* supported_output_formats
    Hosts,          \* which compile runtimes the host may have
    MaxEdits        \* bound: edits of the template directory

VARIABLES
    host,           \* "docker", "local" or "none"
    up,             \* whether the Docker daemon answers
    probe,          \* the cached engine version
    edits,          \* edits made to the template directory since the start
    attempt,        \* each request's render
    containers      \* compile containers still running, by name

engineVars == <<host, up, probe, edits, attempt, containers>>

-----------------------------------------------------------------------------
(* Reading a failed compile *)

BoundSignals == {6, 9, 24, 25}
StoppedSignals == {1, 2, 3, 15}

\* Mutant of SignalFailure: every signal is a document over the envelope.
SignalAlwaysBound(signal) == "resource_limit_exceeded"

SignalFailure(signal) ==
    IF signal \in BoundSignals THEN "resource_limit_exceeded"
    ELSE IF signal \in StoppedSignals THEN "engine_unavailable"
    ELSE "unexpected_render_error"

\* An exit is its code and whether the process said anything.
ClassifyCompileFailure(exit) ==
    IF exit.spoke THEN "template_render_failed"
    ELSE IF exit.code < 0 THEN SignalFailure(-exit.code)
    ELSE IF exit.code > 128 THEN SignalFailure(exit.code - 128)
    ELSE "template_render_failed"

\* What an engine error the submission did not name makes of the job.
UnexpectedCategory(error) ==
    IF error.kind = "compile" THEN error.category
    ELSE IF error.kind = "no_runtime" THEN "engine_unavailable"
    ELSE "unexpected_render_error"

\* The except clauses around the engine, in their order.
JobCategory(error) ==
    CASE error.kind = "timeout"       -> "timeout"
      [] error.kind = "compatibility" -> "template_not_supported"
      [] error.kind = "value"         -> "package_validation_failed"
      [] OTHER                        -> UnexpectedCategory(error)

-----------------------------------------------------------------------------
(* The version probe *)

\* A command that ran and printed no version is cached as unmeasured.
ProbeVersion ==
    probe' = IF probe # "unasked" \/ host = "none" THEN probe
             ELSE IF host = "docker" /\ ~up THEN "unmeasured" ELSE "measured"

RecordedVersion(measured) ==
    IF measured = "measured" THEN "measured" ELSE "configured"

-----------------------------------------------------------------------------
(* A render *)

\* Template bytes are named by the number of edits they are away from the
\* approved ones.
Approved == 0
Unread == -1

NoError == [kind |-> "none", category |-> "none"]

Idle == [at |-> "idle", package |-> "none", status |-> "accepted",
         category |-> "none", error |-> NoError, digest |-> Unread,
         copied |-> Unread, version |-> "none", name |-> "none",
         workspace |-> FALSE, cause |-> "none", killFailed |-> FALSE]

EngineInit ==
    /\ host \in Hosts
    /\ up = TRUE
    /\ probe = "unasked"
    /\ edits = 0
    /\ attempt = [r \in Renders |-> Idle]
    /\ containers = {}

\* The render ended with an error: the workspace is removed on the way out.
Raise(r, error, status, category) ==
    [attempt[r] EXCEPT !.at = "done", !.workspace = FALSE, !.error = error,
                       !.status = status, !.category = category]

Step(r, from, to) == attempt[r].at = from /\ attempt' = [attempt EXCEPT ![r] = to]

\* Resolve, dispatch by format, and build the context.
Validate(r, package) ==
    /\ LET reason == DispatchReason(Manifests(ServedFiles), package, Formats)
           begun == [attempt[r] EXCEPT !.package = package.name,
                                       !.status = "validating_package"]
       IN  Step(r, "idle",
             IF reason # "dispatched"
             THEN [begun EXCEPT !.at = "done",
                     !.error = [kind |-> "compatibility", category |-> reason]]
             ELSE IF ~package.drawable
             THEN [begun EXCEPT !.at = "done", !.status = "failed",
                     !.category = "package_validation_failed",
                     !.error = [kind |-> "value", category |-> "context"]]
             ELSE [begun EXCEPT !.at = "measuring"])
    /\ UNCHANGED <<host, up, probe, edits, containers>>

\* The digest of the directory as it is now, and the version of the engine.
Measure(r) ==
    /\ ProbeVersion
    /\ Step(r, "measuring",
         [attempt[r] EXCEPT !.at = "copying", !.status = "rendering",
                            !.digest = edits,
                            !.version = RecordedVersion(probe')])
    /\ UNCHANGED <<host, up, edits, containers>>

\* Mutant of ContainerName: every run has the same name.
ContainerNameShared(r) == "lotus-render-compile"

\* The name of a run is its workspace's, and a workspace is one render's.
ContainerName(r) == r

\* Copy the template into a fresh workspace and start the compile there.
Start(r) ==
    /\ Step(r, "copying",
         IF host = "none"
         THEN [Raise(r, [kind |-> "no_runtime", category |-> "none"],
                     attempt[r].status, "none") EXCEPT !.copied = edits]
         ELSE [attempt[r] EXCEPT !.at = "compiling", !.copied = edits,
                                 !.workspace = TRUE, !.name = ContainerName(r)])
    /\ containers' = IF host = "docker" /\ up
                     THEN containers \cup {[name |-> ContainerName(r), of |-> r]}
                     ELSE containers
    /\ UNCHANGED <<host, up, probe, edits>>

Own(r) == {c \in containers : c.of = r}

\* A signal reaches the parent as -n from a child and 128 + n through Docker.
ExitCode(signal) == IF host = "docker" THEN 128 + signal ELSE -signal

\* How a compile can end by itself, and why.  Without its container, the
\* daemon having gone, the client says so and leaves.
Endings(r) ==
    IF host = "docker" /\ Own(r) = {}
    THEN {[cause |-> "daemon", exit |-> [code |-> 125, spoke |-> TRUE]]}
    ELSE {[cause |-> "template", exit |-> [code |-> 1, spoke |-> TRUE]],
          [cause |-> "template", exit |-> [code |-> 1, spoke |-> FALSE]]}
         \cup {[cause |-> "bound", exit |-> [code |-> ExitCode(s), spoke |-> FALSE]]
                 : s \in {6, 9, 24}}
         \cup {[cause |-> "stopped", exit |-> [code |-> ExitCode(15), spoke |-> FALSE]],
               [cause |-> "engine", exit |-> [code |-> ExitCode(11), spoke |-> FALSE]]}

CompileFails(r) ==
    /\ \E ending \in Endings(r) :
          LET category == ClassifyCompileFailure(ending.exit)
          IN  Step(r, "compiling",
                [Raise(r, [kind |-> "compile", category |-> category],
                       "failed", category) EXCEPT !.cause = ending.cause])
    /\ containers' = containers \ Own(r)
    /\ UNCHANGED <<host, up, probe, edits>>

CompileSucceeds(r) ==
    /\ host = "docker" => Own(r) # {}
    /\ Step(r, "compiling",
         [attempt[r] EXCEPT !.at = "done", !.workspace = FALSE,
                            !.status = "rendered", !.cause = "success"])
    /\ containers' = containers \ Own(r)
    /\ UNCHANGED <<host, up, probe, edits>>

\* Mutant of TimeOut: only a container is timed out.
TimeOutOfContainer(r) ==
    /\ Own(r) # {}
    /\ Step(r, "compiling", [attempt[r] EXCEPT !.at = "killing", !.cause = "timeout"])
    /\ UNCHANGED <<host, up, probe, edits, containers>>

\* The wait ended before the compile did: the child is reaped, which in
\* Docker's case is only the client.
TimeOut(r) ==
    /\ Step(r, "compiling", [attempt[r] EXCEPT !.at = "killing", !.cause = "timeout"])
    /\ UNCHANGED <<host, up, probe, edits, containers>>

\* Mutant of Kill: the client was reaped, nothing else is stopped.
KillNothing(r) ==
    /\ Step(r, "killing",
         Raise(r, [kind |-> "timeout", category |-> "none"], "failed", "timeout"))
    /\ UNCHANGED <<host, up, probe, edits, containers>>

\* docker kill by name, best effort; the timeout is reported either way.
Kill(r) ==
    /\ \E works \in {up, FALSE} :
          /\ Step(r, "killing",
               [Raise(r, [kind |-> "timeout", category |-> "none"],
                      "failed", "timeout")
                  EXCEPT !.killFailed = ~works /\ Own(r) # {}])
          /\ containers' = IF works
                           THEN {c \in containers : c.name # attempt[r].name}
                           ELSE containers
    /\ UNCHANGED <<host, up, probe, edits>>

EngineStep(r) ==
    \/ Measure(r) \/ Start(r) \/ CompileFails(r) \/ CompileSucceeds(r)
    \/ TimeOut(r) \/ Kill(r)

\* A container that was not killed ends by itself.
ContainerEnds ==
    /\ \E c \in containers :
          /\ attempt[c.of].at = "done"
          /\ containers' = containers \ {c}
    /\ UNCHANGED <<host, up, probe, edits, attempt>>

\* The template directory is edited in place while the process serves.
Edit ==
    /\ edits < MaxEdits
    /\ edits' = edits + 1
    /\ UNCHANGED <<host, up, probe, attempt, containers>>

\* The daemon stops, taking its containers with it, or comes back.
DaemonFlips ==
    /\ host = "docker"
    /\ up' = ~up
    /\ containers' = {}
    /\ UNCHANGED <<host, probe, edits, attempt>>

-----------------------------------------------------------------------------
(* Properties *)

\* The category the job is failed with is the one the engine decided on, and
\* blames what ended the compile: a document over its bound, a stopped
\* runtime and a broken template never pass for each other, while the engine
\* is reachable (compile_failures.py:49-112, render_job_views.py:46-68).
FailureBlamesItsCause ==
    \A r \in Renders :
        attempt[r].error.kind \in {"compile", "timeout"} =>
            LET category == JobCategory(attempt[r].error)
            IN  /\ category = attempt[r].category
                /\ attempt[r].cause = "bound" => category = "resource_limit_exceeded"
                /\ attempt[r].cause = "stopped" => category = "engine_unavailable"
                /\ attempt[r].cause = "engine" => category = "unexpected_render_error"
                /\ attempt[r].cause = "timeout" => category = "timeout"
                /\ category = "template_render_failed" =>
                      attempt[r].cause \in {"template", "daemon"}

\* A container that is still compiling has its workspace, unless the render
\* timed out and its kill failed (typst_rendering.py:176-193, 330-347).
ContainersHaveTheirWorkspace ==
    \A c \in containers : attempt[c.of].workspace \/ attempt[c.of].killFailed

\* While the daemon stays up a container ends only with its own render: a
\* kill by name reaches no compile another render is waiting for
\* (typst_rendering.py:86-93).
KillsReachOnlyTheirOwn ==
    [][up' = up => \A c \in containers \ containers' :
                      attempt'[c.of].at = "done"]_engineVars

=============================================================================
