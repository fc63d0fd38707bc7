----------------------------- MODULE MCStartup -----------------------------
(***************************************************************************)
(* Startup of valid and invalid deployments, over registries that load     *)
(* and registries that must not, from the schema of every release.         *)
(***************************************************************************)
EXTENDS Startup

Deployment(environment, flag, path, default, formats) ==
    [environment |-> environment, requirePersistent |-> flag, store |-> path,
     default |-> default, formats |-> formats]

MCDeployments ==
    {Deployment("production", FALSE, "file", "pdf", {"pdf", "xlsx"}),
     Deployment("production", FALSE, "memory", "pdf", {"pdf", "xlsx"}),
     Deployment("development", FALSE, "memory", "pdf", {"pdf", "xlsx"}),
     Deployment("development", TRUE, "memory", "pdf", {"pdf", "xlsx"}),
     Deployment("production", TRUE, "file", "xlsx", {"xlsx"}),
     Deployment("production", TRUE, "file", "xlsx", {"pdf"})}

\* Two versions of a PDF family that share one design, and a workbook whose
\* directory is missing.
MCDisk ==
    [family |-> [v1 |-> "f1", v2 |-> "f2"],
     xlsx   |-> [v1 |-> Missing, v2 |-> "x2"],
     shared |-> [s1 |-> "d1", s2 |-> Missing]]

Manifest(v, engine, shared, digest) ==
    [id |-> "review", version |-> v, engine |-> engine, shared |-> shared,
     digest |-> digest, publication |-> "published", facts |-> TRUE,
     status |-> "active", supports |-> <<>>]

Approved == Manifest("v1", "typst", "s1", <<"f1", "d1">>)
Workbook == Manifest("v2", "xlsxwriter", NoShared, <<"x2", NoShared>>)

MCRegistryFiles ==
    {<<Approved, Workbook>>, <<>>, <<Approved, Approved>>,
     <<Approved, [Workbook EXCEPT !.facts = FALSE]>>,
     <<Approved, [Workbook EXCEPT !.digest = <<"x1", NoShared>>]>>,
     <<Manifest("v1", "xlsxwriter", NoShared, <<Missing, NoShared>>)>>,
     <<Manifest("v1", "typst", "s2", <<"f1", Missing>>)>>,
     <<Manifest("v1", "html", "s1", <<"f1", "d1">>)>>}

=============================================================================
