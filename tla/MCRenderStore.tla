--------------------------- MODULE MCRenderStore ---------------------------
(***************************************************************************)
(* RenderStore under callers that pass any argument: one job created in    *)
(* the run and one left by a release without tenants.                      *)
(***************************************************************************)
EXTENDS JobReads, TLC

\* Tenants, packages and digests are only ever compared for equality.
StoreSymmetry ==
    Permutations(Tenants) \cup Permutations(Packages) \cup Permutations(Digests)

=============================================================================
