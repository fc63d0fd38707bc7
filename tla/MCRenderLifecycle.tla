------------------------- MODULE MCRenderLifecycle -------------------------
(***************************************************************************)
(* RenderLifecycle for TLC.  The packages are chosen for what admission    *)
(* and custody make of them: `plain` is rendered and filed, `oversized` is *)
(* refused at admission, `foreign` names a tenant in its custody block but *)
(* has no document reference, `composite` and `unscoped` are composites    *)
(* whose report data names a tenant and none.                              *)
(***************************************************************************)
EXTENDS RenderLifecycle, TLC

CONSTANTS alice, bob, plain, oversized, foreign, composite, unscoped

MCClaimedTenant ==
    [p \in Packages |-> IF p = foreign THEN bob ELSE NoTenant]

MCCompositePackages == Packages \cap {composite, unscoped}

MCScopedTenant ==
    [p \in MCCompositePackages |-> IF p = composite THEN alice ELSE NoTenant]

MCRefusal ==
    [p \in Packages |-> IF p = oversized THEN "resource_limit_exceeded"
                                         ELSE "none"]

MCCustodyPackages == Packages \ {foreign}

\* Submissions are told apart only by where they are.
CallSymmetry == Permutations(Submissions)

=============================================================================
