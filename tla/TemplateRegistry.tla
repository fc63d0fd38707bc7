-------------------------- MODULE TemplateRegistry --------------------------
(***************************************************************************)
(* The template registry: which manifests a process serves, and which      *)
(* manifest, or which refusal, a package gets.                             *)
(* src/app/domain/templates/registry.py, digest.py, services/render_intake *)
(* and services/render_dispatch.                                           *)
(*                                                                         *)
(* A template's bytes are a model value; the digest of a dependency graph  *)
(* is the pair of the family's and the shared design's bytes, which the    *)
(* length prefixes of template_digest make injective.                      *)
(***************************************************************************)
EXTENDS Naturals, Sequences, FiniteSets

Missing == "missing"
NoShared == "none"

(* A manifest file is a record                                             *)
(*   [id, version, engine, shared, digest, publication, facts, status,     *)
(*    supports]                                                            *)
(* and a disk is a record [family, xlsx, shared] of functions from         *)
(* versions to bytes, Missing where the directory does not exist.          *)

Key(manifest) == <<manifest.id, manifest.version>>

-----------------------------------------------------------------------------
(* Loading *)

\* The publication facts are recorded exactly when the version is published.
PublicationFactsMatch(manifest) ==
    (manifest.publication = "published") = manifest.facts

SourceOf(disk, manifest) ==
    CASE manifest.engine = "typst" ->
            [family |-> disk.family[manifest.version],
             shared |-> disk.shared[manifest.shared]]
      [] manifest.engine = "xlsxwriter" /\ manifest.shared = NoShared ->
            [family |-> disk.xlsx[manifest.version], shared |-> NoShared]
      [] OTHER -> [family |-> Missing, shared |-> Missing]

UnsupportedSource(manifest) ==
    /\ manifest.engine # "typst"
    /\ ~(manifest.engine = "xlsxwriter" /\ manifest.shared = NoShared)

TemplateDigest(disk, manifest) ==
    <<SourceOf(disk, manifest).family, SourceOf(disk, manifest).shared>>

DigestVerified(disk, manifest) ==
    /\ ~UnsupportedSource(manifest)
    /\ SourceOf(disk, manifest).family # Missing
    /\ SourceOf(disk, manifest).shared # Missing
    /\ TemplateDigest(disk, manifest) = manifest.digest

\* load_from_directory over the files in path order: every one valid and
\* verified, no two of one key, and at least one of them.
Loads(disk, files) ==
    /\ files # <<>>
    /\ \A i \in DOMAIN files :
          /\ PublicationFactsMatch(files[i])
          /\ DigestVerified(disk, files[i])
          /\ \A k \in 1..(i - 1) : Key(files[k]) # Key(files[i])

Manifests(files) == {files[i] : i \in DOMAIN files}

-----------------------------------------------------------------------------
(* Resolving a package for a new render *)

Dimensions ==
    <<"report_type", "report_data_contract_version", "locale",
      "brand_variant", "output_format">>

UnsupportedReason ==
    [d \in {Dimensions[i] : i \in DOMAIN Dimensions} |-> d \o "_not_supported"]

Supports(manifest, package, dimension) ==
    package.asks[dimension] \in manifest.supports[dimension]

FirstUnsupported(manifest, package) ==
    Dimensions[CHOOSE i \in DOMAIN Dimensions :
        /\ ~Supports(manifest, package, Dimensions[i])
        /\ \A k \in 1..(i - 1) : Supports(manifest, package, Dimensions[k])]

StatusReason ==
    [active                  |-> "resolved",
     deprecated_rerenderable |-> "template_deprecated_for_new_renders",
     blocked_for_new_renders |-> "template_blocked_for_new_renders",
     blocked                 |-> "template_blocked"]

Candidates(manifests, package) ==
    {m \in manifests : Key(m) = <<package.id, package.version>>}

\* The reason a package is refused for, or "resolved": identity first, then
\* the dimensions in their order, then the lifecycle status.
ResolveReason(manifests, package) ==
    IF Candidates(manifests, package) = {}
    THEN IF \E m \in manifests : m.id = package.id
         THEN "template_version_not_supported"
         ELSE "template_not_supported"
    ELSE LET manifest == CHOOSE m \in Candidates(manifests, package) : TRUE
         IN  IF \A i \in DOMAIN Dimensions :
                    Supports(manifest, package, Dimensions[i])
             THEN StatusReason[manifest.status]
             ELSE UnsupportedReason[FirstUnsupported(manifest, package)]

Resolved(manifests, package) ==
    CHOOSE m \in Candidates(manifests, package) : TRUE

-----------------------------------------------------------------------------
(* Choosing the engine of a resolved package by its format *)

EngineOfFormat == [pdf |-> "typst", xlsx |-> "xlsxwriter"]

DispatchReason(manifests, package, formats) ==
    LET format == package.asks["output_format"]
        resolved == ResolveReason(manifests, package)
    IN  IF resolved # "resolved" THEN resolved
        ELSE IF format \notin DOMAIN EngineOfFormat \/ format \notin formats
             THEN "output_format_not_supported"
        ELSE IF Resolved(manifests, package).engine # EngineOfFormat[format]
             THEN "runtime_engine_not_supported"
        ELSE "dispatched"

\* The engine whose identity a job row records before the package is
\* validated: an unknown format falls back to the PDF engine's.
RecordedEngine(package) ==
    LET format == package.asks["output_format"]
    IN  EngineOfFormat[IF format \in DOMAIN EngineOfFormat THEN format ELSE "pdf"]

=============================================================================
