--------------------------- MODULE MCRenderRequest ---------------------------
(***************************************************************************)
(* Two requests at once, over bodies that fit and bodies that do not, and  *)
(* packages every refusal of the registry and the dispatcher applies to.   *)
(***************************************************************************)
EXTENDS RenderRequest

MCTenantFields ==
    {<<>>, <<"">>, <<"alice">>, <<" alice">>, <<"alice", "alice">>}
MCMalformed == {" alice"}
MCTraces == {[parent |-> "none", header |-> "none", corr |-> "none"],
             [parent |-> "w3c", header |-> "caller", corr |-> "caller"]}

Supported == [d \in {Dimensions[i] : i \in DOMAIN Dimensions} |->
                 IF d = "output_format" THEN {"pdf"} ELSE {"ok"}]

MCManifest(version, status) ==
    [id |-> "review", version |-> version, engine |-> "typst", shared |-> "s1",
     status |-> status, supports |-> Supported]

MCServedFiles ==
    <<MCManifest("v1", "active"), MCManifest("v2", "deprecated_rerenderable"),
      [MCManifest("v3", "active") EXCEPT !.engine = "xlsxwriter"]>>

MCPackage(name, version) ==
    [name |-> name, id |-> "review", version |-> version, drawable |-> TRUE,
     asks |-> [d \in DOMAIN Supported |->
                  IF d = "output_format" THEN "pdf" ELSE "ok"]]

Good == MCPackage("good", "v1")

MCPackages ==
    {Good, [Good EXCEPT !.name = "undrawable", !.drawable = FALSE],
     MCPackage("other_engine", "v3")}

=============================================================================
