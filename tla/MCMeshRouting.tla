--------------------------- MODULE MCMeshRouting ---------------------------
(* MeshRouting with small sets of provider configurations. *)
EXTENDS MeshRouting, TLC

CONSTANTS m1, m2

Provider(type, discovery, private, models) ==
    [type |-> type, discovery |-> discovery, private |-> private, models |-> models]

Running == Provider("ollama", "all", FALSE, <<>>)
Hidden == Provider("ollama", "all", TRUE, <<>>)
Pinned == Provider("ollama", "whitelist", FALSE, (m1 :> TRUE) @@ (m2 :> FALSE))
Hosted == Provider("openai", "whitelist", FALSE, m1 :> FALSE)
Unlisted == Provider("openai", "all", FALSE, <<>>)
Fixed == Provider("test", "whitelist", FALSE, m1 :> FALSE)

\* Every provider type and discovery mode, and two providers of one model.
AllConfigs == {<<Pinned>>, <<Hosted>>, <<Unlisted>>, <<Hidden, Fixed>>, <<Running>>}

OneProvider == {<<Fixed>>}

MixedCase == (m1 :> m1) @@ (m2 :> m1)

OneModel == m1 :> m1

AllPaths == {"/api/chat", "/v1/chat/completions", "/v1/messages"}

Completions == {"/v1/chat/completions"}

MCSymmetry == Permutations(Node)
============================================================================
