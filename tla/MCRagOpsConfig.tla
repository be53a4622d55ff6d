--------------------------- MODULE MCRagOpsConfig ---------------------------
(* Small instances of RagOpsConfig for TLC.                                *)
EXTENDS RagOpsConfig, TLC

CragFlags == {"crag_enabled", "crag_web_enabled"}
CragRequires == {<<"crag_web_enabled", "crag_enabled">>}

\* CRAG is on, its web correction is off.
CragSeed == [f \in CragFlags |-> f = "crag_enabled"]

\* One admin turns CRAG off while another turns its web correction on.
RacingPayloads == {"crag_enabled" :> FALSE, "crag_web_enabled" :> TRUE}
AllPayloads == UNION {[S -> BOOLEAN] : S \in SUBSET CragFlags \ {{}}}

\* One flag without dependents, for the runs about propagation.
NoRequires == {}
OneFlag == {"reranking_enabled"}
OneSeed == [f \in OneFlag |-> FALSE]
OnePayload == {"reranking_enabled" :> TRUE}

Interchangeable == Permutations(Workers) \union Permutations(Admins)
=============================================================================
