----------------------------- MODULE MCPipeline -----------------------------
(* Texts of keywords, line ends and one other character *)
EXTENDS Pipeline
=============================================================================
