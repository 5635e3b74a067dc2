----------------------------- MODULE MCSemantic -----------------------------
(* SemanticPipeline with two sessions, each of either version of the prompt. *)
EXTENDS SemanticPipeline
=============================================================================
