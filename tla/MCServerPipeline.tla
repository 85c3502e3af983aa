-------------------------- MODULE MCServerPipeline --------------------------
(* An instance of ServerPipeline for TLC; the ids are model values.  With  *)
(* liveness among the properties, no symmetry is declared.                 *)
EXTENDS ServerPipeline

CONSTANTS a1, a2
=============================================================================
