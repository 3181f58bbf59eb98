--------------------------- MODULE MCGenerationRun ---------------------------
(* GenerationRun with the seven steps of the code and two resumers.   *)
EXTENDS GenerationRun
=============================================================================
